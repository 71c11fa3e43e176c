----------------------------- MODULE ShootStore -----------------------------
(***************************************************************************)
(* The in-memory shoot store of the stand-alone API (pkg/store) and the two *)
(* ways its handlers read it.  Every method is one locked section, so one   *)
(* step; what happens after the lock is released is the point: GetShoot     *)
(* hands out a pointer INTO the store, which the handler encodes later,     *)
(* ListShoots hands out copies, which still share the arrays of conditions. *)
(* Shoots and arrays of conditions are therefore modelled as allocated      *)
(* objects, referred to by their index.  Loading a configuration is one      *)
(* locked section too, taken apart into the iterations of its two loops.     *)
(***************************************************************************)
EXTENDS Naturals, Sequences

CONSTANTS
    Namespaces, Names, ProjectNames,
    Garden,             \* [ProjectNames -> Namespaces]: "garden-" + name
    None,               \* a namespace left empty
    Keys, Values,       \* label keys and values
    Configs,            \* the configurations a store is loaded from
    Calls,              \* identities of the read calls of a behaviour
    Questions,          \* what a read call may ask
    MaxWrites           \* bound: calls that change the store

Statuses == {"Healthy", "Unhealthy", "Progressing", "Hibernated"}

\* types.ShootConfig and types.ProjectConfig, as far as the store reads them.
ShootConfig ==
    [name : Names, labels : [Keys -> Values], status : Statuses]

ProjectConfig ==
    [name : ProjectNames, namespace : Namespaces \cup {None},
     shoots : Seq(ShootConfig)]

ASSUME StoreAssumption ==
    /\ Garden \in [ProjectNames -> Namespaces]
    /\ Configs \subseteq Seq(ProjectConfig)
    /\ \A q \in Questions :
          q.kind = "get" => q.namespace \in Namespaces /\ q.name \in Names
    /\ MaxWrites \in Nat

Monitored == <<"APIServerAvailable", "ControlPlaneHealthy",
               "SystemComponentsHealthy">>

Verdict == [Healthy |-> "True", Unhealthy |-> "False", Progressing |-> "Unknown"]

Conditions(status) ==
    IF status = "Hibernated"
    THEN << <<"HibernationPossible", "True">>, <<"Hibernated", "True">> >>
    ELSE [i \in 1 .. 3 |-> <<Monitored[i], Verdict[status]>>]

\* Mutant: only the first condition is looked at.
StatusOf_FirstOnly(conditions) ==
    CASE conditions[1] = <<"Hibernated", "True">> -> "Hibernated"
      [] conditions[1] = <<"APIServerAvailable", "False">> -> "Unhealthy"
      [] conditions[1] = <<"APIServerAvailable", "Unknown">> -> "Progressing"
      [] OTHER -> "Healthy"

Tells(c) == c[1] = "APIServerAvailable" \/ c = <<"Hibernated", "True">>

\* GetShootStatus: the first condition that tells decides.
StatusOf(conditions) ==
    IF \A i \in DOMAIN conditions : ~ Tells(conditions[i])
    THEN "Healthy"
    ELSE LET first == CHOOSE i \in DOMAIN conditions :
                         /\ Tells(conditions[i])
                         /\ \A j \in 1 .. (i - 1) : ~ Tells(conditions[j])
         IN  IF conditions[first][1] = "Hibernated" THEN "Hibernated"
             ELSE CASE conditions[first][2] = "True"  -> "Healthy"
                    [] conditions[first][2] = "False" -> "Unhealthy"
                    [] OTHER -> "Progressing"

\* A label that is absent reads as the empty value; a selector constrains some
\* of the keys.
MatchesLabels(labels, selector) ==
    \A k \in DOMAIN selector : labels[k] = selector[k]

VARIABLES
    config,     \* the configuration the store is loaded from
    at,         \* how far LoadFromConfig is: a project, one of its shoots
    store,      \* the maps of the store and everything they point to
    writes,     \* changes so far
    pc,         \* per read call: where it is
    ask,        \* per read call: what it asks
    items,      \* per read call: what the store's method returned
    answer,     \* per read call: what the handler encoded
    atLookup,   \* history: what the method saw under the lock
    raced,      \* history: a status was written since then to a shoot returned
    wanted,     \* history: per shoot allocated, the last status asked for it,
                \* by its configuration or by a call
    updated     \* history: the shoots whose status a call has set

callVars == <<pc, ask, items, answer, atLookup>>
loadVars == <<config, at>>
vars == <<loadVars, store, writes, callVars, raced, wanted, updated>>

----------------------------------------------------------------------------
(* The content of the store. *)

NewShootStore ==
    [heap     |-> <<>>,                                 \* shoots allocated
     arrays   |-> <<>>,                                 \* arrays of conditions
     spaces   |-> {},                                   \* keys of s.shoots
     table    |-> [k \in Namespaces \X Names |-> 0],    \* 0: no entry
     projects |-> [p \in ProjectNames |-> None]]

\* createShoot and the assignment that stores its result.
Put(s, ns, cfg) ==
    [s EXCEPT
       !.arrays = Append(@, Conditions("Healthy")),
       !.heap   = Append(@, [key        |-> <<ns, cfg.name>>,
                             labels     |-> cfg.labels,
                             hibernated |-> cfg.status = "Hibernated",
                             conditions |-> Len(s.arrays) + 1]),
       !.spaces = @ \cup {ns},
       !.table[<<ns, cfg.name>>] = Len(s.heap) + 1]

ConditionsOf(s, i) == s.arrays[s.heap[i].conditions]

\* Places in the heap and in its list of arrays; 0 is no place.
Store ==
    [heap     : Seq([key        : Namespaces \X Names,
                     labels     : [Keys -> Values],
                     hibernated : BOOLEAN,
                     conditions : Nat]),
     arrays   : Seq({Conditions(status) : status \in Statuses}),
     spaces   : SUBSET Namespaces,
     table    : [Namespaces \X Names -> Nat],
     projects : [ProjectNames -> Namespaces \cup {None}]]

Stored(s) == {s.table[k] : k \in Namespaces \X Names} \ {0}

\* What a reader is told of the i-th shoot.
Told(i, conditions) == [shoot |-> i, conditions |-> conditions]

Telling == [shoot : Nat, conditions : {Conditions(status) : status \in Statuses}]

Init ==
    /\ config \in Configs
    /\ at = [project |-> 1, shoot |-> 0]
    /\ store = NewShootStore
    /\ writes = 0
    /\ pc = [r \in Calls |-> "idle"]
    /\ ask \in [Calls -> Questions]
    /\ items = [r \in Calls |-> {}]
    /\ answer = [r \in Calls |-> {}]
    /\ atLookup = [r \in Calls |-> {}]
    /\ raced = [r \in Calls |-> FALSE]
    /\ wanted = <<>>
    /\ updated = {}

\* LoadFromConfig holds the lock as long as there are projects left.
Loading == at.project <= Len(config)

\* An entry of the table lies in a map that exists and points to a shoot of
\* that name.
TypeOK ==
    /\ config \in Configs
    /\ at \in [project : 1 .. Len(config) + 1, shoot : Nat]
    /\ IF Loading THEN at.shoot \in 0 .. Len(config[at.project].shoots)
                  ELSE at.shoot = 0
    /\ store \in Store
    /\ \A i \in DOMAIN store.heap :
          store.heap[i].conditions \in DOMAIN store.arrays
    /\ \A k \in Namespaces \X Names :
          store.table[k] # 0 => /\ k[1] \in store.spaces
                                /\ store.table[k] \in DOMAIN store.heap
                                /\ store.heap[store.table[k]].key = k
    /\ pc \in [Calls -> {"idle", "encoding", "done", "notFound"}]
    /\ ask \in [Calls -> Questions]
    /\ items \in [Calls -> SUBSET [shoot : DOMAIN store.heap,
                                   array : DOMAIN store.arrays]]
    /\ answer \in [Calls -> SUBSET Telling]
    /\ atLookup \in [Calls -> SUBSET Telling]
    /\ raced \in [Calls -> BOOLEAN]
    /\ wanted \in Seq(Statuses) /\ Len(wanted) = Len(store.heap)
    /\ updated \subseteq DOMAIN store.heap
    /\ writes \in 0 .. MaxWrites

----------------------------------------------------------------------------
(* LoadFromConfig. *)

NamespaceOf(project) ==
    IF project.namespace = None THEN Garden[project.name] ELSE project.namespace

Load(s, after) ==
    /\ store' = s
    /\ wanted' = after
    /\ at' = IF at.shoot < Len(config[at.project].shoots)
             THEN [at EXCEPT !.shoot = @ + 1]
             ELSE [project |-> at.project + 1, shoot |-> 0]
    /\ UNCHANGED <<config, writes, callVars, raced, updated>>

\* The entry of a project and the map of its namespace.
LoadProject ==
    /\ Loading /\ at.shoot = 0
    /\ LET project == config[at.project]
       IN  Load([store EXCEPT !.projects[project.name] = NamespaceOf(project),
                              !.spaces = @ \cup {NamespaceOf(project)}], wanted)

\* A shoot of that project.
LoadShoot ==
    /\ Loading /\ at.shoot # 0
    /\ LET project == config[at.project]
           cfg     == project.shoots[at.shoot]
       IN  Load(Put(store, NamespaceOf(project), cfg), Append(wanted, cfg.status))

----------------------------------------------------------------------------
(* Methods that change the store. *)

Write(s) ==
    /\ ~ Loading
    /\ writes < MaxWrites
    /\ writes' = writes + 1
    /\ store' = s
    /\ UNCHANGED <<loadVars, callVars>>

\* Mutant: the map of a new namespace is not made.
AddShoot_WithoutMap(ns, cfg) ==
    /\ Write([Put(store, ns, cfg) EXCEPT !.spaces = store.spaces])
    /\ wanted' = Append(wanted, cfg.status)
    /\ UNCHANGED <<raced, updated>>

\* Mutant: a shoot that exists already is overwritten in place.
AddShoot_InPlace(ns, cfg) ==
    LET i == store.table[<<ns, cfg.name>>]
    IN  /\ IF i = 0 THEN Write(Put(store, ns, cfg))
           ELSE Write([store EXCEPT
                         !.arrays = Append(@, Conditions("Healthy")),
                         !.heap[i].conditions = Len(store.arrays) + 1])
        /\ wanted' = IF i = 0 THEN Append(wanted, cfg.status)
                              ELSE [wanted EXCEPT ![i] = cfg.status]
        /\ UNCHANGED <<raced, updated>>

\* A name in use gets a new shoot; readers of the old one keep it.
AddShoot(ns, cfg) ==
    /\ Write(Put(store, ns, cfg))
    /\ wanted' = Append(wanted, cfg.status)
    /\ UNCHANGED <<raced, updated>>

DeleteShoot(ns, name) ==
    /\ store.table[<<ns, name>>] # 0
    /\ Write([store EXCEPT !.table[<<ns, name>>] = 0])
    /\ UNCHANGED <<raced, wanted, updated>>

MarkRaced(i) ==
    raced' = [r \in Calls |->
                 \/ raced[r]
                 \/ pc[r] = "encoding" /\ (\E it \in items[r] : it.shoot = i)]

\* Mutant: the conditions are overwritten in their array.
UpdateShootStatus_InPlace(ns, name, status) ==
    LET i == store.table[<<ns, name>>]
    IN  /\ i # 0
        /\ Write([store EXCEPT
                    !.arrays[store.heap[i].conditions] = Conditions(status)])
        /\ wanted' = [wanted EXCEPT ![i] = status]
        /\ updated' = updated \cup {i}
        /\ MarkRaced(i)

\* The conditions are replaced by a new array.  A status of another name, or a
\* shoot that does not exist, changes nothing.
UpdateShootStatus(ns, name, status) ==
    LET i == store.table[<<ns, name>>]
    IN  /\ i # 0
        /\ Write([store EXCEPT
                    !.arrays = Append(@, Conditions(status)),
                    !.heap[i].conditions = Len(store.arrays) + 1])
        /\ wanted' = [wanted EXCEPT ![i] = status]
        /\ updated' = updated \cup {i}
        /\ MarkRaced(i)

----------------------------------------------------------------------------
(* Read calls: the method under RLock, then the handler's json encoding. *)

Returns(r, found) ==
    /\ items' = [items EXCEPT ![r] = found]
    /\ atLookup' = [atLookup EXCEPT
                      ![r] = {Told(it.shoot, store.arrays[it.array]) : it \in found}]
    /\ pc' = [pc EXCEPT ![r] = "encoding"]
    /\ UNCHANGED <<loadVars, store, writes, ask, answer, raced, wanted,
                   updated>>

\* A copy of a shoot's struct: its array of conditions is shared.
CopyOf(i) == [shoot |-> i, array |-> store.heap[i].conditions]

ListShoots(r) ==
    /\ ~ Loading
    /\ pc[r] = "idle" /\ ask[r].kind = "list"
    /\ Returns(r, {CopyOf(i) : i \in
                     {j \in Stored(store) :
                        /\ ask[r].namespace \in {None, store.heap[j].key[1]}
                        /\ MatchesLabels(store.heap[j].labels, ask[r].selector)}})

GetShoot(r) ==
    /\ ~ Loading
    /\ pc[r] = "idle" /\ ask[r].kind = "get"
    /\ LET i == store.table[<<ask[r].namespace, ask[r].name>>]
       IN  \/ i # 0 /\ Returns(r, {CopyOf(i)})
           \/ /\ i = 0
              /\ pc' = [pc EXCEPT ![r] = "notFound"]
              /\ UNCHANGED <<loadVars, store, writes, ask, items, answer,
                             atLookup, raced, wanted, updated>>

Encodes(r, what) ==
    /\ answer' = [answer EXCEPT ![r] = what]
    /\ pc' = [pc EXCEPT ![r] = "done"]
    /\ UNCHANGED <<loadVars, store, writes, ask, items, atLookup, raced,
                   wanted, updated>>

EncodeList(r) ==
    /\ pc[r] = "encoding" /\ ask[r].kind = "list"
    /\ Encodes(r, {Told(it.shoot, store.arrays[it.array]) : it \in items[r]})

\* The encoder follows the pointer.  When a status is written meanwhile it
\* reads the slice of conditions without a lock, several times: it may see a
\* mixture, or panic on an index beyond the shorter array.
Torn == {}

EncodeShoot(r) ==
    /\ pc[r] = "encoding" /\ ask[r].kind = "get"
    /\ \/ Encodes(r, {Told(it.shoot, ConditionsOf(store, it.shoot)) :
                         it \in items[r]})
       \/ raced[r] /\ Encodes(r, Torn)

\* The management handler adds every shoot as Healthy.
Added == {cfg \in ShootConfig : cfg.status = "Healthy"}

Next ==
    \/ LoadProject \/ LoadShoot
    \/ \E ns \in Namespaces, cfg \in Added : AddShoot(ns, cfg)
    \/ \E ns \in Namespaces, name \in Names : DeleteShoot(ns, name)
    \/ \E ns \in Namespaces, name \in Names, status \in Statuses :
          UpdateShootStatus(ns, name, status)
    \/ \E r \in Calls : \/ ListShoots(r) \/ GetShoot(r)
                        \/ EncodeList(r) \/ EncodeShoot(r)

Spec == Init /\ [][Next]_vars

ListNamespaces == store.spaces

----------------------------------------------------------------------------
(* Properties *)

\* A list answers with the shoots and conditions of one moment, the moment the
\* lock was held, although it is encoded after statuses have been updated and
\* shoots deleted or replaced: the copies share no array that is written.
ListIsSnapshot ==
    \A r \in Calls :
        pc[r] = "done" /\ ask[r].kind = "list" => answer[r] = atLookup[r]

\* A GET encodes the shoot as it was looked up unless a status of that very
\* shoot is written meanwhile: deleting it, or creating another one under its
\* name, does not show in an answer that is under way.
GetDisturbedOnlyByUpdate ==
    \A r \in Calls :
        pc[r] = "done" /\ ask[r].kind = "get" /\ ~ raced[r] =>
            answer[r] = atLookup[r]

\* The status read back from the conditions of a shoot whose status
\* UpdateShootStatus has set is the last one it set.  Of a shoot that was only
\* loaded or added nothing is claimed: createShoot gives it the conditions of a
\* healthy one, so a configured "status: Progressing" (examples/config.yaml) is
\* read back as Healthy.
StatusReadBack ==
    \A i \in Stored(store) :
        i \in updated => StatusOf(ConditionsOf(store, i)) = wanted[i]

\* What a reader may still hold of the store s is left alone on the way to the
\* store t.
LeavesShared(s, t) ==
    /\ \A j \in DOMAIN s.arrays :
          j \in DOMAIN t.arrays /\ t.arrays[j] = s.arrays[j]
    /\ \A i \in DOMAIN s.heap :
          /\ i \in DOMAIN t.heap
          /\ t.heap[i] = [s.heap[i] EXCEPT !.conditions = t.heap[i].conditions]
          /\ i \notin Stored(s) => i \notin Stored(t) /\ t.heap[i] = s.heap[i]

\* A reader keeps pointers into the store when it has let go of the lock.  No
\* method ever writes into an array of conditions that has been published; of
\* a published shoot only the pointer to its conditions is ever written; and
\* one that has been deleted or replaced is not written at all, nor does it
\* come back.
SharedLeftAlone == [][LeavesShared(store, store')]_vars

----------------------------------------------------------------------------
(* The inductive invariant behind them. *)

\* A shoot's conditions are those of the status a call set last, or, while no
\* call has set one, those createShoot gives to every shoot.
StatusInv ==
    \A i \in DOMAIN store.heap :
        ConditionsOf(store, i) =
            Conditions(IF i \in updated THEN wanted[i] ELSE "Healthy")

\* While an answer is under way, the arrays it refers to are as they were, and
\* so is the pointer of a shoot whose status has not been written since.
UnderWay(r) ==
    /\ atLookup[r] = {Told(it.shoot, store.arrays[it.array]) : it \in items[r]}
    /\ ~ raced[r] =>
          \A it \in items[r] : store.heap[it.shoot].conditions = it.array

ReadInv ==
    /\ \A r \in Calls : pc[r] = "encoding" => UnderWay(r)
    /\ ListIsSnapshot
    /\ GetDisturbedOnlyByUpdate

IInv == TypeOK /\ StatusInv /\ ReadInv

----------------------------------------------------------------------------
(* What a comment says and the code does not do. *)

\* "ListNamespaces returns all unique namespaces that contain shoots"
\* (store.go).
NamespacesContainShoots ==
    ~ Loading =>
        \A ns \in ListNamespaces :
            \E name \in Names : store.table[<<ns, name>>] # 0
=============================================================================
