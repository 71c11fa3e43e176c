-------------------------- MODULE ShootStoreProofs --------------------------
(***************************************************************************)
(* Proofs about ShootStore: what a handler encodes after the store's lock   *)
(* is released is what was there under the lock, for any configuration and  *)
(* any number of calls.                                                     *)
(***************************************************************************)
EXTENDS ShootStore, SequenceTheorems, TLAPS

----------------------------------------------------------------------------
(* Sequences that grow at the end. *)

\* What was in the sequence stays where it is.
LEMMA AppendKeeps ==
    ASSUME NEW S, NEW seq \in Seq(S), NEW e \in S
    PROVE  /\ Append(seq, e) \in Seq(S)
           /\ Len(Append(seq, e)) = Len(seq) + 1
           /\ Len(seq) \in Nat
           /\ DOMAIN seq = 1 .. Len(seq)
           /\ DOMAIN Append(seq, e) = 1 .. (Len(seq) + 1)
           /\ \A i \in DOMAIN seq : Append(seq, e)[i] = seq[i]
           /\ Append(seq, e)[Len(seq) + 1] = e
  BY AppendProperties

\* What arrays and shoots are, and how the parts of a store fit together.
Arrays == {Conditions(status) : status \in Statuses}

Heap == [key : Namespaces \X Names, labels : [Keys -> Values],
         hibernated : BOOLEAN, conditions : Nat]

Indexed(s) ==
    /\ \A i \in DOMAIN s.heap : s.heap[i].conditions \in DOMAIN s.arrays
    /\ \A k \in Namespaces \X Names :
          s.table[k] # 0 => /\ k[1] \in s.spaces
                            /\ s.table[k] \in DOMAIN s.heap
                            /\ s.heap[s.table[k]].key = k

\* A shoot that is put into the store is a new one at the end of the heap, with
\* a new array of conditions, and its name refers to it.
LEMMA PutFields ==
    ASSUME NEW s \in Store, NEW ns \in Namespaces, NEW cfg \in ShootConfig
    PROVE  /\ Put(s, ns, cfg).arrays = Append(s.arrays, Conditions("Healthy"))
           /\ Put(s, ns, cfg).heap =
                 Append(s.heap, [key        |-> <<ns, cfg.name>>,
                                 labels     |-> cfg.labels,
                                 hibernated |-> cfg.status = "Hibernated",
                                 conditions |-> Len(s.arrays) + 1])
           /\ Put(s, ns, cfg).spaces = s.spaces \cup {ns}
           /\ Put(s, ns, cfg).table =
                 [s.table EXCEPT ![<<ns, cfg.name>>] = Len(s.heap) + 1]
           /\ Put(s, ns, cfg).projects = s.projects
           /\ Put(s, ns, cfg) =
                 [heap     |-> Put(s, ns, cfg).heap,
                  arrays   |-> Put(s, ns, cfg).arrays,
                  spaces   |-> Put(s, ns, cfg).spaces,
                  table    |-> Put(s, ns, cfg).table,
                  projects |-> Put(s, ns, cfg).projects]
<1> DEFINE t == Put(s, ns, cfg)
<1>1. DOMAIN s = {"heap", "arrays", "spaces", "table", "projects"}
  BY DEF Store
<1>2. t.arrays = Append(s.arrays, Conditions("Healthy"))
  BY <1>1 DEF Put
<1>3. t.heap = Append(s.heap, [key        |-> <<ns, cfg.name>>,
                               labels     |-> cfg.labels,
                               hibernated |-> cfg.status = "Hibernated",
                               conditions |-> Len(s.arrays) + 1])
  BY <1>1 DEF Put
<1>4. t.spaces = s.spaces \cup {ns} /\ t.projects = s.projects
  BY <1>1 DEF Put
<1>5. t.table = [s.table EXCEPT ![<<ns, cfg.name>>] = Len(s.heap) + 1]
  BY <1>1 DEF Put
<1>6. t = [heap |-> t.heap, arrays |-> t.arrays, spaces |-> t.spaces,
           table |-> t.table, projects |-> t.projects]
  <2>1. DOMAIN t = DOMAIN s
    BY DEF Put
  <2>2. t = [f \in DOMAIN s |-> t[f]]
    BY <2>1 DEF Put
  <2>3. QED BY <1>1, <2>2
<1>7. QED BY <1>2, <1>3, <1>4, <1>5, <1>6

\* That store is well formed, and shares what it had before.
LEMMA PutIndexed ==
    ASSUME NEW s \in Store, Indexed(s),
           NEW ns \in Namespaces, NEW cfg \in ShootConfig
    PROVE  LET t == Put(s, ns, cfg)
           IN  /\ t \in Store
               /\ Indexed(t)
               /\ Len(t.heap) = Len(s.heap) + 1
               /\ DOMAIN t.heap = 1 .. (Len(s.heap) + 1)
               /\ \A i \in DOMAIN s.heap : /\ i \in DOMAIN t.heap
                                           /\ t.heap[i] = s.heap[i]
               /\ \A i \in DOMAIN s.arrays : /\ i \in DOMAIN t.arrays
                                             /\ t.arrays[i] = s.arrays[i]
               /\ ConditionsOf(t, Len(s.heap) + 1) = Conditions("Healthy")
<1> DEFINE t     == Put(s, ns, cfg)
           key   == <<ns, cfg.name>>
           shoot == [key |-> key, labels |-> cfg.labels,
                     hibernated |-> cfg.status = "Hibernated",
                     conditions |-> Len(s.arrays) + 1]
<1>1. /\ s.heap \in Seq(Heap) /\ s.arrays \in Seq(Arrays)
      /\ s.spaces \subseteq Namespaces
      /\ s.table \in [Namespaces \X Names -> Nat]
      /\ s.projects \in [ProjectNames -> Namespaces \cup {None}]
  BY DEF Store, Heap, Arrays
<1>2. key \in Namespaces \X Names
  BY DEF ShootConfig
<1>3. Conditions("Healthy") \in Arrays
  BY DEF Arrays, Statuses
<1>4. Len(s.arrays) + 1 \in Nat
  BY <1>1
<1>5. shoot \in Heap
  <2>1. (cfg.status = "Hibernated") \in BOOLEAN
    OBVIOUS
  <2>2. QED BY <1>2, <1>4, <2>1 DEF Heap, ShootConfig
<1> HIDE DEF shoot
<1>6. /\ t.arrays = Append(s.arrays, Conditions("Healthy"))
      /\ t.heap = Append(s.heap, shoot)
      /\ t.spaces = s.spaces \cup {ns}
      /\ t.table = [s.table EXCEPT ![key] = Len(s.heap) + 1]
      /\ t.projects = s.projects
      /\ t = [heap |-> t.heap, arrays |-> t.arrays, spaces |-> t.spaces,
              table |-> t.table, projects |-> t.projects]
  BY PutFields DEF shoot
<1>7. shoot.key = key /\ shoot.conditions = Len(s.arrays) + 1
  BY DEF shoot
<1> HIDE DEF t, key
<1>8. /\ t.arrays \in Seq(Arrays)
      /\ DOMAIN s.arrays = 1 .. Len(s.arrays)
      /\ DOMAIN t.arrays = 1 .. (Len(s.arrays) + 1)
      /\ \A i \in DOMAIN s.arrays : t.arrays[i] = s.arrays[i]
      /\ t.arrays[Len(s.arrays) + 1] = Conditions("Healthy")
      /\ Len(s.arrays) \in Nat
  BY <1>1, <1>3, <1>6, AppendKeeps
<1>9. /\ t.heap \in Seq(Heap)
      /\ Len(t.heap) = Len(s.heap) + 1
      /\ DOMAIN s.heap = 1 .. Len(s.heap)
      /\ DOMAIN t.heap = 1 .. (Len(s.heap) + 1)
      /\ \A i \in DOMAIN s.heap : t.heap[i] = s.heap[i]
      /\ t.heap[Len(s.heap) + 1] = shoot
      /\ Len(s.heap) \in Nat
  BY <1>1, <1>5, <1>6, AppendKeeps
<1>10. t.table \in [Namespaces \X Names -> Nat]
  BY <1>1, <1>2, <1>6, <1>9
<1>11. t \in Store
  BY <1>1, <1>6, <1>8, <1>9, <1>10 DEF Store, Heap, Arrays
<1>12. \A i \in DOMAIN t.heap : t.heap[i].conditions \in DOMAIN t.arrays
  <2>1. ASSUME NEW i \in DOMAIN s.heap
        PROVE  t.heap[i].conditions \in DOMAIN t.arrays
    <3>1. s.heap[i].conditions \in DOMAIN s.arrays
      BY DEF Indexed
    <3>2. QED BY <1>8, <1>9, <3>1
  <2>2. t.heap[Len(s.heap) + 1].conditions \in DOMAIN t.arrays
    BY <1>7, <1>8, <1>9
  <2>3. \A i \in DOMAIN t.heap : i \in DOMAIN s.heap \/ i = Len(s.heap) + 1
    BY <1>9
  <2>4. QED BY <2>1, <2>2, <2>3
<1>13. ASSUME NEW k \in Namespaces \X Names, t.table[k] # 0
       PROVE  /\ k[1] \in t.spaces
              /\ t.table[k] \in DOMAIN t.heap
              /\ t.heap[t.table[k]].key = k
  <2>1. CASE k = key
    <3>1. t.table[k] = Len(s.heap) + 1
      BY <1>1, <1>2, <1>6, <2>1
    <3>2. k[1] = ns
      BY <2>1 DEF key
    <3>3. QED BY <1>6, <1>7, <1>9, <2>1, <3>1, <3>2
  <2>2. CASE k # key
    <3>1. t.table[k] = s.table[k]
      BY <1>1, <1>2, <1>6, <2>2
    <3>2. QED BY <1>6, <1>9, <1>13, <3>1 DEF Indexed
  <2>3. QED BY <2>1, <2>2
<1>14. ConditionsOf(t, Len(s.heap) + 1) = Conditions("Healthy")
  BY <1>7, <1>8, <1>9 DEF ConditionsOf
<1>15. /\ \A i \in DOMAIN s.heap : i \in DOMAIN t.heap
       /\ \A i \in DOMAIN s.arrays : i \in DOMAIN t.arrays
  BY <1>8, <1>9
<1>16. QED
  BY <1>8, <1>9, <1>11, <1>12, <1>13, <1>14, <1>15 DEF Indexed, t

----------------------------------------------------------------------------
(* Conditions tell the status they were made from. *)

\* UpdateShootStatus and GetShootStatus are inverse to each other.
LEMMA StatusIsTold ==
    ASSUME NEW status \in Statuses
    PROVE  StatusOf(Conditions(status)) = status
<1> DEFINE c == Conditions(status)
<1>1. CASE status = "Hibernated"
  <2>1. c = << <<"HibernationPossible", "True">>, <<"Hibernated", "True">> >>
    BY <1>1 DEF Conditions
  <2>2. /\ DOMAIN c = {1, 2} /\ ~ Tells(c[1]) /\ Tells(c[2])
        /\ c[2][1] = "Hibernated"
    BY <2>1 DEF Tells
  <2> HIDE DEF c
  <2>3. ASSUME NEW i \in DOMAIN c
        PROVE  (Tells(c[i]) /\ \A j \in 1 .. (i - 1) : ~ Tells(c[j])) <=> i = 2
    BY <2>2
  <2>4. (CHOOSE i \in DOMAIN c :
             Tells(c[i]) /\ \A j \in 1 .. (i - 1) : ~ Tells(c[j])) = 2
    BY <2>2, <2>3
  <2>5. ~ \A i \in DOMAIN c : ~ Tells(c[i])
    BY <2>2
  <2>6. StatusOf(c) = "Hibernated"
    BY <2>2, <2>4, <2>5 DEF StatusOf
  <2>7. QED BY <1>1, <2>6 DEF c
<1>2. CASE status # "Hibernated"
  <2>1. c = [i \in 1 .. 3 |-> <<Monitored[i], Verdict[status]>>]
    BY <1>2 DEF Conditions
  <2>2. /\ DOMAIN c = 1 .. 3 /\ Tells(c[1])
        /\ c[1][1] = "APIServerAvailable" /\ c[1][2] = Verdict[status]
    BY <2>1 DEF Tells, Monitored
  <2> HIDE DEF c
  <2>3. ASSUME NEW i \in DOMAIN c
        PROVE  (Tells(c[i]) /\ \A j \in 1 .. (i - 1) : ~ Tells(c[j])) <=> i = 1
    BY <2>2
  <2>4. (CHOOSE i \in DOMAIN c :
             Tells(c[i]) /\ \A j \in 1 .. (i - 1) : ~ Tells(c[j])) = 1
    BY <2>2, <2>3
  <2>5. StatusOf(c) = CASE Verdict[status] = "True"  -> "Healthy"
                        [] Verdict[status] = "False" -> "Unhealthy"
                        [] OTHER -> "Progressing"
    BY <2>2, <2>4 DEF StatusOf
  <2>6. QED BY <1>2, <2>5 DEF c, Verdict, Statuses
<1>3. QED BY <1>1, <1>2

----------------------------------------------------------------------------
(* Steps that make the store grow. *)

\* A store that grows: shoots and arrays stay where they are, an array keeps
\* what it holds, and a shoot keeps its name.
Grows(s, t) ==
    /\ \A i \in DOMAIN s.heap : i \in DOMAIN t.heap
    /\ \A i \in DOMAIN s.arrays : i \in DOMAIN t.arrays
                                  /\ t.arrays[i] = s.arrays[i]

\* The answers under way stay as they are when the store grows and the shoots
\* that are given other conditions are marked.
LEMMA ReadersUndisturbed ==
    ASSUME TypeOK, ReadInv, Grows(store, store'), UNCHANGED callVars,
           raced' \in [Calls -> BOOLEAN],
           \A r \in Calls : raced[r] => raced'[r],
           \A r \in Calls : pc[r] = "done" => (raced'[r] <=> raced[r]),
           \A r \in Calls : pc[r] = "encoding" /\ ~ raced'[r] =>
               \A it \in items[r] :
                   store'.heap[it.shoot].conditions
                       = store.heap[it.shoot].conditions
    PROVE  /\ ReadInv'
           /\ items' \in [Calls -> SUBSET [shoot : DOMAIN store'.heap,
                                           array : DOMAIN store'.arrays]]
<1>1. ASSUME NEW r \in Calls, NEW it \in items[r]
      PROVE  /\ it \in [shoot : DOMAIN store.heap, array : DOMAIN store.arrays]
             /\ it \in [shoot : DOMAIN store'.heap, array : DOMAIN store'.arrays]
             /\ store'.arrays[it.array] = store.arrays[it.array]
  <2>1. it \in [shoot : DOMAIN store.heap, array : DOMAIN store.arrays]
    BY DEF TypeOK
  <2>2. QED BY <2>1 DEF Grows
<1>2. items' \in [Calls -> SUBSET [shoot : DOMAIN store'.heap,
                                   array : DOMAIN store'.arrays]]
  BY <1>1 DEF TypeOK, callVars
<1>3. ASSUME NEW r \in Calls, pc'[r] = "encoding"
      PROVE  UnderWay(r)'
  <2>1. pc[r] = "encoding" /\ UnderWay(r)
    BY <1>3 DEF callVars, ReadInv
  <2>2. {Told(it.shoot, store'.arrays[it.array]) : it \in items[r]}
           = {Told(it.shoot, store.arrays[it.array]) : it \in items[r]}
    BY <1>1
  <2>3. atLookup'[r] =
           {Told(it.shoot, store'.arrays[it.array]) : it \in items'[r]}
    BY <2>1, <2>2 DEF UnderWay, callVars
  <2>4. ASSUME ~ raced'[r], NEW it \in items[r]
        PROVE  store'.heap[it.shoot].conditions = it.array
    BY <2>1, <2>4 DEF UnderWay
  <2>5. QED BY <2>3, <2>4 DEF UnderWay, callVars
<1>4. ListIsSnapshot'
  BY DEF ReadInv, ListIsSnapshot, callVars
<1>5. GetDisturbedOnlyByUpdate'
  BY DEF ReadInv, GetDisturbedOnlyByUpdate, callVars
<1>6. QED BY <1>2, <1>3, <1>4, <1>5 DEF ReadInv

\* What TypeOK says of the store.
LEMMA TypedStore ==
    ASSUME TypeOK
    PROVE  /\ store \in Store
           /\ Indexed(store)
           /\ wanted \in Seq(Statuses)
           /\ Len(wanted) = Len(store.heap)
           /\ updated \subseteq DOMAIN store.heap
           /\ store.heap \in Seq(Heap) /\ store.arrays \in Seq(Arrays)
           /\ store.table \in [Namespaces \X Names -> Nat]
  BY DEF TypeOK, Indexed, Store, Heap, Arrays

\* A new shoot disturbs nobody.
LEMMA PutStep ==
    ASSUME IInv, NEW ns \in Namespaces, NEW cfg \in ShootConfig,
           store' = Put(store, ns, cfg), wanted' = Append(wanted, cfg.status),
           UNCHANGED callVars, UNCHANGED raced, UNCHANGED updated
    PROVE  /\ store' \in Store
           /\ Indexed(store')
           /\ wanted' \in Seq(Statuses)
           /\ Len(wanted') = Len(store'.heap)
           /\ updated' \subseteq DOMAIN store'.heap
           /\ items' \in [Calls -> SUBSET [shoot : DOMAIN store'.heap,
                                           array : DOMAIN store'.arrays]]
           /\ StatusInv'
           /\ ReadInv'
<1>1. TypeOK /\ StatusInv /\ ReadInv
  BY DEF IInv
<1> USE <1>1, TypedStore
<1>2. /\ store' \in Store
      /\ Indexed(store')
      /\ Len(store'.heap) = Len(store.heap) + 1
      /\ DOMAIN store'.heap = 1 .. (Len(store.heap) + 1)
      /\ \A i \in DOMAIN store.heap : /\ i \in DOMAIN store'.heap
                                      /\ store'.heap[i] = store.heap[i]
      /\ \A i \in DOMAIN store.arrays : /\ i \in DOMAIN store'.arrays
                                        /\ store'.arrays[i] = store.arrays[i]
      /\ ConditionsOf(store', Len(store.heap) + 1) = Conditions("Healthy")
  BY PutIndexed
<1>3. cfg.status \in Statuses
  BY DEF ShootConfig
<1>4. /\ wanted' \in Seq(Statuses)
      /\ Len(wanted') = Len(wanted) + 1
      /\ \A i \in DOMAIN wanted : wanted'[i] = wanted[i]
      /\ DOMAIN wanted = 1 .. Len(wanted)
      /\ DOMAIN store.heap = 1 .. Len(store.heap)
      /\ Len(store.heap) \in Nat
  BY <1>3, AppendKeeps
<1>5. ASSUME NEW i \in DOMAIN store'.heap
      PROVE  ConditionsOf(store', i) =
                Conditions(IF i \in updated' THEN wanted'[i] ELSE "Healthy")
  <2>1. CASE i \in DOMAIN store.heap
    <3>1. ConditionsOf(store', i) = ConditionsOf(store, i)
      BY <1>2, <2>1 DEF ConditionsOf, Indexed
    <3>2. QED BY <1>4, <2>1, <3>1 DEF StatusInv
  <2>2. CASE i = Len(store.heap) + 1
    <3>1. i \notin updated'
      BY <1>4, <2>2
    <3>2. QED BY <1>2, <2>2, <3>1
  <2>3. QED BY <1>2, <1>4, <2>1, <2>2
<1>6. StatusInv'
  BY <1>5 DEF StatusInv
<1>7. Grows(store, store')
  BY <1>2 DEF Grows
<1>8. ASSUME NEW r \in Calls, NEW it \in items[r]
      PROVE  store'.heap[it.shoot].conditions = store.heap[it.shoot].conditions
  <2>1. it.shoot \in DOMAIN store.heap
    BY DEF TypeOK
  <2>2. QED BY <1>2, <2>1
<1>9. /\ raced' \in [Calls -> BOOLEAN]
      /\ \A r \in Calls : raced'[r] <=> raced[r]
  BY DEF TypeOK
<1>10. /\ ReadInv'
       /\ items' \in [Calls -> SUBSET [shoot : DOMAIN store'.heap,
                                       array : DOMAIN store'.arrays]]
  BY <1>7, <1>8, <1>9, ReadersUndisturbed
<1>11. QED BY <1>2, <1>4, <1>6, <1>10

\* A change of the two other maps disturbs nobody either.
LEMMA MapStep ==
    ASSUME IInv, store' \in Store, Indexed(store'),
           store'.heap = store.heap, store'.arrays = store.arrays,
           UNCHANGED <<callVars, raced, wanted, updated>>
    PROVE  /\ wanted' \in Seq(Statuses)
           /\ Len(wanted') = Len(store'.heap)
           /\ updated' \subseteq DOMAIN store'.heap
           /\ items' \in [Calls -> SUBSET [shoot : DOMAIN store'.heap,
                                           array : DOMAIN store'.arrays]]
           /\ StatusInv'
           /\ ReadInv'
<1>1. StatusInv'
  BY DEF IInv, StatusInv, ConditionsOf
<1>2. /\ Grows(store, store')
      /\ raced' \in [Calls -> BOOLEAN]
      /\ TypeOK /\ ReadInv
  BY DEF Grows, IInv, TypeOK
<1>3. /\ ReadInv'
      /\ items' \in [Calls -> SUBSET [shoot : DOMAIN store'.heap,
                                      array : DOMAIN store'.arrays]]
  BY <1>2, ReadersUndisturbed
<1>4. QED BY <1>1, <1>2, <1>3, TypedStore

----------------------------------------------------------------------------
(* LoadFromConfig. *)

\* The project that is being loaded is one of the configuration.
LEMMA ProjectTyping ==
    ASSUME TypeOK, Loading
    PROVE  /\ config[at.project] \in ProjectConfig
           /\ NamespaceOf(config[at.project]) \in Namespaces
           /\ Len(config[at.project].shoots) \in Nat
<1>1. config \in Seq(ProjectConfig) /\ at.project \in 1 .. Len(config)
  BY StoreAssumption DEF TypeOK, Loading
<1>2. config[at.project] \in ProjectConfig
  BY <1>1
<1>3. QED BY <1>2, StoreAssumption DEF ProjectConfig, NamespaceOf

\* Loading always stands at a project and one of its shoots.
LEMMA LoadAt ==
    ASSUME TypeOK, Loading, NEW s, NEW after, Load(s, after)
    PROVE  /\ config' = config
           /\ at' \in [project : 1 .. Len(config) + 1, shoot : Nat]
           /\ IF Loading' THEN at'.shoot \in 0 .. Len(config[at'.project].shoots)
                          ELSE at'.shoot = 0
<1>1. /\ config' = config
      /\ config \in Seq(ProjectConfig) /\ Len(config) \in Nat
      /\ at \in [project : 1 .. Len(config) + 1, shoot : Nat]
      /\ at.project \in 1 .. Len(config)
  BY StoreAssumption DEF TypeOK, Loading, Load
<1>2. CASE at.shoot < Len(config[at.project].shoots)
  <2>1. at' = [at EXCEPT !.shoot = @ + 1]
    BY <1>2 DEF Load
  <2>2. at'.project = at.project /\ at'.shoot = at.shoot + 1
    BY <1>1, <2>1
  <2>3. at' \in [project : 1 .. Len(config) + 1, shoot : Nat]
    BY <1>1, <2>1
  <2>4. at'.shoot \in 0 .. Len(config[at'.project].shoots)
    BY <1>1, <1>2, <2>2, ProjectTyping
  <2>5. QED BY <1>1, <2>2, <2>3, <2>4 DEF Loading
<1>3. CASE ~ at.shoot < Len(config[at.project].shoots)
  <2>1. at' = [project |-> at.project + 1, shoot |-> 0]
    BY <1>3 DEF Load
  <2>2. at' \in [project : 1 .. Len(config) + 1, shoot : Nat]
    BY <1>1, <2>1
  <2>3. Loading' => config[at'.project] \in ProjectConfig
    BY <1>1, <2>2 DEF Loading
  <2>4. Loading' => 0 \in 0 .. Len(config[at'.project].shoots)
    BY <2>3 DEF ProjectConfig
  <2>5. QED BY <1>1, <2>1, <2>2, <2>4
<1>4. QED BY <1>2, <1>3

\* Loading a project or a shoot keeps the invariant.
LEMMA LoadStep ==
    ASSUME IInv, LoadProject \/ LoadShoot
    PROVE  IInv'
<1> DEFINE project == config[at.project]
           ns      == NamespaceOf(project)
<1>1. TypeOK /\ Loading
  BY DEF IInv, LoadProject, LoadShoot
<1>2. project \in ProjectConfig /\ ns \in Namespaces
  BY <1>1, ProjectTyping
<1>3. CASE LoadProject
  <2> DEFINE t == [store EXCEPT !.projects[project.name] = ns,
                                !.spaces = @ \cup {ns}]
  <2>1. Load(t, wanted)
    BY <1>3 DEF LoadProject
  <2>2. store' = t /\ UNCHANGED <<writes, callVars, raced, wanted, updated>>
    BY <2>1 DEF Load
  <2>3. store \in Store /\ Indexed(store)
    BY <1>1, TypedStore
  <2>4. /\ t.heap = store.heap /\ t.arrays = store.arrays
        /\ t.table = store.table /\ t.spaces = store.spaces \cup {ns}
    BY <2>3 DEF Store
  <2>5. t \in Store
    BY <1>2, <2>3 DEF Store
  <2>6. Indexed(t)
    BY <2>3, <2>4 DEF Indexed
  <2> HIDE DEF t
  <2>7. /\ wanted' \in Seq(Statuses) /\ Len(wanted') = Len(store'.heap)
        /\ updated' \subseteq DOMAIN store'.heap
        /\ items' \in [Calls -> SUBSET [shoot : DOMAIN store'.heap,
                                        array : DOMAIN store'.arrays]]
        /\ StatusInv' /\ ReadInv'
    BY <2>2, <2>4, <2>5, <2>6, MapStep
  <2>8. /\ config' = config
        /\ at' \in [project : 1 .. Len(config) + 1, shoot : Nat]
        /\ IF Loading' THEN at'.shoot \in 0 .. Len(config[at'.project].shoots)
                       ELSE at'.shoot = 0
    BY <1>1, <2>1, LoadAt
  <2>9. TypeOK'
    BY <1>1, <2>2, <2>5, <2>6, <2>7, <2>8 DEF TypeOK, Indexed, callVars
  <2>10. QED BY <2>7, <2>9 DEF IInv
<1>4. CASE LoadShoot
  <2> DEFINE cfg == project.shoots[at.shoot]
  <2>1. Load(Put(store, ns, cfg), Append(wanted, cfg.status))
    BY <1>4 DEF LoadShoot
  <2>2. /\ store' = Put(store, ns, cfg)
        /\ wanted' = Append(wanted, cfg.status)
        /\ UNCHANGED <<writes, callVars, raced, updated>>
    BY <2>1 DEF Load
  <2>3. cfg \in ShootConfig
    BY <1>1, <1>2, <1>4 DEF LoadShoot, TypeOK, ProjectConfig
  <2>4. /\ store' \in Store /\ Indexed(store')
        /\ wanted' \in Seq(Statuses) /\ Len(wanted') = Len(store'.heap)
        /\ updated' \subseteq DOMAIN store'.heap
        /\ items' \in [Calls -> SUBSET [shoot : DOMAIN store'.heap,
                                        array : DOMAIN store'.arrays]]
        /\ StatusInv' /\ ReadInv'
    BY <1>2, <2>2, <2>3, PutStep
  <2>5. /\ config' = config
        /\ at' \in [project : 1 .. Len(config) + 1, shoot : Nat]
        /\ IF Loading' THEN at'.shoot \in 0 .. Len(config[at'.project].shoots)
                       ELSE at'.shoot = 0
    BY <1>1, <2>1, LoadAt
  <2>6. TypeOK'
    BY <1>1, <2>2, <2>4, <2>5 DEF TypeOK, Indexed, callVars
  <2>7. QED BY <2>4, <2>6 DEF IInv
<1>5. QED BY <1>3, <1>4

----------------------------------------------------------------------------
(* Methods that change the store. *)

\* What every such method leaves alone.
LEMMA WriteFrame ==
    ASSUME TypeOK, NEW s, Write(s)
    PROVE  /\ store' = s /\ UNCHANGED <<config, at, callVars>>
           /\ writes' \in 0 .. MaxWrites
           /\ Loading' <=> Loading
  BY StoreAssumption DEF Write, loadVars, TypeOK, Loading

\* AddShoot, over a shoot of that name or not, keeps the invariant.
LEMMA AddShootStep ==
    ASSUME IInv, NEW ns \in Namespaces, NEW cfg \in Added, AddShoot(ns, cfg)
    PROVE  IInv'
<1>1. TypeOK /\ cfg \in ShootConfig
  BY DEF IInv, Added
<1>2. Write(Put(store, ns, cfg))
  BY DEF AddShoot
<1>3. /\ store' = Put(store, ns, cfg) /\ UNCHANGED <<config, at, callVars>>
      /\ writes' \in 0 .. MaxWrites /\ (Loading' <=> Loading)
  BY <1>1, <1>2, WriteFrame
<1>4. wanted' = Append(wanted, cfg.status) /\ UNCHANGED <<raced, updated>>
  BY DEF AddShoot
<1>5. /\ store' \in Store /\ Indexed(store')
      /\ wanted' \in Seq(Statuses) /\ Len(wanted') = Len(store'.heap)
      /\ updated' \subseteq DOMAIN store'.heap
      /\ items' \in [Calls -> SUBSET [shoot : DOMAIN store'.heap,
                                      array : DOMAIN store'.arrays]]
      /\ StatusInv' /\ ReadInv'
  BY <1>1, <1>3, <1>4, PutStep
<1>6. TypeOK'
  BY <1>1, <1>3, <1>4, <1>5 DEF TypeOK, Indexed, callVars
<1>7. QED BY <1>5, <1>6 DEF IInv

\* DeleteShoot takes a shoot out of its map and leaves it to its readers.
LEMMA DeleteShootStep ==
    ASSUME IInv, NEW ns \in Namespaces, NEW name \in Names,
           DeleteShoot(ns, name)
    PROVE  IInv'
<1> DEFINE t == [store EXCEPT !.table[<<ns, name>>] = 0]
<1>1. TypeOK /\ Write(t) /\ UNCHANGED <<raced, wanted, updated>>
  BY DEF IInv, DeleteShoot
<1>2. /\ store' = t /\ UNCHANGED <<config, at, callVars>>
      /\ writes' \in 0 .. MaxWrites /\ (Loading' <=> Loading)
  BY <1>1, WriteFrame
<1>3. store \in Store /\ Indexed(store)
  BY <1>1, TypedStore
<1>4. /\ t.heap = store.heap /\ t.arrays = store.arrays
      /\ t.table = [store.table EXCEPT ![<<ns, name>>] = 0]
      /\ t.spaces = store.spaces
  BY <1>3 DEF Store
<1>5. t \in Store
  BY <1>3 DEF Store
<1>6. Indexed(t)
  <2>1. ASSUME NEW k \in Namespaces \X Names, t.table[k] # 0
        PROVE  t.table[k] = store.table[k]
    BY <1>1, <1>4, <2>1, TypedStore
  <2>2. QED BY <1>3, <1>4, <2>1 DEF Indexed
<1> HIDE DEF t
<1>7. /\ wanted' \in Seq(Statuses) /\ Len(wanted') = Len(store'.heap)
      /\ updated' \subseteq DOMAIN store'.heap
      /\ items' \in [Calls -> SUBSET [shoot : DOMAIN store'.heap,
                                      array : DOMAIN store'.arrays]]
      /\ StatusInv' /\ ReadInv'
  BY <1>1, <1>2, <1>4, <1>5, <1>6, MapStep
<1>8. TypeOK'
  BY <1>1, <1>2, <1>5, <1>6, <1>7 DEF TypeOK, Indexed, callVars
<1>9. QED BY <1>7, <1>8 DEF IInv

\* A status is written to a new array: the answers under way that refer to the
\* shoot through its pointer are marked, the others see nothing of it.
LEMMA UpdateShootStatusStep ==
    ASSUME IInv, NEW ns \in Namespaces, NEW name \in Names,
           NEW status \in Statuses, UpdateShootStatus(ns, name, status)
    PROVE  IInv'
<1> DEFINE i == store.table[<<ns, name>>]
           n == Len(store.arrays) + 1
           t == [store EXCEPT !.arrays = Append(@, Conditions(status)),
                              !.heap[i].conditions = n]
<1>1. /\ TypeOK /\ StatusInv /\ ReadInv
      /\ i # 0 /\ Write(t) /\ MarkRaced(i)
      /\ wanted' = [wanted EXCEPT ![i] = status]
      /\ updated' = updated \cup {i}
  BY DEF IInv, UpdateShootStatus
<1>2. /\ store' = t /\ UNCHANGED <<config, at, callVars>>
      /\ writes' \in 0 .. MaxWrites /\ (Loading' <=> Loading)
  BY <1>1, WriteFrame
<1>3. /\ store \in Store /\ Indexed(store)
      /\ store.heap \in Seq(Heap) /\ store.arrays \in Seq(Arrays)
      /\ wanted \in Seq(Statuses) /\ Len(wanted) = Len(store.heap)
      /\ updated \subseteq DOMAIN store.heap
  BY <1>1, TypedStore
<1>4. i \in DOMAIN store.heap
  BY <1>1, <1>3 DEF Indexed
<1>5. /\ t.heap = [store.heap EXCEPT ![i].conditions = n]
      /\ t.arrays = Append(store.arrays, Conditions(status))
      /\ t.table = store.table /\ t.spaces = store.spaces
      /\ t.projects = store.projects
      /\ t = [heap |-> t.heap, arrays |-> t.arrays, spaces |-> t.spaces,
              table |-> t.table, projects |-> t.projects]
  <2>1. DOMAIN store = {"heap", "arrays", "spaces", "table", "projects"}
    BY <1>3 DEF Store
  <2>2. DOMAIN t = DOMAIN store
    OBVIOUS
  <2>3. t = [f \in DOMAIN store |-> t[f]]
    BY <2>2
  <2>4. t.heap = [store.heap EXCEPT ![i].conditions = n]
    BY <2>1
  <2>5. t.arrays = Append(store.arrays, Conditions(status))
    BY <2>1
  <2>6. /\ t.table = store.table /\ t.spaces = store.spaces
        /\ t.projects = store.projects
    BY <2>1
  <2> HIDE DEF t
  <2>7. t = [heap |-> t.heap, arrays |-> t.arrays, spaces |-> t.spaces,
             table |-> t.table, projects |-> t.projects]
    BY <2>1, <2>3
  <2>8. QED BY <2>4, <2>5, <2>6, <2>7
<1>6. Conditions(status) \in Arrays
  BY DEF Arrays
<1> HIDE DEF t
<1>7. /\ t.arrays \in Seq(Arrays)
      /\ DOMAIN store.arrays = 1 .. Len(store.arrays)
      /\ DOMAIN t.arrays = 1 .. n
      /\ \A j \in DOMAIN store.arrays : t.arrays[j] = store.arrays[j]
      /\ t.arrays[n] = Conditions(status)
      /\ Len(store.arrays) \in Nat
  BY <1>3, <1>5, <1>6, AppendKeeps
<1> HIDE DEF n, i
<1>8. n \in Nat /\ n \in DOMAIN t.arrays
  BY <1>7 DEF n
<1>9. /\ t.heap \in Seq(Heap)
      /\ DOMAIN t.heap = DOMAIN store.heap
      /\ Len(t.heap) = Len(store.heap)
      /\ t.heap[i].conditions = n
      /\ \A j \in DOMAIN store.heap :
            /\ t.heap[j].key = store.heap[j].key
            /\ j # i => t.heap[j] = store.heap[j]
  <2>1. t.heap = [store.heap EXCEPT ![i] = [store.heap[i] EXCEPT !.conditions = n]]
    BY <1>5
  <2>2. store.heap[i] \in Heap
    BY <1>3, <1>4
  <2>3. /\ [store.heap[i] EXCEPT !.conditions = n] \in Heap
        /\ [store.heap[i] EXCEPT !.conditions = n].key = store.heap[i].key
        /\ [store.heap[i] EXCEPT !.conditions = n].conditions = n
    BY <1>8, <2>2 DEF Heap
  <2>4. QED BY <1>3, <1>4, <2>1, <2>3
<1>10. t \in Store
  BY <1>3, <1>5, <1>7, <1>9 DEF Store, Heap, Arrays
<1>11. Grows(store, t)
  BY <1>7, <1>9 DEF Grows, n
<1>12. Indexed(t)
  <2>1. ASSUME NEW j \in DOMAIN t.heap
        PROVE  t.heap[j].conditions \in DOMAIN t.arrays
    <3>1. CASE j = i
      BY <1>8, <1>9, <3>1
    <3>2. CASE j # i
      BY <1>3, <1>9, <1>11, <3>2 DEF Indexed, Grows
    <3>3. QED BY <3>1, <3>2
  <2>2. QED BY <1>3, <1>5, <1>9, <2>1 DEF Indexed
<1>13. /\ wanted' \in Seq(Statuses)
       /\ Len(wanted') = Len(t.heap)
       /\ wanted'[i] = status
       /\ updated' \subseteq DOMAIN t.heap
       /\ \A j \in DOMAIN store.heap : j # i => wanted'[j] = wanted[j]
  BY <1>1, <1>3, <1>4, <1>9
<1>14. StatusInv'
  <2> SUFFICES ASSUME NEW j \in DOMAIN t.heap
               PROVE  ConditionsOf(t, j) =
                         Conditions(IF j \in updated' THEN wanted'[j]
                                                      ELSE "Healthy")
    BY <1>2 DEF StatusInv
  <2>1. CASE j = i
    BY <1>1, <1>7, <1>9, <1>13, <2>1 DEF ConditionsOf
  <2>2. CASE j # i
    <3>1. store.heap[j].conditions \in DOMAIN store.arrays
      BY <1>3, <1>9 DEF Indexed
    <3>2. ConditionsOf(t, j) = ConditionsOf(store, j)
      BY <1>7, <1>9, <2>2, <3>1 DEF ConditionsOf
    <3>3. QED BY <1>1, <1>9, <1>13, <2>2, <3>2 DEF StatusInv
  <2>3. QED BY <2>1, <2>2
<1>15. /\ raced' \in [Calls -> BOOLEAN]
       /\ \A r \in Calls : raced[r] => raced'[r]
       /\ \A r \in Calls : pc[r] = "done" => (raced'[r] <=> raced[r])
  BY <1>1 DEF MarkRaced, TypeOK
<1>16. ASSUME NEW r \in Calls, pc[r] = "encoding", ~ raced'[r],
              NEW it \in items[r]
       PROVE  t.heap[it.shoot].conditions = store.heap[it.shoot].conditions
  <2>1. it.shoot # i
    BY <1>1, <1>16 DEF MarkRaced
  <2>2. it.shoot \in DOMAIN store.heap
    BY <1>1 DEF TypeOK
  <2>3. QED BY <1>9, <2>1, <2>2
<1>17. /\ ReadInv'
       /\ items' \in [Calls -> SUBSET [shoot : DOMAIN store'.heap,
                                       array : DOMAIN store'.arrays]]
  BY <1>1, <1>2, <1>11, <1>15, <1>16, ReadersUndisturbed
<1>18. TypeOK'
  BY <1>1, <1>2, <1>10, <1>12, <1>13, <1>15, <1>17
     DEF TypeOK, Indexed, callVars
<1>19. QED BY <1>14, <1>17, <1>18 DEF IInv

----------------------------------------------------------------------------
(* Read calls. *)

\* What the method returns are shoots and arrays that are there.
LEMMA ReturnsStep ==
    ASSUME IInv, NEW r \in Calls, NEW S \in SUBSET Stored(store), pc[r] = "idle",
           Returns(r, {CopyOf(i) : i \in S})
    PROVE  IInv'
<1> DEFINE found == {CopyOf(i) : i \in S}
<1>1. TypeOK /\ StatusInv /\ ReadInv /\ Indexed(store)
  BY TypedStore DEF IInv
<1>2. /\ items' = [items EXCEPT ![r] = found]
      /\ atLookup' = [atLookup EXCEPT
              ![r] = {Told(it.shoot, store.arrays[it.array]) : it \in found}]
      /\ pc' = [pc EXCEPT ![r] = "encoding"]
      /\ UNCHANGED <<loadVars, store, writes, ask, answer, raced, wanted,
                     updated>>
  BY DEF Returns
<1>3. ASSUME NEW it \in found
      PROVE  /\ it \in [shoot : DOMAIN store.heap, array : DOMAIN store.arrays]
             /\ store.heap[it.shoot].conditions = it.array
             /\ Told(it.shoot, store.arrays[it.array]) \in Telling
  <2>1. PICK i \in S : it = CopyOf(i)
    OBVIOUS
  <2>2. i \in DOMAIN store.heap
    BY <1>1 DEF Stored, Indexed
  <2>3. it.shoot = i /\ it.array = store.heap[i].conditions
    BY <2>1 DEF CopyOf
  <2>4. it.array \in DOMAIN store.arrays
    BY <1>1, <2>2, <2>3 DEF Indexed
  <2>5. /\ store.arrays[it.array] \in Arrays
        /\ i \in Nat
    BY <1>1, <2>2, <2>4, TypedStore
  <2>6. it \in [shoot : DOMAIN store.heap, array : DOMAIN store.arrays]
    BY <2>1, <2>2, <2>3, <2>4 DEF CopyOf
  <2>7. QED BY <2>3, <2>5, <2>6 DEF Told, Telling, Arrays
<1> HIDE DEF found
<1>4. TypeOK'
  <2>1. items' \in [Calls -> SUBSET [shoot : DOMAIN store'.heap,
                                     array : DOMAIN store'.arrays]]
    BY <1>1, <1>2, <1>3 DEF TypeOK
  <2>2. atLookup' \in [Calls -> SUBSET Telling]
    BY <1>1, <1>2, <1>3 DEF TypeOK
  <2>3. pc' \in [Calls -> {"idle", "encoding", "done", "notFound"}]
    BY <1>1, <1>2 DEF TypeOK
  <2>4. QED BY <1>1, <1>2, <2>1, <2>2, <2>3 DEF TypeOK, loadVars, Loading
<1>5. StatusInv'
  BY <1>1, <1>2 DEF StatusInv, ConditionsOf
<1>6. ReadInv'
  <2>1. ASSUME NEW c \in Calls, pc'[c] = "encoding"
        PROVE  UnderWay(c)'
    <3>1. CASE c = r
      BY <1>1, <1>2, <1>3, <3>1 DEF TypeOK, UnderWay
    <3>2. CASE c # r
      BY <1>1, <1>2, <2>1, <3>2 DEF TypeOK, ReadInv, UnderWay
    <3>3. QED BY <3>1, <3>2
  <2>2. \A c \in Calls : pc'[c] = "done" =>
           pc[c] = "done" /\ atLookup'[c] = atLookup[c]
    BY <1>1, <1>2 DEF TypeOK
  <2>3. ListIsSnapshot' /\ GetDisturbedOnlyByUpdate'
    BY <1>1, <1>2, <2>2 DEF ReadInv, ListIsSnapshot, GetDisturbedOnlyByUpdate
  <2>4. QED BY <2>1, <2>3 DEF ReadInv
<1>7. QED BY <1>4, <1>5, <1>6 DEF IInv

\* Who asks for a shoot names one that could exist.
LEMMA QuestionTyping ==
    ASSUME NEW q \in Questions, q.kind = "get"
    PROVE  <<q.namespace, q.name>> \in Namespaces \X Names
  BY StoreAssumption

\* A list starts with the shoots of the maps.
LEMMA ListShootsStep ==
    ASSUME IInv, NEW r \in Calls, ListShoots(r)
    PROVE  IInv'
  BY ReturnsStep DEF ListShoots

\* A GET starts with the shoot of that name, or ends with a 404.
LEMMA GetShootStep ==
    ASSUME IInv, NEW r \in Calls, GetShoot(r)
    PROVE  IInv'
<1> DEFINE i == store.table[<<ask[r].namespace, ask[r].name>>]
<1>1. TypeOK /\ StatusInv /\ ReadInv /\ pc[r] = "idle"
  BY DEF IInv, GetShoot
<1>2. CASE i # 0 /\ Returns(r, {CopyOf(i)})
  <2>1. <<ask[r].namespace, ask[r].name>> \in Namespaces \X Names
    BY <1>1, QuestionTyping DEF GetShoot, TypeOK
  <2>2. {i} \in SUBSET Stored(store)
    BY <1>2, <2>1 DEF Stored
  <2>3. {CopyOf(i)} = {CopyOf(j) : j \in {i}}
    OBVIOUS
  <2>4. QED BY <1>1, <1>2, <2>2, <2>3, ReturnsStep
<1>3. CASE /\ pc' = [pc EXCEPT ![r] = "notFound"]
           /\ UNCHANGED <<loadVars, store, writes, ask, items, answer,
                          atLookup, raced, wanted, updated>>
  <2>1. TypeOK'
    BY <1>1, <1>3 DEF TypeOK, loadVars, Loading
  <2>2. StatusInv'
    BY <1>1, <1>3 DEF StatusInv, ConditionsOf
  <2>3. ReadInv'
    BY <1>1, <1>3 DEF TypeOK, ReadInv, UnderWay, ListIsSnapshot,
                      GetDisturbedOnlyByUpdate
  <2>4. QED BY <2>1, <2>2, <2>3 DEF IInv
<1>4. QED BY <1>2, <1>3 DEF GetShoot

\* An encoder that gives the answer of the lookup, or was marked.
LEMMA EncodesStep ==
    ASSUME IInv, NEW r \in Calls, pc[r] = "encoding",
           NEW what \in SUBSET Telling, Encodes(r, what),
           what = atLookup[r] \/ (ask[r].kind = "get" /\ raced[r])
    PROVE  IInv'
<1>1. TypeOK /\ StatusInv /\ ReadInv
  BY DEF IInv
<1>2. /\ answer' = [answer EXCEPT ![r] = what]
      /\ pc' = [pc EXCEPT ![r] = "done"]
      /\ UNCHANGED <<loadVars, store, writes, ask, items, atLookup, raced,
                     wanted, updated>>
  BY DEF Encodes
<1>3. TypeOK'
  BY <1>1, <1>2 DEF TypeOK, loadVars, Loading
<1>4. StatusInv'
  BY <1>1, <1>2 DEF StatusInv, ConditionsOf
<1>5. \A c \in Calls : pc'[c] = "encoding" => UnderWay(c)'
  BY <1>1, <1>2 DEF TypeOK, ReadInv, UnderWay
<1>6. ListIsSnapshot'
  BY <1>1, <1>2 DEF TypeOK, ReadInv, ListIsSnapshot
<1>7. GetDisturbedOnlyByUpdate'
  BY <1>1, <1>2 DEF TypeOK, ReadInv, GetDisturbedOnlyByUpdate
<1>8. QED BY <1>3, <1>4, <1>5, <1>6, <1>7 DEF IInv, ReadInv

\* A list is encoded from arrays that are as they were.
LEMMA EncodeListStep ==
    ASSUME IInv, NEW r \in Calls, EncodeList(r)
    PROVE  IInv'
<1>1. /\ pc[r] = "encoding"
      /\ Encodes(r, {Told(it.shoot, store.arrays[it.array]) : it \in items[r]})
  BY DEF EncodeList
<1>2. {Told(it.shoot, store.arrays[it.array]) : it \in items[r]} = atLookup[r]
  BY <1>1 DEF IInv, ReadInv, UnderWay
<1>3. atLookup[r] \in SUBSET Telling
  BY DEF IInv, TypeOK
<1>4. QED BY <1>1, <1>2, <1>3, EncodesStep

\* A shoot is encoded through its pointer.
LEMMA EncodeShootStep ==
    ASSUME IInv, NEW r \in Calls, EncodeShoot(r)
    PROVE  IInv'
<1> DEFINE pointed ==
        {Told(it.shoot, ConditionsOf(store, it.shoot)) : it \in items[r]}
<1>1. TypeOK /\ ReadInv /\ Indexed(store) /\ store.arrays \in Seq(Arrays)
  BY TypedStore DEF IInv
<1>2. pc[r] = "encoding" /\ ask[r].kind = "get"
  BY DEF EncodeShoot
<1>3. CASE Encodes(r, pointed)
  <2>1. ASSUME NEW it \in items[r]
        PROVE  Told(it.shoot, ConditionsOf(store, it.shoot)) \in Telling
    <3>1. it.shoot \in DOMAIN store.heap
      BY <1>1 DEF TypeOK
    <3>2. ConditionsOf(store, it.shoot) \in Arrays
      BY <1>1, <3>1 DEF ConditionsOf, Indexed
    <3>3. it.shoot \in Nat
      BY <1>1, <3>1, TypedStore
    <3>4. QED BY <3>2, <3>3 DEF Told, Telling, Arrays
  <2>2. pointed \in SUBSET Telling
    BY <2>1
  <2>3. ASSUME ~ raced[r]
        PROVE  pointed = atLookup[r]
    <3>1. /\ atLookup[r] =
                {Told(it.shoot, store.arrays[it.array]) : it \in items[r]}
          /\ \A it \in items[r] : store.heap[it.shoot].conditions = it.array
      BY <1>1, <1>2, <2>3 DEF ReadInv, UnderWay
    <3>2. QED BY <3>1 DEF ConditionsOf
  <2> HIDE DEF pointed
  <2>4. QED BY <1>2, <1>3, <2>2, <2>3, EncodesStep
<1>4. CASE raced[r] /\ Encodes(r, Torn)
  <2>1. Torn \in SUBSET Telling
    BY DEF Torn
  <2>2. QED BY <1>2, <1>4, <2>1, EncodesStep
<1>5. QED BY <1>3, <1>4 DEF EncodeShoot

----------------------------------------------------------------------------
(* The theorems. *)

\* An empty store, before the configuration is loaded.
LEMMA InitInv == Init => IInv
<1> SUFFICES ASSUME Init
             PROVE  IInv
  OBVIOUS
<1>1. config \in Seq(ProjectConfig) /\ Len(config) \in Nat
  BY StoreAssumption DEF Init
<1>2. /\ at \in [project : 1 .. Len(config) + 1, shoot : Nat]
      /\ at.shoot = 0
  BY <1>1 DEF Init
<1>3. Loading => config[at.project] \in ProjectConfig
  BY <1>1, <1>2 DEF Loading
<1>4. Loading => 0 \in 0 .. Len(config[at.project].shoots)
  BY <1>3 DEF ProjectConfig
<1>5. store \in Store /\ store.heap = <<>> /\ \A k \in Namespaces \X Names :
                                                 store.table[k] = 0
  <2>1. NewShootStore \in Store
    BY DEF NewShootStore, Store
  <2>2. QED BY <2>1 DEF Init, NewShootStore
<1>6. DOMAIN store.heap = {}
  BY <1>5
<1>7. /\ wanted \in Seq(Statuses) /\ Len(wanted) = Len(store.heap)
      /\ updated \subseteq DOMAIN store.heap
      /\ writes \in 0 .. MaxWrites
  BY <1>5, StoreAssumption DEF Init
<1>8. TypeOK
  BY <1>2, <1>4, <1>5, <1>6, <1>7 DEF Init, TypeOK
<1>9. StatusInv
  BY <1>6 DEF StatusInv
<1>10. ReadInv
  BY DEF Init, ReadInv, ListIsSnapshot, GetDisturbedOnlyByUpdate
<1>11. QED BY <1>8, <1>9, <1>10 DEF IInv

\* The inductive invariant holds in every state of every run, whatever
\* configuration is loaded and however many calls read and write.
THEOREM Invariance == Spec => []IInv
<1>1. IInv /\ [Next]_vars => IInv'
  <2> SUFFICES ASSUME IInv, [Next]_vars
               PROVE  IInv'
    OBVIOUS
  <2>1. CASE Next
    BY <2>1, LoadStep, AddShootStep, DeleteShootStep, UpdateShootStatusStep,
       ListShootsStep, GetShootStep, EncodeListStep, EncodeShootStep DEF Next
  <2>2. CASE UNCHANGED vars
    BY <2>2 DEF vars, loadVars, callVars, IInv, TypeOK, Loading, StatusInv,
                ConditionsOf, ReadInv, UnderWay, ListIsSnapshot,
                GetDisturbedOnlyByUpdate
  <2>3. QED BY <2>1, <2>2
<1>2. QED BY <1>1, InitInv, PTL DEF Spec

\* An entry of the store's maps always lies in a map that exists and points to
\* a shoot of its name, whose conditions are those of one status.
THEOREM StoreTypes == Spec => []TypeOK
<1>1. IInv => TypeOK
  BY DEF IInv
<1>2. QED BY <1>1, Invariance, PTL

\* A list shows the moment of its lookup, whatever is written before it is
\* encoded.
THEOREM ListShowsOneMoment == Spec => []ListIsSnapshot
<1>1. IInv => ListIsSnapshot
  BY DEF IInv, ReadInv
<1>2. QED BY <1>1, Invariance, PTL

\* A GET differs from its lookup only if a status of that very shoot was
\* written meanwhile.
THEOREM GetDisturbed == Spec => []GetDisturbedOnlyByUpdate
<1>1. IInv => GetDisturbedOnlyByUpdate
  BY DEF IInv, ReadInv
<1>2. QED BY <1>1, Invariance, PTL

\* A shoot put into the store is a new one, and leaves the others alone.
LEMMA PutLeavesShared ==
    ASSUME NEW s \in Store, Indexed(s),
           NEW ns \in Namespaces, NEW cfg \in ShootConfig
    PROVE  LeavesShared(s, Put(s, ns, cfg))
<1> DEFINE t == Put(s, ns, cfg)
           n == Len(s.heap) + 1
<1>1. /\ DOMAIN t.heap = 1 .. n
      /\ \A i \in DOMAIN s.heap : i \in DOMAIN t.heap /\ t.heap[i] = s.heap[i]
      /\ \A j \in DOMAIN s.arrays :
            j \in DOMAIN t.arrays /\ t.arrays[j] = s.arrays[j]
  BY PutIndexed
<1>2. /\ t.table = [s.table EXCEPT ![<<ns, cfg.name>>] = n]
      /\ s.table \in [Namespaces \X Names -> Nat]
      /\ s.heap \in Seq(Heap) /\ n \notin DOMAIN s.heap
  <2>1. t.table = [s.table EXCEPT ![<<ns, cfg.name>>] = n]
    BY PutFields
  <2>2. /\ s.table \in [Namespaces \X Names -> Nat]
        /\ s.heap \in Seq(Heap)
    BY DEF Store, Heap
  <2>3. QED BY <2>1, <2>2
<1> HIDE DEF t, n
<1>3. ASSUME NEW i \in DOMAIN s.heap
      PROVE  t.heap[i] = [s.heap[i] EXCEPT !.conditions = t.heap[i].conditions]
  <2>1. s.heap[i] \in Heap /\ t.heap[i] = s.heap[i]
    BY <1>1, <1>2
  <2>2. QED BY <2>1 DEF Heap
<1>4. ASSUME NEW i \in DOMAIN s.heap, i \notin Stored(s)
      PROVE  i \notin Stored(t)
  <2>1. ASSUME NEW k \in Namespaces \X Names, t.table[k] = i, i # 0
        PROVE  FALSE
    <3>1. i # n
      BY <1>2
    <3>2. s.table[k] = i
      BY <1>2, <2>1, <3>1
    <3>3. QED BY <1>4, <2>1, <3>2 DEF Stored
  <2>2. QED BY <2>1 DEF Stored
<1>5. LeavesShared(s, t)
  BY <1>1, <1>3, <1>4 DEF LeavesShared
<1>6. QED BY <1>5 DEF t

\* A store whose shoots and arrays stay, and whose table only loses entries,
\* leaves alone what is shared.
LEMMA FewerLeavesShared ==
    ASSUME NEW s \in Store, NEW t, t.heap = s.heap, t.arrays = s.arrays,
           \A k \in Namespaces \X Names : t.table[k] \in {0, s.table[k]}
    PROVE  LeavesShared(s, t)
<1>1. ASSUME NEW i \in DOMAIN s.heap
      PROVE  t.heap[i] = [s.heap[i] EXCEPT !.conditions = t.heap[i].conditions]
  <2>1. s.heap \in Seq(Heap)
    BY DEF Store, Heap
  <2>2. s.heap[i] \in Heap
    BY <2>1
  <2>3. QED BY <2>2 DEF Heap
<1>2. Stored(t) \subseteq Stored(s)
  BY DEF Stored
<1>3. QED BY <1>1, <1>2 DEF LeavesShared

\* A status written to a shoot replaces the pointer of a stored shoot.
LEMMA UpdateLeavesShared ==
    ASSUME TypeOK, NEW ns \in Namespaces, NEW name \in Names,
           NEW status \in Statuses, UpdateShootStatus(ns, name, status)
    PROVE  LeavesShared(store, store')
<1> DEFINE i == store.table[<<ns, name>>]
           n == Len(store.arrays) + 1
           t == [store EXCEPT !.arrays = Append(@, Conditions(status)),
                              !.heap[i].conditions = n]
<1>1. i # 0 /\ store' = t
  BY WriteFrame DEF UpdateShootStatus
<1>2. /\ store \in Store /\ store.heap \in Seq(Heap)
      /\ store.arrays \in Seq(Arrays)
      /\ Conditions(status) \in Arrays
  BY TypedStore DEF Arrays
<1>3. /\ t.heap = [store.heap EXCEPT
                     ![i] = [store.heap[i] EXCEPT !.conditions = n]]
      /\ t.arrays = Append(store.arrays, Conditions(status))
      /\ t.table = store.table
  BY <1>2 DEF Store
<1>4. i \in Stored(store)
  BY <1>1 DEF Stored
<1> HIDE DEF t, i, n
<1>5. ASSUME NEW j \in DOMAIN store.heap
      PROVE  /\ j \in DOMAIN t.heap
             /\ t.heap[j] = [store.heap[j] EXCEPT
                                !.conditions = t.heap[j].conditions]
             /\ j # i => t.heap[j] = store.heap[j]
  <2>1. store.heap[j] \in Heap
    BY <1>2
  <2>2. CASE j # i
    BY <1>3, <2>1, <2>2 DEF Heap
  <2>3. CASE j = i
    <3>1. t.heap[j] = [store.heap[j] EXCEPT !.conditions = n]
      BY <1>3, <2>3
    <3>2. t.heap[j].conditions = n
      BY <2>1, <3>1 DEF Heap
    <3>3. QED BY <1>3, <2>3, <3>1, <3>2
  <2>4. QED BY <2>2, <2>3
<1>6. \A j \in DOMAIN store.arrays :
         j \in DOMAIN t.arrays /\ t.arrays[j] = store.arrays[j]
  BY <1>2, <1>3, AppendKeeps
<1>7. Stored(t) = Stored(store)
  BY <1>3 DEF Stored
<1>8. QED BY <1>1, <1>4, <1>5, <1>6, <1>7 DEF LeavesShared

\* Nothing a reader can have got hold of is disturbed but the pointer to the
\* conditions of a shoot that is still in the store.
THEOREM SharedIsLeftAlone == Spec => SharedLeftAlone
<1>1. ASSUME TypeOK, [Next]_vars
      PROVE  LeavesShared(store, store')
  <2>1. store \in Store /\ Indexed(store)
    BY <1>1, TypedStore
  <2>2. CASE store' = store
    BY <2>1, <2>2, FewerLeavesShared
  <2>3. CASE LoadProject
    <3>1. PICK p, ns : store' = [store EXCEPT !.projects[p] = ns,
                                              !.spaces = @ \cup {ns}]
      BY <2>3 DEF LoadProject, Load
    <3>2. /\ store'.heap = store.heap /\ store'.arrays = store.arrays
          /\ store'.table = store.table
      BY <2>1, <3>1 DEF Store
    <3>3. QED BY <2>1, <3>2, FewerLeavesShared
  <2>4. CASE LoadShoot
    <3> DEFINE project == config[at.project]
               cfg     == project.shoots[at.shoot]
    <3>1. store' = Put(store, NamespaceOf(project), cfg) /\ Loading
      BY <2>4 DEF LoadShoot, Load
    <3>2. project \in ProjectConfig /\ NamespaceOf(project) \in Namespaces
      BY <1>1, <3>1, ProjectTyping
    <3>3. cfg \in ShootConfig
      BY <1>1, <2>4, <3>1, <3>2 DEF LoadShoot, TypeOK, ProjectConfig
    <3>4. QED BY <2>1, <3>1, <3>2, <3>3, PutLeavesShared
  <2>5. ASSUME NEW ns \in Namespaces, NEW cfg \in Added, AddShoot(ns, cfg)
        PROVE  LeavesShared(store, store')
    <3>1. store' = Put(store, ns, cfg) /\ cfg \in ShootConfig
      BY <2>5 DEF AddShoot, Write, Added
    <3>2. QED BY <2>1, <3>1, PutLeavesShared
  <2>6. ASSUME NEW ns \in Namespaces, NEW name \in Names,
               DeleteShoot(ns, name)
        PROVE  LeavesShared(store, store')
    <3>1. store' = [store EXCEPT !.table[<<ns, name>>] = 0]
      BY <2>6 DEF DeleteShoot, Write
    <3>2. /\ store'.heap = store.heap /\ store'.arrays = store.arrays
          /\ store'.table = [store.table EXCEPT ![<<ns, name>>] = 0]
      BY <2>1, <3>1 DEF Store
    <3>3. store.table \in [Namespaces \X Names -> Nat]
      BY <2>1 DEF Store
    <3>4. QED BY <2>1, <3>2, <3>3, FewerLeavesShared
  <2>7. ASSUME NEW r \in Calls,
               ListShoots(r) \/ GetShoot(r) \/ EncodeList(r) \/ EncodeShoot(r)
        PROVE  store' = store
    BY <2>7 DEF ListShoots, GetShoot, Returns, EncodeList, EncodeShoot, Encodes
  <2>8. QED
    BY <1>1, <2>2, <2>3, <2>4, <2>5, <2>6, <2>7, UpdateLeavesShared
       DEF Next, vars
<1>2. QED BY <1>1, StoreTypes, PTL DEF Spec, SharedLeftAlone

\* The status read back from the conditions of a shoot whose status a call has
\* set is the one the last such call set; what a shoot is configured with does
\* not count.
THEOREM StatusIsReadBack == Spec => []StatusReadBack
<1>1. IInv => StatusReadBack
  <2> SUFFICES ASSUME IInv, NEW i \in Stored(store), i \in updated
               PROVE  StatusOf(ConditionsOf(store, i)) = wanted[i]
    BY DEF StatusReadBack
  <2>1. i \in DOMAIN store.heap
    BY DEF IInv, TypeOK, Stored
  <2>2. wanted[i] \in Statuses
    BY <2>1, TypedStore DEF IInv
  <2>3. ConditionsOf(store, i) = Conditions(wanted[i])
    BY <2>1 DEF IInv, StatusInv
  <2>4. QED BY <2>2, <2>3, StatusIsTold
<1>2. QED BY <1>1, Invariance, PTL
=============================================================================
