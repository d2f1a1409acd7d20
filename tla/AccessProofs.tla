---------------------------- MODULE AccessProofs -----------------------------
(***************************************************************************)
(* The rights that keys, policies and the list of trusted files grant, for *)
(* any replicas, calls, files, tenants, failures and changes.              *)
(***************************************************************************)
EXTENDS AccessKeys, TLAPS

-----------------------------------------------------------------------------
(* The types of what the tasks carry *)

Places ==
  {"absent", "new", "idle", "reload", "fetch", "assign", "fetchPolicies", "assignPolicies",
   "look", "put", "delete", "patch", "add", "drop", "unlist", "scan", "index", "records",
   "prune", "done"}

Partial(names, values) == UNION {[d -> values] : d \in SUBSET names}

(* What the interface writes: keys of tenants, which are not administrators. *)
Issued == [tenant : Owners, admin : {FALSE}, public : {FALSE}, secret : Calls, disabled : {FALSE}]
Patches == {w.patch : w \in Wants} \cup {Nothing}
NoKeys == [readable |-> TRUE, keys |-> Nothing]

Ops == {"", "start", "loop", "issue", "revoke", "policy", "trust", "distrust", "list"}

TaskRecords ==
  [at : Places, gate : Gateways, op : Ops, key : {w.key : w \in Wants} \cup {""},
   tenant : Scopes \cup {""}, patch : Patches, scope : Scopes \cup {Everything, NoScope},
   todo : SUBSET Scopes, file : KeyFiles \cup {NoKeys},
   seen : Partial(KeyIds, Issued) \cup Partial(Owners, Patches), answer : Codes]

(* What a task holds fits its place in the code. *)
Fits(task) ==
  /\ task.at \in {"look", "put"} => task.key \in KeyIds /\ task.tenant \in Owners
  /\ task.at = "patch" => task.tenant \in Owners
  /\ task.at \in {"add", "drop", "unlist", "records", "prune"} => task.tenant \in Scopes
  /\ task.at = "add" => task.scope \in {task.tenant, Everything}
  /\ task.at = "scan" => task.scope \in Scopes \cup {Everything}
  /\ task.at \in {"fetch", "assign"} => task.file \in KeyFiles
  /\ task.at = "assign" => task.seen \in Partial(KeyIds, Issued)
  /\ task.at = "assignPolicies" => task.seen \in Partial(Owners, Patches)

StoreTypes ==
  /\ keyFile \in KeyFiles
  /\ stored \in Partial(KeyIds, Issued) /\ patches \in Partial(Owners, Patches)
  /\ trusted \in [Scopes -> Scopes \cup {Everything, NoScope}]
  /\ index \in [Scopes -> {"out", "in", "late"}]
  /\ changes \in 0..MaxChanges /\ failures \in 0..MaxFailures

TaskTypes == tasks \in [Tasks -> TaskRecords] /\ \A t \in Tasks : Fits(tasks[t])

(* What a registry may hold: what its file grants, and no administrator that
   no file names. *)
Sound(reg) ==
  /\ DOMAIN reg.keys \subseteq KeyIds
  /\ \A k \in DOMAIN reg.keys : reg.keys[k].tenant \in Owners
  /\ ~reg.degraded =>
       \A k \in KeyIds :
         (\A f \in KeyFiles : f.readable => k \in DOMAIN Parse(f.keys)) => k \in DOMAIN reg.keys
  /\ \A k \in DOMAIN reg.keys : reg.keys[k].admin =>
       /\ ~reg.keys[k].public
       /\ \E f \in KeyFiles : k \in DOMAIN f.keys /\ f.keys[k] = reg.keys[k]

ReplicaTypes ==
  /\ DOMAIN registry = Gateways /\ DOMAIN policies = Gateways
  /\ \A g \in Gateways : Sound(registry[g]) /\ DOMAIN policies[g] \subseteq Owners

(* The inductive invariant. *)
AccessIInv == StoreTypes /\ TaskTypes /\ ReplicaTypes /\ TrustIsOwn

-----------------------------------------------------------------------------
(* Dictionaries *)

LEMMA PartialDomain ==
  ASSUME NEW D, NEW S, NEW f \in Partial(D, S)
  PROVE  DOMAIN f \subseteq D /\ \A x \in DOMAIN f : f[x] \in S
  BY DEF Partial

LEMMA PartialIntro ==
  ASSUME NEW D, NEW S, NEW E \in SUBSET D, NEW f \in [E -> S]
  PROVE  f \in Partial(D, S)
  BY DEF Partial

LEMMA NothingType == ASSUME NEW D, NEW S PROVE Nothing \in Partial(D, S)
  <1>1. Nothing \in [{} -> S]
    BY DEF Nothing
  <1> QED
    BY <1>1, PartialIntro

LEMMA WithType ==
  ASSUME NEW D, NEW S, NEW f \in Partial(D, S), NEW k \in D, NEW v \in S
  PROVE  With(f, k, v) \in Partial(D, S)
  <1>1. With(f, k, v) \in [DOMAIN f \cup {k} -> S]
    BY PartialDomain DEF With
  <1>2. DOMAIN f \cup {k} \in SUBSET D
    BY PartialDomain
  <1> QED
    BY <1>1, <1>2, PartialIntro

LEMMA WithoutType ==
  ASSUME NEW D, NEW S, NEW f \in Partial(D, S), NEW k
  PROVE  [x \in DOMAIN f \ {k} |-> f[x]] \in Partial(D, S)
  <1>1. [x \in DOMAIN f \ {k} |-> f[x]] \in [DOMAIN f \ {k} -> S]
    BY PartialDomain
  <1>2. DOMAIN f \ {k} \in SUBSET D
    BY PartialDomain
  <1> QED
    BY <1>1, <1>2, PartialIntro

-----------------------------------------------------------------------------
(* Registries and policies *)

(* A file alone makes a sound registry. *)
LEMMA LoadSound == ASSUME NEW file \in KeyFiles PROVE Sound(Load(file))
  <1>1. CASE file.readable
    BY <1>1, AccessAssumption DEF Sound, Load, Parse, Nothing
  <1>2. CASE ~file.readable
    BY <1>2, AccessAssumption DEF Sound, Load, Parse, Nothing
  <1> QED
    BY <1>1, <1>2

(* So does a file with what the store adds: nobody is cut off, and nobody
   becomes an administrator. *)
LEMMA MergedSound ==
  ASSUME NEW file \in KeyFiles, NEW extra \in Partial(KeyIds, Issued)
  PROVE  Sound(MergedWith(Load(file), extra))
  <1> DEFINE own == Load(file)
             reg == MergedWith(own, extra)
  <1>1. reg.keys = Over(extra, own.keys) /\ reg.degraded = own.degraded
    BY DEF MergedWith, Load
  <1>2. Sound(own)
    BY LoadSound
  <1>3. DOMAIN reg.keys = DOMAIN extra \cup DOMAIN own.keys
    BY <1>1 DEF Over
  <1>4. \A k \in DOMAIN extra : extra[k].tenant \in Owners /\ extra[k].admin = FALSE
    <2>1. \A k \in DOMAIN extra : extra[k] \in Issued
      BY PartialDomain
    <2> QED
      BY <2>1 DEF Issued
  <1>5. DOMAIN extra \subseteq KeyIds
    BY PartialDomain
  <1>6. \A k \in DOMAIN reg.keys :
          reg.keys[k] = IF k \in DOMAIN extra THEN extra[k] ELSE own.keys[k]
    BY <1>1, <1>3 DEF Over
  <1> SUFFICES Sound(reg)
    OBVIOUS
  <1> HIDE DEF own, reg
  <1> QED
    BY <1>1, <1>2, <1>3, <1>4, <1>5, <1>6 DEF Sound

LEMMA BuiltOwners ==
  ASSUME NEW set \in Partial(Owners, Patches)
  PROVE  DOMAIN Built(set) \subseteq Owners
  BY PartialDomain, AccessAssumption DEF Built

-----------------------------------------------------------------------------
(* Tasks *)

LEMMA TaskType ==
  ASSUME NEW at \in Places, NEW gate \in Gateways, NEW op \in Ops
  PROVE  Task(at, gate, op) \in TaskRecords
  <1>1. Nothing \in Partial(KeyIds, Issued)
    BY NothingType
  <1> QED
    BY <1>1 DEF Task, TaskRecords, Patches, NoKeys, NoScope, Codes

(* A task that ends or begins again owes nothing. *)
LEMMA IdleFits ==
  ASSUME NEW at \in Places \ {"look", "put", "patch", "add", "drop", "unlist", "records",
                             "prune", "scan", "fetch", "assign", "assignPolicies"},
         NEW gate \in Gateways, NEW op \in Ops
  PROVE  Task(at, gate, op) \in TaskRecords /\ Fits(Task(at, gate, op))
  BY TaskType DEF Task, Fits

LEMMA GatewayExists == AnyGateway \in Gateways
  BY AccessAssumption DEF AnyGateway

LEMMA AnsweredFits ==
  ASSUME NEW task \in TaskRecords, NEW code \in Codes
  PROVE  Answered(task, code) \in TaskRecords /\ Fits(Answered(task, code))
  <1> DEFINE blank == Task("done", AnyGateway, task.op)
  <1>1. blank \in TaskRecords
    <2>1. task.op \in Ops
      BY DEF TaskRecords
    <2>2. "done" \in Places
      BY DEF Places
    <2> QED
      BY <2>1, <2>2, TaskType, GatewayExists
  <1>2. blank.at = "done"
    BY DEF Task
  <1> HIDE DEF blank
  <1>3. Answered(task, code) = [blank EXCEPT !.key = task.key, !.answer = code]
    BY DEF Answered, blank
  <1> QED
    BY <1>1, <1>2, <1>3 DEF TaskRecords, Fits

LEMMA PutTask ==
  ASSUME TaskTypes, NEW t \in Tasks, NEW r \in TaskRecords, Fits(r),
         tasks' = [tasks EXCEPT ![t] = r]
  PROVE  TaskTypes'
  BY DEF TaskTypes

LEMMA AnswerTypes ==
  ASSUME TaskTypes, NEW t \in Tasks, NEW code \in Codes, Answer(t, code)
  PROVE  TaskTypes'
  BY AnsweredFits, PutTask DEF Answer, TaskTypes

(* A step to the next place, if the task has what that place needs. *)
LEMMA GoTypes ==
  ASSUME TaskTypes, NEW t \in Tasks, NEW place \in Places, Go(t, place),
         Fits([tasks[t] EXCEPT !.at = place])
  PROVE  TaskTypes'
  <1>1. [tasks[t] EXCEPT !.at = place] \in TaskRecords
    BY ZenonT(40) DEF TaskTypes, TaskRecords
  <1> QED
    BY <1>1, PutTask DEF Go, TaskTypes

LEMMA FailedTypes ==
  ASSUME TaskTypes, NEW t \in Tasks, Failed(t)
  PROVE  TaskTypes'
  <1>1. CASE t \in Gateways
    <2>1. tasks[t] \in TaskRecords
      BY DEF TaskTypes
    <2>2. [tasks[t] EXCEPT !.at = "idle"].at = "idle"
      BY <2>1 DEF TaskRecords
    <2> QED
      BY <1>1, <2>2, GoTypes DEF Failed, Fits, Places
  <1>2. CASE t \notin Gateways
    BY <1>2, AnswerTypes DEF Failed, Codes
  <1> QED
    BY <1>1, <1>2

(* The loops and the reloads. *)
LEMMA ReloadTaskTypes ==
  ASSUME TaskTypes, StoreTypes, NEW t \in Tasks, Reload(t)
  PROVE  TaskTypes'
  <1> USE DEF Tasks, Places, Ops
  <1>0. tasks[t] \in TaskRecords /\ Fits(tasks[t])
    BY DEF TaskTypes
  <1>1. CASE ReadFile(t)
    <2> DEFINE r == [tasks[t] EXCEPT !.at = "fetch", !.file = keyFile]
    <2>1. r \in TaskRecords
      BY <1>0 DEF TaskRecords, StoreTypes
    <2>2. r.at = "fetch" /\ r.file \in KeyFiles
      BY <1>0 DEF TaskRecords, StoreTypes
    <2>3. tasks' = [tasks EXCEPT ![t] = r]
      BY <1>1 DEF ReadFile
    <2> HIDE DEF r
    <2> QED
      BY <2>1, <2>2, <2>3, PutTask DEF Fits
  <1>2. CASE FetchKeys(t)
    <2>1. PICK seen \in Partial(KeyIds, Issued) :
            tasks' = [tasks EXCEPT ![t].at = "assign", ![t].seen = seen]
      BY <1>2, NothingType DEF FetchKeys, StoreTypes
    <2> DEFINE r == [tasks[t] EXCEPT !.at = "assign", !.seen = seen]
    <2>2. r \in TaskRecords
      BY <1>0 DEF TaskRecords
    <2>3. r.at = "assign" /\ r.seen = seen /\ r.file = tasks[t].file
      BY <1>0 DEF TaskRecords
    <2>4. r.file \in KeyFiles
      BY <1>0, <1>2, <2>3 DEF Fits, FetchKeys
    <2>5. tasks' = [tasks EXCEPT ![t] = r]
      BY <2>1
    <2> HIDE DEF r
    <2> QED
      BY <2>2, <2>3, <2>4, <2>5, PutTask DEF Fits
  <1>3. CASE AssignKeys(t)
    <2>1. tasks[t].gate \in Gateways
      BY <1>0 DEF TaskRecords
    <2>2. CASE tasks[t].op \in {"loop", "start"}
      <3>1. PICK place \in {"fetchPolicies", "idle"} :
              tasks' = [tasks EXCEPT ![t] = Task(place, tasks[t].gate, "loop")]
        BY <1>3, <2>2 DEF AssignKeys, AfterKeys
      <3> QED
        BY <2>1, <3>1, IdleFits, PutTask
    <2>3. CASE tasks[t].op \notin {"loop", "start"}
      BY <1>3, <2>3, AnswerTypes DEF AssignKeys, AfterKeys, Codes
    <2> QED
      BY <2>2, <2>3
  <1>4. CASE FetchPolicies(t)
    <2>1. CASE tasks' = [tasks EXCEPT ![t].at = "assignPolicies", ![t].seen = patches]
      <3> DEFINE r == [tasks[t] EXCEPT !.at = "assignPolicies", !.seen = patches]
      <3>1. r \in TaskRecords
        BY <1>0 DEF TaskRecords, StoreTypes
      <3>2. r.at = "assignPolicies" /\ r.seen \in Partial(Owners, Patches)
        BY <1>0 DEF TaskRecords, StoreTypes
      <3>3. tasks' = [tasks EXCEPT ![t] = r]
        BY <2>1
      <3> HIDE DEF r
      <3> QED
        BY <3>1, <3>2, <3>3, PutTask DEF Fits
    <2>2. CASE Failed(t)
      BY <2>2, FailedTypes
    <2> QED
      BY <1>4, <2>1, <2>2 DEF FetchPolicies
  <1>5. CASE AssignPolicies(t)
    BY <1>0, <1>5, IdleFits, PutTask, AnswerTypes DEF AssignPolicies, Codes
  <1> QED
    BY <1>1, <1>2, <1>3, <1>4, <1>5 DEF Reload

(* A request that is let in has what the first place of its route needs. *)
LEMMA StartTaskTypes ==
  ASSUME TaskTypes, ReplicaTypes, NEW c \in Calls, Start(c)
  PROVE  TaskTypes'
  <1>0. c \in Tasks
    BY DEF Tasks
  <1>1. PICK g \in Gateways, want \in Wants, signer \in secrets, fresh \in BOOLEAN :
          tasks' = [tasks EXCEPT ![c] = Received(g, want, signer, fresh)]
    BY DEF Start
  <1> DEFINE blank == Task(FirstPlace[want.op], g, want.op)
             asked == [blank EXCEPT !.key = want.key, !.patch = want.patch]
             keys == Check(registry[g], signer, fresh)
             key == CHOOSE k \in keys : TRUE
             refusal == Refusal(want, signer, key)
             sent == [asked EXCEPT !.tenant = Target(want, key), !.scope = ScopeOf(key)]
  <1>a. FirstPlace["issue"] = "look" /\ FirstPlace["revoke"] = "delete"
        /\ FirstPlace["policy"] = "patch" /\ FirstPlace["trust"] = "add"
        /\ FirstPlace["distrust"] = "drop" /\ FirstPlace["list"] = "scan"
    BY DEF FirstPlace
  <1>b. want.op \in {"issue", "revoke", "policy", "trust", "distrust", "list"}
    BY AccessAssumption
  <1>2. FirstPlace[want.op] \in {"look", "delete", "patch", "add", "drop", "scan"}
    BY <1>a, <1>b
  <1>3. FirstPlace[want.op] = "look" => want.op = "issue"
    BY <1>a, <1>b
  <1>4. FirstPlace[want.op] = "patch" => want.op = "policy"
    BY <1>a, <1>b
  <1>5. FirstPlace[want.op] = "add" => want.op = "trust"
    BY <1>a, <1>b
  <1>6. blank \in TaskRecords /\ blank.at = FirstPlace[want.op] /\ blank.op = want.op
    <2>1. want.op \in Ops /\ FirstPlace[want.op] \in Places
      BY <1>2, AccessAssumption DEF Ops, Places
    <2> QED
      BY <2>1, TaskType DEF Task
  <1> HIDE DEF blank
  <1>7. asked \in TaskRecords /\ asked.at = FirstPlace[want.op] /\ asked.key = want.key
    BY <1>6 DEF TaskRecords, Patches
  <1>8. CASE registry[g].degraded
    BY <1>0, <1>1, <1>7, <1>8, AnsweredFits, PutTask DEF Codes, Received, blank
  <1>9. CASE keys = {} /\ ~registry[g].degraded
    BY <1>0, <1>1, <1>7, <1>9, AnsweredFits, PutTask DEF Codes, Received, blank
  <1>10. CASE keys # {} /\ ~registry[g].degraded
    <2>1. key \in keys
      BY <1>10
    <2>2. key.tenant \in Owners
      BY <2>1 DEF Check, Get, ReplicaTypes, Sound
    <2> HIDE DEF key
    <2>3. refusal \in Codes
      BY DEF Refusal, Codes
    <2>4. CASE refusal # ""
      BY <1>0, <1>1, <1>7, <1>10, <2>3, <2>4, AnsweredFits, PutTask DEF Received, blank, key
    <2>5. CASE refusal = ""
      <3> DEFINE target == Target(want, key)
                 scope == ScopeOf(key)
      <3>1. target \in Scopes /\ scope \in Scopes \cup {Everything}
        BY <2>2, AccessAssumption DEF Target, ScopeOf, Scopes, AnyTenant
      <3>2. want.op \in {"issue", "policy"} => target \in Owners
        BY <2>2, AccessAssumption DEF Target, Scopes, AnyTenant
      <3>3. want.op = "trust" => scope \in {target, Everything}
        <4>1. CASE key.admin
          BY <4>1 DEF ScopeOf
        <4>2. CASE ~key.admin /\ want.op = "trust"
          <5>1. want.op \notin AdminOps /\ want.op # "revoke"
            BY <4>2 DEF AdminOps
          <5>2. want.tenant \in {"", key.tenant}
            BY <2>5, <4>2, <5>1 DEF Refusal
          <5> QED
            BY <4>2, <5>2 DEF Target, ScopeOf
        <4> QED
          BY <4>1, <4>2
      <3>4. want.op = "issue" => want.key \in KeyIds
        BY AccessAssumption
      <3> HIDE DEF target, scope
      <3> DEFINE r == [asked EXCEPT !.tenant = target, !.scope = scope]
      <3>5. r \in TaskRecords /\ r.at = FirstPlace[want.op] /\ r.key = want.key
            /\ r.tenant = target /\ r.scope = scope
        BY <1>7, <3>1 DEF TaskRecords
      <3>6. r.at \in {"look", "delete", "patch", "add", "drop", "scan"}
        BY <1>2, <3>5
      <3>7. tasks' = [tasks EXCEPT ![c] = r]
        BY <1>1, <1>10, <2>5 DEF Received, blank, target, scope, key
      <3> HIDE DEF r
      <3>8. Fits(r)
        BY <1>3, <1>4, <1>5, <3>1, <3>2, <3>3, <3>4, <3>5, <3>6 DEF Fits
      <3> QED
        BY <1>0, <3>5, <3>7, <3>8, PutTask
    <2> QED
      BY <2>4, <2>5
  <1> QED
    BY <1>8, <1>9, <1>10

(* The places of the handlers. *)
LEMMA HandleTaskTypes ==
  ASSUME TaskTypes, StoreTypes, NEW c \in Calls, Handle(c)
  PROVE  TaskTypes'
  <1>0. c \in Tasks /\ tasks[c] \in TaskRecords /\ Fits(tasks[c])
    BY DEF Tasks, TaskTypes
  <1>1. ASSUME NEW place \in {"put", "reload", "fetchPolicies", "index", "prune"},
               Go(c, place),
               place = "put" => tasks[c].key \in KeyIds /\ tasks[c].tenant \in Owners,
               place = "prune" => tasks[c].tenant \in Scopes
        PROVE  TaskTypes'
    <2> DEFINE r == [tasks[c] EXCEPT !.at = place]
    <2>1. r.at = place /\ r.key = tasks[c].key /\ r.tenant = tasks[c].tenant
      BY <1>0 DEF TaskRecords
    <2> HIDE DEF r
    <2>2. Fits(r)
      BY <1>1, <2>1 DEF Fits
    <2> QED
      BY <1>0, <1>1, <2>2, GoTypes DEF Places, r
  <1>2. CASE Look(c) \/ Put(c) \/ Delete(c) \/ Patch(c)
    BY <1>0, <1>1, <1>2, AnswerTypes DEF Look, Put, Delete, Patch, Codes, Fits
  <1>3. CASE Trust(c) \/ Listed(c)
    BY <1>0, <1>3, AnswerTypes DEF Trust, Listed, Codes
  <1>4. CASE Unlist(c)
    BY <1>0, <1>4, AnswerTypes DEF Unlist, TaskRecords
  <1>5. CASE Drop(c)
    <2>1. PICK code \in {"404", "200"} :
            tasks' = [tasks EXCEPT ![c] = [tasks[c] EXCEPT !.at = "unlist", !.answer = code]]
      BY <1>5 DEF Drop
    <2> DEFINE r == [tasks[c] EXCEPT !.at = "unlist", !.answer = code]
    <2>a. code \in Codes /\ "unlist" \in Places
      BY DEF Codes, Places
    <2>2. r \in TaskRecords
      BY <1>0, <2>a DEF TaskRecords
    <2>3. r.at = "unlist" /\ r.tenant = tasks[c].tenant
      BY <1>0 DEF TaskRecords
    <2>4. r.tenant \in Scopes
      BY <1>0, <1>5, <2>3 DEF Drop, Fits
    <2>5. tasks' = [tasks EXCEPT ![c] = r]
      BY <2>1
    <2> HIDE DEF r
    <2> QED
      BY <1>0, <2>2, <2>3, <2>4, <2>5, PutTask DEF Fits
  <1>6. CASE ScanIndexes(c)
    <2>1. PICK todo \in SUBSET Scopes :
            tasks' = [tasks EXCEPT ![c] = [tasks[c] EXCEPT !.at = "index", !.todo = todo]]
      BY <1>0, <1>6 DEF ScanIndexes, Fits, Scopes
    <2> DEFINE r == [tasks[c] EXCEPT !.at = "index", !.todo = todo]
    <2>2. r \in TaskRecords /\ r.at = "index"
      BY <1>0 DEF TaskRecords, Places
    <2>3. tasks' = [tasks EXCEPT ![c] = r]
      BY <2>1
    <2> HIDE DEF r
    <2> QED
      BY <1>0, <2>2, <2>3, PutTask DEF Fits
  <1>7. CASE ReadIndex(c)
    <2>1. PICK s \in Scopes, place \in {"records", "index"} :
            tasks' = [tasks EXCEPT ![c] = [tasks[c] EXCEPT !.todo = @ \ {s}, !.tenant = s,
                                                           !.at = place]]
      <3>1. tasks[c].todo \subseteq Scopes
        BY <1>0 DEF TaskRecords
      <3>2. PICK s \in tasks[c].todo :
              tasks' = [tasks EXCEPT ![c].todo = @ \ {s}, ![c].tenant = s,
                                     ![c].at = IF index[s] = "in" THEN "records" ELSE "index"]
        BY <1>7 DEF ReadIndex
      <3>3. (IF index[s] = "in" THEN "records" ELSE "index") \in {"records", "index"}
        OBVIOUS
      <3>4. s \in Scopes
        BY <3>1
      <3> QED
        BY <3>2, <3>3, <3>4
    <2> DEFINE r == [tasks[c] EXCEPT !.todo = @ \ {s}, !.tenant = s, !.at = place]
    <2>2. r \in TaskRecords
      BY <1>0 DEF TaskRecords, Places
    <2>3. r.at = place /\ r.tenant = s
      BY <1>0 DEF TaskRecords
    <2>4. tasks' = [tasks EXCEPT ![c] = r]
      BY <2>1
    <2> HIDE DEF r
    <2> QED
      BY <1>0, <2>2, <2>3, <2>4, PutTask DEF Fits
  <1>8. CASE ReadRecord(c) \/ Prune(c)
    BY <1>0, <1>1, <1>8 DEF ReadRecord, Prune, Fits
  <1> QED
    BY <1>2, <1>3, <1>4, <1>5, <1>6, <1>7, <1>8 DEF Handle

LEMMA RestartTaskTypes ==
  ASSUME TaskTypes, NEW g \in Gateways, Restart(g)
  PROVE  TaskTypes'
  <1>1. Task("reload", g, "start") \in TaskRecords /\ Fits(Task("reload", g, "start"))
    BY IdleFits DEF Places, Ops
  <1>2. \A t \in Tasks : tasks[t] \in TaskRecords /\ Fits(tasks[t])
    BY DEF TaskTypes
  <1>3. \A t \in Tasks :
          Answered(tasks[t], "lost") \in TaskRecords /\ Fits(Answered(tasks[t], "lost"))
    BY <1>2, AnsweredFits DEF Codes
  <1> QED
    BY <1>1, <1>2, <1>3 DEF TaskTypes, Restart

LEMMA TaskTypesNext ==
  ASSUME TaskTypes, StoreTypes, ReplicaTypes, [AccessNext]_keyVars
  PROVE  TaskTypes'
  <1>1. ASSUME NEW g \in Gateways, Tick(g) PROVE TaskTypes'
    <2>1. g \in Tasks /\ tasks[g] \in TaskRecords
      BY DEF TaskTypes, Tasks
    <2>2. [tasks[g] EXCEPT !.at = "reload"].at = "reload"
      BY <2>1 DEF TaskRecords
    <2> QED
      BY <1>1, <2>1, <2>2, GoTypes DEF Tick, Fits, Places
  <1>2. ASSUME NEW g \in Gateways, Restart(g) PROVE TaskTypes'
    BY <1>2, RestartTaskTypes
  <1>3. ASSUME NEW t \in Tasks, Reload(t) PROVE TaskTypes'
    BY <1>3, ReloadTaskTypes
  <1>4. ASSUME NEW c \in Calls, Start(c) \/ Handle(c) \/ CommandFails(c) PROVE TaskTypes'
    BY <1>4, StartTaskTypes, HandleTaskTypes, FailedTypes DEF CommandFails, Tasks
  <1>5. CASE EditFile \/ (\E s \in Scopes : Expire(s)) \/ UNCHANGED keyVars
    BY <1>5 DEF EditFile, Expire, keyVars, TaskTypes
  <1> QED
    BY <1>1, <1>2, <1>3, <1>4, <1>5 DEF AccessNext

-----------------------------------------------------------------------------
(* The store, the replicas and the list of trusted files *)

LEMMA BoundsType == MaxChanges \in Nat /\ MaxFailures \in Nat
  BY AccessAssumption

LEMMA StoreTypesNext ==
  ASSUME StoreTypes, TaskTypes, [AccessNext]_keyVars
  PROVE  StoreTypes'
  <1> USE BoundsType DEF StoreTypes
  <1>1. ASSUME NEW t \in Tasks, Reload(t) PROVE StoreTypes'
    BY <1>1 DEF Reload, ReadFile, FetchKeys, AssignKeys, FetchPolicies, AssignPolicies
  <1>2. ASSUME NEW c \in Calls, Start(c) PROVE StoreTypes'
    BY <1>2 DEF Start
  <1>3. ASSUME NEW c \in Calls, Handle(c) PROVE StoreTypes'
    <2>0. c \in Tasks /\ tasks[c] \in TaskRecords /\ Fits(tasks[c])
      BY DEF Tasks, TaskTypes
    <2>1. CASE Look(c) \/ ScanIndexes(c) \/ ReadRecord(c) \/ Listed(c)
      BY <2>1 DEF Look, ScanIndexes, ReadRecord, Listed
    <2>2. CASE Put(c)
      <3>1. tasks[c].key \in KeyIds /\ tasks[c].tenant \in Owners
        BY <2>0, <2>2 DEF Put, Fits
      <3>2. Key(tasks[c].tenant, FALSE, FALSE, c) \in Issued
        BY <3>1 DEF Issued, Key
      <3> QED
        BY <2>2, <3>1, <3>2, WithType DEF Put
    <2>3. CASE Delete(c)
      BY <2>3, WithoutType DEF Delete
    <2>4. CASE Patch(c)
      <3>1. tasks[c].tenant \in Owners /\ tasks[c].patch \in Patches
        BY <2>0, <2>4 DEF Patch, Fits, TaskRecords
      <3> QED
        BY <2>4, <3>1, WithType DEF Patch
    <2>5. CASE Trust(c)
      <3>1. tasks[c].tenant \in Scopes /\ tasks[c].scope \in Scopes \cup {Everything, NoScope}
        BY <2>0, <2>5 DEF Trust, Fits, TaskRecords
      <3> QED
        BY <2>5, <3>1 DEF Trust
    <2>6. CASE Drop(c)
      BY <2>6 DEF Drop
    <2>7. CASE Unlist(c) \/ ReadIndex(c) \/ Prune(c)
      BY <2>7 DEF Unlist, ReadIndex, Prune
    <2> QED
      BY <1>3, <2>1, <2>2, <2>3, <2>4, <2>5, <2>6, <2>7 DEF Handle
  <1>4. ASSUME NEW c \in Calls, CommandFails(c) PROVE StoreTypes'
    BY <1>4 DEF CommandFails
  <1>5. ASSUME NEW g \in Gateways, Tick(g) \/ Restart(g) PROVE StoreTypes'
    BY <1>5 DEF Tick, Restart
  <1>6. CASE EditFile
    BY <1>6 DEF EditFile
  <1>7. ASSUME NEW s \in Scopes, Expire(s) PROVE StoreTypes'
    BY <1>7 DEF Expire
  <1>8. CASE UNCHANGED keyVars
    BY <1>8 DEF keyVars
  <1> QED
    BY <1>1, <1>2, <1>3, <1>4, <1>5, <1>6, <1>7, <1>8 DEF AccessNext

(* A registry is only ever replaced by one that was loaded as a whole. *)
LEMMA ReplicaTypesNext ==
  ASSUME ReplicaTypes, TaskTypes, StoreTypes, [AccessNext]_keyVars
  PROVE  ReplicaTypes'
  <1>1. ASSUME NEW t \in Tasks, AssignKeys(t) PROVE ReplicaTypes'
    <2>1. tasks[t].file \in KeyFiles /\ tasks[t].seen \in Partial(KeyIds, Issued)
      BY <1>1 DEF AssignKeys, TaskTypes, Fits
    <2>2. Sound(MergedWith(Load(tasks[t].file), tasks[t].seen))
      BY <2>1, MergedSound
    <2> QED
      BY <1>1, <2>2 DEF AssignKeys, ReplicaTypes
  <1>2. ASSUME NEW t \in Tasks, AssignPolicies(t) PROVE ReplicaTypes'
    <2>1. DOMAIN Built(tasks[t].seen) \subseteq Owners
      BY <1>2, BuiltOwners DEF AssignPolicies, TaskTypes, Fits
    <2> QED
      BY <1>2, <2>1 DEF AssignPolicies, ReplicaTypes
  <1>3. ASSUME NEW g \in Gateways, Restart(g) PROVE ReplicaTypes'
    <2>1. Sound(Load(keyFile)) /\ DOMAIN Built(Nothing) \subseteq Owners
      BY LoadSound, BuiltOwners, NothingType DEF StoreTypes
    <2> QED
      BY <1>3, <2>1 DEF Restart, ReplicaTypes
  <1>4. CASE UNCHANGED <<registry, policies>>
    BY <1>4 DEF ReplicaTypes
  <1>5. ASSUME NEW t \in Tasks, Reload(t) PROVE ReplicaTypes'
    BY <1>1, <1>2, <1>4, <1>5 DEF Reload, ReadFile, FetchKeys, FetchPolicies
  <1>6. ASSUME NEW c \in Calls, Start(c) \/ Handle(c) \/ CommandFails(c) PROVE ReplicaTypes'
    BY <1>4, <1>6 DEF Start, Handle, CommandFails, Look, Put, Delete, Patch, Trust, Drop,
         Unlist, ScanIndexes, ReadIndex, ReadRecord, Prune, Listed
  <1>7. CASE EditFile \/ UNCHANGED keyVars \/ \E s \in Scopes : Expire(s)
    BY <1>4, <1>7 DEF EditFile, Expire, keyVars
  <1> QED
    BY <1>3, <1>4, <1>5, <1>6, <1>7 DEF AccessNext, Tick

LEMMA TrustNext ==
  ASSUME TrustIsOwn, TaskTypes, StoreTypes, [AccessNext]_keyVars
  PROVE  TrustIsOwn'
  <1>1. ASSUME NEW c \in Calls, Trust(c) PROVE TrustIsOwn'
    <2>1. tasks[c].scope \in {tasks[c].tenant, Everything}
      BY <1>1 DEF Trust, TaskTypes, Fits, Tasks
    <2> QED
      BY <1>1, <2>1 DEF Trust, TrustIsOwn, StoreTypes
  <1>2. ASSUME NEW c \in Calls, Drop(c) PROVE TrustIsOwn'
    BY <1>2 DEF Drop, TrustIsOwn, StoreTypes
  <1>3. ASSUME NEW s \in Scopes, Expire(s) PROVE TrustIsOwn'
    BY <1>3 DEF Expire, TrustIsOwn, StoreTypes
  <1>4. CASE UNCHANGED trusted
    BY <1>4 DEF TrustIsOwn
  <1>5. ASSUME NEW t \in Tasks, Reload(t) PROVE TrustIsOwn'
    BY <1>4, <1>5 DEF Reload, ReadFile, FetchKeys, AssignKeys, FetchPolicies, AssignPolicies
  <1>6. ASSUME NEW c \in Calls, Start(c) \/ Handle(c) \/ CommandFails(c) PROVE TrustIsOwn'
    BY <1>1, <1>2, <1>4, <1>6 DEF Start, Handle, CommandFails, Look, Put, Delete, Patch,
         Unlist, ScanIndexes, ReadIndex, ReadRecord, Prune, Listed
  <1>7. CASE EditFile \/ UNCHANGED keyVars
    BY <1>4, <1>7 DEF EditFile, keyVars
  <1>8. ASSUME NEW g \in Gateways, Tick(g) \/ Restart(g) PROVE TrustIsOwn'
    BY <1>4, <1>8 DEF Tick, Restart
  <1> QED
    BY <1>3, <1>5, <1>6, <1>7, <1>8 DEF AccessNext

-----------------------------------------------------------------------------
(* The theorems *)

LEMMA AccessIInvInit == AccessInit => AccessIInv
  <1> SUFFICES ASSUME AccessInit PROVE AccessIInv
    OBVIOUS
  <1>1. StoreTypes
    <2>1. keyFile \in KeyFiles
      BY DEF AccessInit
    <2>2. stored \in Partial(KeyIds, Issued) /\ patches \in Partial(Owners, Patches)
      BY NothingType DEF AccessInit
    <2>3. trusted \in [Scopes -> Scopes \cup {Everything, NoScope}]
          /\ index \in [Scopes -> {"out", "in", "late"}]
      BY DEF AccessInit
    <2>4. changes \in 0..MaxChanges /\ failures \in 0..MaxFailures
      <3>1. changes = 0 /\ failures = 0
        BY DEF AccessInit
      <3> QED
        BY <3>1, BoundsType
    <2> QED
      BY <2>1, <2>2, <2>3, <2>4 DEF StoreTypes
  <1>2. TaskTypes
    <2>1. PICK cast \in Casts : tasks =
            [t \in Tasks |-> IF t \notin cast THEN Task("absent", AnyGateway, "start")
                            ELSE IF t \in Gateways THEN Task("idle", t, "loop")
                            ELSE Task("new", AnyGateway, "")]
      BY DEF AccessInit
    <2>2. ASSUME NEW t \in Tasks PROVE tasks[t] \in TaskRecords /\ Fits(tasks[t])
      BY <2>1, IdleFits, GatewayExists DEF Places, Ops
    <2> QED
      BY <2>1, <2>2 DEF TaskTypes
  <1>3. ReplicaTypes
    BY LoadSound, BuiltOwners, NothingType DEF AccessInit, ReplicaTypes
  <1>4. TrustIsOwn
    BY DEF AccessInit, TrustIsOwn
  <1> QED
    BY <1>1, <1>2, <1>3, <1>4 DEF AccessIInv

LEMMA AccessIInvNext == AccessIInv /\ [AccessNext]_keyVars => AccessIInv'
  BY StoreTypesNext, TaskTypesNext, ReplicaTypesNext, TrustNext DEF AccessIInv

(* What tasks hold at each place, that registries are only loaded as a whole, and that
   the interface issues no administrator: this is inductive. *)
THEOREM AccessInvariance == AccessSpec => []AccessIInv
  BY AccessIInvInit, AccessIInvNext, PTL DEF AccessSpec

(* Nobody gains or loses a right by the order in which keys are issued, revoked and
   reloaded and in which commands fail, whatever the files, the calls and the failures
   (keys.py, provisioning.py, state.py, allowlist.py). *)
THEOREM RightsAreKept == AccessSpec => []AccessInv
  <1>1. AccessIInv => AccessInv
    <2> SUFFICES ASSUME AccessIInv PROVE AccessInv
      OBVIOUS
    <2>1. AccessTypeOK
      BY PartialDomain DEF AccessIInv, StoreTypes, TaskTypes, TaskRecords, ReplicaTypes, Sound,
           AccessTypeOK
    <2>2. OutageKeepsTheFile /\ AdminsAreInTheFile
      BY DEF AccessIInv, ReplicaTypes, Sound, OutageKeepsTheFile, AdminsAreInTheFile
    <2> QED
      BY <2>1, <2>2 DEF AccessIInv, AccessInv
  <1> QED
    BY <1>1, AccessInvariance, PTL

=============================================================================
