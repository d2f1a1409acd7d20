------------------------------ MODULE AccessKeys ------------------------------
(***************************************************************************)
(* Who may ask a gateway for what, and how that changes while it runs:     *)
(* the registry of keys and the policies of the tenants                    *)
(* (packages/vscommon/keys.py, policy.py, provisioning.py, state.py and    *)
(* main.py of the gateway), the routes of the administrator                *)
(* (routes/admin.py) and those on the list of trusted files                *)
(* (routes/ops.py, packages/vscommon/allowlist.py).                        *)
(*                                                                         *)
(* Several gateways read one file of keys and one store in Redis.  Each    *)
(* has a registry of its own that its loop and its handlers replace as a   *)
(* whole: a task reads the file, then the store, then assigns, and other   *)
(* tasks take steps in between.  A call is one request of a client.  The   *)
(* list of trusted files is that of one file.                              *)
(***************************************************************************)
EXTENDS Naturals, FiniteSets

CONSTANTS
  Gateways,        \* the replicas
  Calls,           \* requests to the routes, each made once
  KeyIds,          \* identifiers of keys
  Owners,          \* tenants
  Wants,           \* what a request may ask for: [op, key, tenant, patch]
  KeyFiles,        \* what the file of keys may hold: [readable, keys]
  Casts,           \* sets of gateways that run and calls that are made, one for a behaviour
  FilePolicies,    \* the policies in the file, by tenant
  MaxChanges,      \* how often the file changes, a gateway restarts, an entry expires
  MaxFailures      \* how many commands of Redis fail

(* A key has a tenant and an identifier; what is asked for names a scope or,
   where the path or the body demands it, a tenant. *)
ASSUME AccessAssumption ==
  /\ Gateways # {}
  /\ \A f \in KeyFiles :
       /\ f.readable \in BOOLEAN /\ DOMAIN f.keys \subseteq KeyIds
       /\ \A k \in DOMAIN f.keys : f.keys[k].tenant \in Owners
  /\ DOMAIN FilePolicies \subseteq Owners
  /\ \A w \in Wants :
       /\ w.op \in {"issue", "revoke", "policy", "trust", "distrust", "list"}
       /\ w.tenant \in Owners \cup {"*", ""}
       /\ w.op = "issue" => w.key \in KeyIds
       /\ w.op \in {"issue", "policy"} => w.tenant \in Owners \ {""}
  /\ {MaxChanges, MaxFailures} \subseteq Nat

AnyTenant == "*"
Everything == "all"          \* the scope of an administrator
NoScope == "none"
Scopes == Owners \cup {AnyTenant}

VARIABLES
  keyFile,         \* the file of keys
  stored,          \* provision:keys
  patches,         \* provision:policies
  registry,        \* of each gateway: the keys, and whether the file was unreadable
  policies,        \* of each gateway, by tenant
  trusted,         \* the scope that put the entry of a tenant (or of all), NoScope if none
  index,           \* of each scope: whether its index lists the file, "late" past its term
  secrets,         \* the secrets that were shown: [key, secret]
  tasks,           \* the requests and the loops of the gateways
  changes, failures

keyVars == <<keyFile, stored, patches, registry, policies, trusted, index, secrets, tasks,
             changes, failures>>

Tasks == Calls \cup Gateways

Key(tenant, admin, public, secret) ==
  [tenant |-> tenant, admin |-> admin, public |-> public, secret |-> secret,
   disabled |-> FALSE]

(* Dictionaries: none, one more entry, and one that counts before another. *)
Nothing == [k \in {} |-> k]
With(map, key, value) ==
  [k \in DOMAIN map \cup {key} |-> IF k = key THEN value ELSE map[k]]
Over(upper, lower) ==
  [k \in DOMAIN upper \cup DOMAIN lower |-> IF k \in DOMAIN upper THEN upper[k] ELSE lower[k]]

AnyGateway == CHOOSE g \in Gateways : TRUE

(* A task: its place in the code, its gateway, what it was asked for, the  *)
(* scope of its key, and what it has read.                                 *)
Task(at, gate, op) ==
  [at |-> at, gate |-> gate, op |-> op, key |-> "", tenant |-> "", patch |-> Nothing,
   scope |-> NoScope, todo |-> {}, file |-> [readable |-> TRUE, keys |-> Nothing],
   seen |-> Nothing, answer |-> ""]

-----------------------------------------------------------------------------
(* The registry of keys *)

(* A key of the site that is also one of the administrator is not loaded.  *)
Parse(raw) == [k \in {k \in DOMAIN raw : ~(raw[k].public /\ raw[k].admin)} |-> raw[k]]

(* A file that cannot be read leaves a registry that refuses everybody.    *)
Load(file) ==
  [keys |-> IF file.readable THEN Parse(file.keys) ELSE Nothing, degraded |-> ~file.readable]

(* What came through the interface takes the place of what is in the file. *)
MergedWith(loaded, extra) == [loaded EXCEPT !.keys = Over(extra, @)]

Get(reg, key) ==
  {reg.keys[k] : k \in {k \in {key} \cap DOMAIN reg.keys : ~reg.keys[k].disabled}}

(* A signature holds under the secret it was made with, for a while. *)
Verifies(secret, signer, fresh) == secret = signer.secret /\ fresh

(* The key a request is signed with, none where the signature does not     *)
(* hold; a secret that lies in the open signs nothing. *)
Check(reg, signer, fresh) ==
  {key \in Get(reg, signer.key) : ~key.public /\ Verifies(key.secret, signer, fresh)}

ScopeOf(key) == IF key.admin THEN Everything ELSE key.tenant

(* The policies of a gateway: what the interface set over what the file    *)
(* says, one tenant at a time. *)
Built(set) ==
  [t \in DOMAIN FilePolicies \cup DOMAIN set |->
     IF t \notin DOMAIN set THEN FilePolicies[t]
     ELSE IF t \in DOMAIN FilePolicies THEN Over(set[t], FilePolicies[t]) ELSE set[t]]

-----------------------------------------------------------------------------
(* Starting a gateway: the keys of the file, then those of the store; the  *)
(* policies of the file, those of the store with the first round of the    *)
(* loop.                                                                   *)

Holders(file) == {[key |-> k, secret |-> file.keys[k].secret] : k \in DOMAIN file.keys}

AccessInit ==
  /\ keyFile \in {f \in KeyFiles : f.readable}
  /\ stored = Nothing /\ patches = Nothing
  /\ registry = [g \in Gateways |-> Load(keyFile)]
  /\ policies = [g \in Gateways |-> Built(Nothing)]
  /\ trusted = [s \in Scopes |-> NoScope] /\ index = [s \in Scopes |-> "out"]
  /\ secrets = Holders(keyFile)
  /\ \E cast \in Casts : tasks =
       [t \in Tasks |-> IF t \notin cast THEN Task("absent", AnyGateway, "start")
                       ELSE IF t \in Gateways THEN Task("idle", t, "loop")
                       ELSE Task("new", AnyGateway, "")]
  /\ changes = 0 /\ failures = 0

Go(t, place) == tasks' = [tasks EXCEPT ![t].at = place]

Answered(task, code) ==
  [Task("done", AnyGateway, task.op) EXCEPT !.key = task.key, !.answer = code]

Answer(t, code) == tasks' = [tasks EXCEPT ![t] = Answered(@, code)]

Serves(g) == tasks[g].op # "start"

(* Its requests are lost with it. *)
Restart(g) ==
  /\ tasks[g].at # "absent"
  /\ changes < MaxChanges /\ changes' = changes + 1
  /\ registry' = [registry EXCEPT ![g] = Load(keyFile)]
  /\ policies' = [policies EXCEPT ![g] = Built(Nothing)]
  /\ tasks' = [t \in Tasks |->
                 IF t = g THEN Task("reload", g, "start")
                 ELSE IF /\ t \in Calls /\ tasks[t].gate = g
                         /\ tasks[t].at \notin {"new", "done", "absent"}
                   THEN Answered(tasks[t], "lost")
                 ELSE tasks[t]]
  /\ UNCHANGED <<keyFile, stored, patches, trusted, index, secrets, failures>>

EditFile ==
  /\ changes < MaxChanges /\ changes' = changes + 1
  /\ keyFile' \in KeyFiles \ {keyFile}
  /\ secrets' = secrets \cup Holders(keyFile')
  /\ UNCHANGED <<stored, patches, registry, policies, trusted, index, tasks, failures>>

Tick(g) ==
  /\ tasks[g].at = "idle"
  /\ Go(g, "reload")
  /\ UNCHANGED <<keyFile, stored, patches, registry, policies, trusted, index, secrets,
                 changes, failures>>

(* The loop tries again with the next round, a handler answers 500.        *)
Failed(t) == IF t \in Gateways THEN Go(t, "idle") ELSE Answer(t, "500")

-----------------------------------------------------------------------------
(* reload_keys: the file, the store, the assignment.  Without the store    *)
(* the file alone counts.                                                  *)

ReadFile(t) ==
  /\ tasks[t].at = "reload"
  /\ tasks' = [tasks EXCEPT ![t].at = "fetch", ![t].file = keyFile]
  /\ UNCHANGED <<keyFile, stored, patches, registry, policies, trusted, index, secrets,
                 changes, failures>>

FetchKeys(t) ==
  /\ tasks[t].at = "fetch"
  /\ \/ /\ tasks' = [tasks EXCEPT ![t].at = "assign", ![t].seen = stored]
        /\ UNCHANGED failures
     \/ /\ failures < MaxFailures /\ failures' = failures + 1
        /\ tasks' = [tasks EXCEPT ![t].at = "assign", ![t].seen = Nothing]
  /\ UNCHANGED <<keyFile, stored, patches, registry, policies, trusted, index, secrets,
                 changes>>

AfterKeys(t) ==
  LET task == tasks[t]
  IN CASE task.op = "loop" ->
            tasks' = [tasks EXCEPT ![t] = Task("fetchPolicies", @.gate, "loop")]
       [] task.op = "start" -> tasks' = [tasks EXCEPT ![t] = Task("idle", @.gate, "loop")]
       [] OTHER -> Answer(t, IF task.op = "issue" THEN "201" ELSE "204")

(* Mutant: what the gateway knew and nobody took away stays. *)
AssignOver(t) ==
  /\ tasks[t].at = "assign"
  /\ LET fresh == MergedWith(Load(tasks[t].file), tasks[t].seen)
     IN registry' = [registry EXCEPT ![tasks[t].gate] =
                       [keys |-> Over(fresh.keys, @.keys), degraded |-> fresh.degraded]]
  /\ AfterKeys(t)
  /\ UNCHANGED <<keyFile, stored, patches, policies, trusted, index, secrets, changes,
                 failures>>

AssignKeys(t) ==
  /\ tasks[t].at = "assign"
  /\ registry' = [registry EXCEPT
                    ![tasks[t].gate] = MergedWith(Load(tasks[t].file), tasks[t].seen)]
  /\ AfterKeys(t)
  /\ secrets' = IF tasks[t].op = "issue"
                  THEN secrets \cup {[key |-> tasks[t].key, secret |-> t]} ELSE secrets
  /\ UNCHANGED <<keyFile, stored, patches, policies, trusted, index, changes, failures>>

FetchPolicies(t) ==
  /\ tasks[t].at = "fetchPolicies"
  /\ \/ /\ tasks' = [tasks EXCEPT ![t].at = "assignPolicies", ![t].seen = patches]
        /\ UNCHANGED failures
     \/ /\ failures < MaxFailures /\ failures' = failures + 1
        /\ Failed(t)
  /\ UNCHANGED <<keyFile, stored, patches, registry, policies, trusted, index, secrets,
                 changes>>

AssignPolicies(t) ==
  /\ tasks[t].at = "assignPolicies"
  /\ policies' = [policies EXCEPT ![tasks[t].gate] = Built(tasks[t].seen)]
  /\ IF t \in Gateways THEN tasks' = [tasks EXCEPT ![t] = Task("idle", t, "loop")]
     ELSE Answer(t, "204")
  /\ UNCHANGED <<keyFile, stored, patches, registry, trusted, index, secrets, changes,
                 failures>>

-----------------------------------------------------------------------------
(* The routes *)

AdminOps == {"issue", "revoke", "policy"}

(* Mutant: the list of trusted files takes the tenant from the request. *)
RefusalOfAdminsAlone(want, signer, key) ==
  IF want.op \in AdminOps /\ ~key.admin THEN "404"
  ELSE IF want.op = "revoke" /\ want.key = signer.key THEN "400"
  ELSE ""

(* Why a signed request is refused, empty if it is not. *)
Refusal(want, signer, key) ==
  IF want.op \in AdminOps /\ ~key.admin THEN "404"
  ELSE IF want.op = "revoke" /\ want.key = signer.key THEN "400"
  ELSE IF want.op = "trust" /\ ~key.admin /\ want.tenant \notin {"", key.tenant} THEN "403"
  ELSE ""

(* The scope of the list that a request is about. *)
Target(want, key) ==
  IF want.op = "distrust" /\ ~key.admin THEN key.tenant
  ELSE IF want.tenant # "" THEN want.tenant
  ELSE IF key.admin THEN AnyTenant ELSE key.tenant

FirstPlace == [issue |-> "look", revoke |-> "delete", policy |-> "patch", trust |-> "add",
               distrust |-> "drop", list |-> "scan"]

(* What becomes of a request: refused, or sent to the first place of its   *)
(* route. *)
Received(g, want, signer, fresh) ==
  LET asked == [Task(FirstPlace[want.op], g, want.op) EXCEPT
                  !.key = want.key, !.patch = want.patch]
      keys == Check(registry[g], signer, fresh)
      key == CHOOSE k \in keys : TRUE
  IN CASE registry[g].degraded -> Answered(asked, "503")
       [] ~registry[g].degraded /\ keys = {} -> Answered(asked, "401")
       [] OTHER -> IF Refusal(want, signer, key) # ""
                   THEN Answered(asked, Refusal(want, signer, key))
                   ELSE [asked EXCEPT !.tenant = Target(want, key), !.scope = ScopeOf(key)]

(* A request arrives at a gateway that serves, signed with a secret that   *)
(* somebody was given, maybe too late.                                     *)
Start(c) ==
  /\ tasks[c].at = "new"
  /\ \E g \in Gateways, want \in Wants, signer \in secrets, fresh \in BOOLEAN :
       /\ Serves(g)
       /\ tasks' = [tasks EXCEPT ![c] = Received(g, want, signer, fresh)]
  /\ UNCHANGED <<keyFile, stored, patches, registry, policies, trusted, index, secrets,
                 changes, failures>>

(* issue_key looks, then writes a new secret; two may look before either   *)
(* writes. *)
Look(c) ==
  /\ tasks[c].at = "look"
  /\ IF tasks[c].key \in DOMAIN stored THEN Answer(c, "409") ELSE Go(c, "put")
  /\ UNCHANGED <<keyFile, stored, patches, registry, policies, trusted, index, secrets,
                 changes, failures>>

Put(c) ==
  /\ tasks[c].at = "put"
  /\ stored' = With(stored, tasks[c].key, Key(tasks[c].tenant, FALSE, FALSE, c))
  /\ Go(c, "reload")
  /\ UNCHANGED <<keyFile, patches, registry, policies, trusted, index, secrets, changes,
                 failures>>

Delete(c) ==
  /\ tasks[c].at = "delete"
  /\ stored' = [k \in DOMAIN stored \ {tasks[c].key} |-> stored[k]]
  /\ IF tasks[c].key \in DOMAIN stored THEN Go(c, "reload") ELSE Answer(c, "404")
  /\ UNCHANGED <<keyFile, patches, registry, policies, trusted, index, secrets, changes,
                 failures>>

(* The whole patch of a tenant is replaced. *)
Patch(c) ==
  /\ tasks[c].at = "patch"
  /\ patches' = With(patches, tasks[c].tenant, tasks[c].patch)
  /\ Go(c, "fetchPolicies")
  /\ UNCHANGED <<keyFile, stored, registry, policies, trusted, index, secrets, changes,
                 failures>>

-----------------------------------------------------------------------------
(* The list of trusted files: an entry with a term, and its place in the   *)
(* index of its tenant.                                                    *)

(* One transaction. *)
Trust(c) ==
  /\ tasks[c].at = "add"
  /\ trusted' = [trusted EXCEPT ![tasks[c].tenant] = tasks[c].scope]
  /\ index' = [index EXCEPT ![tasks[c].tenant] = "in"]
  /\ Answer(c, "201")
  /\ UNCHANGED <<keyFile, stored, patches, registry, policies, secrets, changes, failures>>

(* remove: DELETE, then ZREM. *)
Drop(c) ==
  /\ tasks[c].at = "drop"
  /\ trusted' = [trusted EXCEPT ![tasks[c].tenant] = NoScope]
  /\ tasks' = [tasks EXCEPT ![c].at = "unlist",
                            ![c].answer = IF trusted[tasks[c].tenant] = NoScope THEN "404"
                                          ELSE "200"]
  /\ UNCHANGED <<keyFile, stored, patches, registry, policies, index, secrets, changes,
                 failures>>

Unlist(c) ==
  /\ tasks[c].at = "unlist"
  /\ index' = [index EXCEPT ![tasks[c].tenant] = "out"]
  /\ Answer(c, tasks[c].answer)
  /\ UNCHANGED <<keyFile, stored, patches, registry, policies, trusted, secrets, changes,
                 failures>>

(* An administrator is shown every tenant that has an index, another key   *)
(* its own and what holds for all.                                         *)
ScanIndexes(c) ==
  /\ tasks[c].at = "scan"
  /\ tasks' = [tasks EXCEPT ![c].at = "index",
                  ![c].todo = IF tasks[c].scope = Everything
                              THEN {s \in Scopes : index[s] # "out"}
                              ELSE {tasks[c].scope, AnyTenant}]
  /\ UNCHANGED <<keyFile, stored, patches, registry, policies, trusted, index, secrets,
                 changes, failures>>

(* _entries_of: what is past its term leaves the index, the rest is read.  *)
ReadIndex(c) ==
  /\ tasks[c].at = "index" /\ tasks[c].todo # {}
  /\ \E s \in tasks[c].todo :
       /\ index' = [index EXCEPT ![s] = IF @ = "late" THEN "out" ELSE @]
       /\ tasks' = [tasks EXCEPT ![c].todo = @ \ {s}, ![c].tenant = s,
                                 ![c].at = IF index[s] = "in" THEN "records" ELSE "index"]
  /\ UNCHANGED <<keyFile, stored, patches, registry, policies, trusted, secrets, changes,
                 failures>>

(* An entry that is gone by now is taken from the index with the next      *)
(* command, whoever put it there meanwhile. *)
ReadRecord(c) ==
  /\ tasks[c].at = "records"
  /\ Go(c, IF trusted[tasks[c].tenant] = NoScope THEN "prune" ELSE "index")
  /\ UNCHANGED <<keyFile, stored, patches, registry, policies, trusted, index, secrets,
                 changes, failures>>

Prune(c) ==
  /\ tasks[c].at = "prune"
  /\ index' = [index EXCEPT ![tasks[c].tenant] = "out"]
  /\ Go(c, "index")
  /\ UNCHANGED <<keyFile, stored, patches, registry, policies, trusted, secrets, changes,
                 failures>>

Listed(c) ==
  /\ tasks[c].at = "index" /\ tasks[c].todo = {}
  /\ Answer(c, "200")
  /\ UNCHANGED <<keyFile, stored, patches, registry, policies, trusted, index, secrets,
                 changes, failures>>

(* The term of an entry ends. *)
Expire(s) ==
  /\ changes < MaxChanges /\ changes' = changes + 1
  /\ trusted[s] # NoScope
  /\ trusted' = [trusted EXCEPT ![s] = NoScope]
  /\ index' = [index EXCEPT ![s] = IF @ = "in" THEN "late" ELSE @]
  /\ UNCHANGED <<keyFile, stored, patches, registry, policies, secrets, tasks, failures>>

(* A command of Redis fails: the handler answers 500, whatever it did      *)
(* before. *)
CommandFails(c) ==
  /\ tasks[c].at \in {"look", "put", "delete", "patch", "add", "drop", "unlist", "scan",
                      "index", "records", "prune"}
  /\ failures < MaxFailures /\ failures' = failures + 1
  /\ Failed(c)
  /\ UNCHANGED <<keyFile, stored, patches, registry, policies, trusted, index, secrets,
                 changes>>

Reload(t) ==
  ReadFile(t) \/ FetchKeys(t) \/ AssignKeys(t) \/ FetchPolicies(t) \/ AssignPolicies(t)

Handle(c) ==
  \/ Look(c) \/ Put(c) \/ Delete(c) \/ Patch(c) \/ Trust(c) \/ Drop(c) \/ Unlist(c)
  \/ ScanIndexes(c) \/ ReadIndex(c) \/ ReadRecord(c) \/ Prune(c) \/ Listed(c)

AccessNext ==
  \/ \E g \in Gateways : Tick(g) \/ Restart(g)
  \/ EditFile
  \/ \E t \in Tasks : Reload(t)
  \/ \E c \in Calls : Start(c) \/ Handle(c) \/ CommandFails(c)
  \/ \E s \in Scopes : Expire(s)

(* The loop of a gateway sleeps and runs again, what has begun goes on.    *)
AccessSpec ==
  /\ AccessInit /\ [][AccessNext]_keyVars
  /\ \A g \in Gateways : WF_keyVars(Tick(g))
  /\ \A t \in Tasks : WF_keyVars(Reload(t))

-----------------------------------------------------------------------------
(* Properties *)

Codes == {"", "200", "201", "204", "400", "401", "403", "404", "409", "500", "503", "lost"}

(* The types, and what a registry is made of (the dictionaries of keys.py  *)
(* and policy.py).                                                         *)
AccessTypeOK ==
  /\ keyFile \in KeyFiles
  /\ DOMAIN stored \subseteq KeyIds /\ DOMAIN patches \subseteq Owners
  /\ \A g \in Gateways : DOMAIN registry[g].keys \subseteq KeyIds
                        /\ DOMAIN policies[g] \subseteq Owners
  /\ trusted \in [Scopes -> Scopes \cup {Everything, NoScope}]
  /\ index \in [Scopes -> {"out", "in", "late"}]
  /\ \A t \in Tasks : tasks[t].answer \in Codes
  /\ changes \in 0..MaxChanges /\ failures \in 0..MaxFailures

(* Losing the store takes nobody's access away who is in the file          *)
(* (state.py: the file alone counts then, "so that losing Redis cuts       *)
(* nobody off, the administrator included"): a key that every version of   *)
(* the file holds is known to every gateway that can read the file,        *)
(* whatever the store answers or fails to.                                 *)
OutageKeepsTheFile ==
  \A g \in Gateways : ~registry[g].degraded =>
    \A k \in KeyIds :
      (\A f \in KeyFiles : f.readable => k \in DOMAIN Parse(f.keys))
        => k \in DOMAIN registry[g].keys

(* No sequence of calls makes an administrator: whoever has that right at  *)
(* a gateway is one in some file (issue_key writes keys of tenants), and   *)
(* none of them is a key of a site, which lies in the open (_parse).       *)
AdminsAreInTheFile ==
  \A g \in Gateways : \A k \in DOMAIN registry[g].keys : registry[g].keys[k].admin =>
    /\ ~registry[g].keys[k].public
    /\ \E f \in KeyFiles : k \in DOMAIN f.keys /\ f.keys[k] = registry[g].keys[k]

(* A file is trusted for a tenant because that tenant or an administrator  *)
(* said so, and for everybody because an administrator did (ops.py), also  *)
(* where a key was issued again for another tenant meanwhile.              *)
TrustIsOwn ==
  \A s \in Scopes : trusted[s] \in {NoScope, s, Everything}

(* Nobody gains or loses a right by the order in which keys are issued,        *)
(* revoked and reloaded and in which commands fail.                        *)
AccessInv == AccessTypeOK /\ OutageKeepsTheFile /\ AdminsAreInTheFile /\ TrustIsOwn

Converged(g) ==
  /\ registry[g] = MergedWith(Load(keyFile), stored)
  /\ policies[g] = Built(patches)

(* What is issued, revoked or set on one gateway, or written to the file,  *)
(* holds on each of them in the end, whichever reloads crossed and         *)
(* whichever commands failed on the way (_reload_loop).                    *)
EveryReplicaConverges ==
  \A g \in Gateways : <>[](tasks[g].at # "absent" => Converged(g))

(* docs/api.md and admin.py: a revocation holds at once.  It does not      *)
(* where a reload had read the store before: it assigns what it has read.  *)
RevokedIsRefused ==
  \A c \in Calls :
    LET k == tasks[c].key
    IN /\ tasks[c].op = "revoke" /\ tasks[c].answer = "204"
       /\ k \notin DOMAIN stored \cup DOMAIN keyFile.keys
      => \A g \in Gateways : k \notin DOMAIN registry[g].keys
=============================================================================
