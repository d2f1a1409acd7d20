---------------------------- MODULE VerdictCache ----------------------------
(***************************************************************************)
(* One file that is sent again and again: the two halves of the cache, the *)
(* versions in their keys, the antivirus-only pass, the list of trusted    *)
(* files, while rules, weights and signatures change under way.            *)
(* vscommon/cache.py and allowlist.py, gateway_app/ingest.py               *)
(* (_lookup_cache), worker_app/main.py (_store_cache, _reload_loop,        *)
(* _publish_engine_version), stages/clamav.py.                             *)
(*                                                                         *)
(* A configuration is the rules and the common weights on disk, by number; *)
(* how it gets loaded is RuleSet's business.  A version is what the worker *)
(* publishes: the configuration it has loaded, and whether the one rule    *)
(* that can be switched off is.  The half of the antivirus goes by the     *)
(* number of its database.  Commands to Redis that belong to one entry are *)
(* one step each.                                                          *)
(***************************************************************************)
EXTENDS Scoring, Sequences

CONSTANTS Tenants,
          PolicyOf,        \* [tenant -> policy]
          OverridesOf,     \* [tenant -> the scores it has of its own]
          ClaimsOf,        \* [tenant -> what its senders may say of the file: sets of codes]
          Structure,       \* what the file's structure shows: codes
          WeightsOf,       \* [configuration -> what the weights file says]
          MatchedBy,       \* [configuration -> codes its rules find in the file]
          Switchable,      \* the code of the rule that can be switched off
          KnownFrom,       \* the database that first has the signature
          AskedBy,         \* whose the first request may be, whose the second, ...
          MaxChanges, MaxFaults

Configurations == DOMAIN WeightsOf
Databases == 1 .. MaxChanges + 1
Versions == [config : Configurations, off : BOOLEAN]
Unknown == [config |-> 0, off |-> FALSE]

(* What the antivirus says, and what describes the file itself. *)
AvCodes == {"AV_SIGNATURE_MATCH", "STAGE_FAILED"}
FileCodes == DOMAIN DefaultWeights \ (RequestDerivedCodes \cup AvCodes)

ASSUME VerdictCacheAssumption ==
  /\ MaxChanges \in Nat /\ MaxFaults \in Nat /\ KnownFrom \in Nat
  /\ Configurations = 1 .. MaxChanges + 1
  /\ MatchedBy \in [Configurations -> SUBSET FileCodes] /\ Structure \subseteq FileCodes
  /\ AskedBy \in Seq(SUBSET Tenants)
  /\ \A t \in Tenants : ClaimsOf[t] \subseteq SUBSET RequestDerivedCodes
  /\ "common" \notin Tenants   \* the name of the weights of nobody in particular

VARIABLES onDisk, switch, database,   \* what is to be used
          loaded, disabled, known,    \* what the worker uses, and believes
          shown, shownDb,             \* what Redis says of it
          reloader,                   \* the reload loop
          structural, antivirus,      \* the two levels of the cache
          copies, trusted,            \* artifacts in the store; the list
          request, scan, answer,
          steady,                     \* nothing changed since the scan began
          changes, faults

world == <<onDisk, switch, database>>
engine == <<loaded, disabled, known>>
published == <<shown, shownDb>>
levels == <<structural, antivirus>>
stores == <<levels, copies, trusted>>
cacheVars == <<world, engine, published, reloader, stores, request, scan,
               answer, steady, changes, faults>>

\* Mutant: a tenant with scores of its own shares the entry of the others.
SharedKey(tenant) == "default"

Version == [config |-> loaded, off |-> disabled]
WeightsKey(tenant) == IF DOMAIN OverridesOf[tenant] = {} THEN "default" ELSE tenant
Keys == {WeightsKey(t) : t \in Tenants}
CommonWeights(config) == LoadTable(WeightsOf[config])
(* What a scan is weighed by: a configuration, and whose weights. *)
Tables == Configurations \X (Tenants \cup {"common"})
WeightsFor == [w \in Tables |->
  IF w[2] = "common" THEN CommonWeights(w[1])
  ELSE WithOverrides(CommonWeights(w[1]), OverridesOf[w[2]])]

NoHalf == [facts |-> NoFacts, artifact |-> 0, made |-> FALSE,
           whole |-> FALSE, steady |-> FALSE, avFailed |-> FALSE]
NoScan == [step |-> "none"]
NoAnswer == [from |-> "nothing"]

CacheInit ==
  /\ onDisk = 1 /\ switch = FALSE /\ database = 1
  /\ loaded = 1 /\ disabled = FALSE /\ known = 1
  /\ shown = Version /\ shownDb = 1 /\ reloader = "reload"
  /\ structural = [entry \in Versions \X Keys |-> NoHalf]
  /\ antivirus = [d \in Databases |-> NoHalf]
  /\ copies = {} /\ trusted = {}
  /\ request = [step |-> "none", number |-> 0] /\ scan = NoScan /\ answer = NoAnswer
  /\ steady = TRUE
  /\ changes = 0 /\ faults = 0

Trusted(tenant) == trusted \cap {tenant, "*"} # {}

-----------------------------------------------------------------------------
(* What people change *)

Change == changes < MaxChanges /\ changes' = changes + 1

EditConfig ==
  /\ Change /\ onDisk + 1 \in Configurations /\ onDisk' = onDisk + 1
  /\ UNCHANGED <<switch, database, engine, published, reloader, stores, request, scan, answer,
                 steady, faults>>

FlipSwitch ==
  /\ Change /\ switch' = ~switch
  /\ UNCHANGED <<onDisk, database, engine, published, reloader, stores, request, scan, answer,
                 faults, steady>>

UpdateDatabase ==
  /\ Change /\ database' = database + 1 /\ steady' = FALSE
  /\ UNCHANGED <<onDisk, switch, engine, published, reloader, stores, request, scan, answer,
                 faults>>

(* An entry of one tenant does not touch that of another. *)
Trust ==
  /\ Change
  /\ \E whom \in Tenants \cup {"*"} :
       trusted' = IF whom \in trusted THEN trusted \ {whom} ELSE trusted \cup {whom}
  /\ UNCHANGED <<world, engine, published, reloader, levels, copies, request, scan, answer,
                 faults, steady>>

ArtifactExpires ==
  /\ Change /\ \E n \in copies : copies' = copies \ {n}
  /\ UNCHANGED <<world, engine, published, reloader, levels, trusted, request, scan, answer,
                 faults, steady>>

-----------------------------------------------------------------------------
(* The reload loop *)

Reload ==
  /\ reloader = "reload"
  /\ loaded' = onDisk /\ known' = database
  /\ steady' = (steady /\ loaded' = loaded /\ known' = known)
  /\ reloader' = "control"
  /\ UNCHANGED <<world, disabled, published, stores, request, scan, answer, changes, faults>>

(* A list that cannot be read leaves the former one in force. *)
Control ==
  /\ reloader \in {"control", "starting"}
  /\ \/ disabled' = switch /\ UNCHANGED faults
     \/ faults < MaxFaults /\ faults' = faults + 1 /\ UNCHANGED disabled
  /\ steady' = (steady /\ disabled' = disabled)
  /\ reloader' = IF reloader = "control" THEN "publish" ELSE "reload"
  /\ UNCHANGED <<world, loaded, known, published, stores, request, scan, answer, changes>>

Publish ==
  /\ reloader = "publish"
  /\ shown' = Version /\ shownDb' = known
  /\ reloader' = "reload"
  /\ UNCHANGED <<world, engine, stores, request, scan, answer, steady, changes, faults>>

(* One error here ends the loop for good; the versions expire. *)
PublishFails ==
  /\ reloader = "publish" /\ faults < MaxFaults /\ faults' = faults + 1
  /\ reloader' = "dead"
  /\ UNCHANGED <<world, engine, published, stores, request, scan, answer, changes, steady>>

\* Mutant: the versions are written without a time to live.
VersionsStay ==
  /\ reloader = "dead" /\ shown # Unknown
  /\ UNCHANGED cacheVars

VersionsExpire ==
  /\ reloader = "dead" /\ shown # Unknown
  /\ shown' = Unknown /\ shownDb' = 0
  /\ UNCHANGED <<world, engine, reloader, stores, request, scan, answer, changes, faults,
                 steady>>

-----------------------------------------------------------------------------
(* The gateway *)

Ask ==
  /\ request.step = "none" /\ scan = NoScan /\ request.number < Len(AskedBy)
  /\ \E tenant \in AskedBy[request.number + 1] : \E claim \in ClaimsOf[tenant] :
       request' = [step |-> "structural", number |-> request.number + 1, tenant |-> tenant,
                   claim |-> claim, half |-> NoHalf, label |-> Unknown]
  /\ answer' = NoAnswer
  /\ UNCHANGED <<world, engine, published, reloader, stores, scan, changes, faults, steady>>

Forwarded == [request EXCEPT !.step = "forwarded"]

Job(half) ==
  [step |-> "start", tenant |-> request.tenant, claim |-> request.claim, cached |-> half,
   label |-> request.label]

(* The structural half, unless its artifact is gone. *)
LookStructural ==
  /\ request.step = "structural"
  /\ LET half == IF shown = Unknown THEN NoHalf
                 ELSE structural[<<shown, WeightsKey(request.tenant)>>]
         usable == half.made /\ (half.artifact = 0 \/ half.artifact \in copies)
     IN  IF usable
         THEN /\ request' = [request EXCEPT !.step = "antivirus", !.half = half,
                                             !.label = shown]
              /\ UNCHANGED scan
         ELSE request' = Forwarded /\ scan' = Job(NoHalf)
  /\ UNCHANGED <<world, engine, published, reloader, stores, answer, changes, faults, steady>>

CachedAv == IF shownDb = 0 THEN NoHalf ELSE antivirus[shownDb]
Assembled == Merge(request.half.facts, CachedAv.facts)
AssembledVerdict == VerdictOf(Assembled, PolicyOf[request.tenant])

(* The signatures are newer than the half: only the antivirus is to run. *)
AvHalfMissing ==
  /\ request.step = "antivirus" /\ ~CachedAv.made
  /\ request' = Forwarded /\ scan' = Job(request.half)
  /\ UNCHANGED <<world, engine, published, reloader, stores, answer, changes, faults, steady>>

(* What a full scan for the tenant would find, under a version and a database,
   if the sender says nothing of the file. *)
AllFindings(tenant, version, db) ==
  {Finding("any", c, RuleFor(WeightsFor[<<version.config, tenant>>], c)) :
     c \in Structure
           \cup (MatchedBy[version.config] \ (IF version.off THEN {Switchable} ELSE {}))
           \cup (IF db >= KnownFrom THEN {"AV_SIGNATURE_MATCH"} ELSE {})}

FullVerdict == [w \in Tenants \X Versions \X Databases |->
  VerdictOf([NoFacts EXCEPT !.findings = AllFindings(w[1], w[2], w[3])], PolicyOf[w[1]])]

(* The ghosts say what a full scan would answer, and of what scans the halves
   are. *)
Answer(verdict, artifact, lifted) ==
  [from |-> "cache", tenant |-> request.tenant, verdict |-> verdict, artifact |-> artifact,
   lifted |-> lifted, avFailed |-> CachedAv.avFailed,
   whole |-> request.half.whole /\ CachedAv.whole,
   steady |-> request.half.steady /\ CachedAv.steady,
   full |-> FullVerdict[<<request.tenant, request.label, shownDb>>]]

AnswerWith(verdict, artifact, lifted) ==
  /\ answer' = Answer(verdict, artifact, lifted)
  /\ request' = [request EXCEPT !.step = "none"]
  /\ UNCHANGED <<world, engine, published, reloader, stores, scan, changes, faults, steady>>

AnswerFromCache ==
  /\ request.step = "antivirus" /\ CachedAv.made
  /\ AssembledVerdict = "malicious" => ~Trusted(request.tenant)
  /\ AnswerWith(AssembledVerdict,
                IF AssembledVerdict = "malicious" THEN 0 ELSE request.half.artifact, FALSE)

LiftFromCache ==
  /\ request.step = "antivirus" /\ CachedAv.made
  /\ AssembledVerdict = "malicious" /\ Trusted(request.tenant) /\ request.half.artifact # 0
  /\ AnswerWith("suspicious", request.half.artifact, TRUE)

(* Nothing was rebuilt when the file was blocked: one full pass. *)
LiftByFullPass ==
  /\ request.step = "antivirus" /\ CachedAv.made
  /\ AssembledVerdict = "malicious" /\ Trusted(request.tenant) /\ request.half.artifact = 0
  /\ request' = Forwarded /\ scan' = Job(NoHalf)
  /\ UNCHANGED <<world, engine, published, reloader, stores, answer, changes, faults, steady>>

-----------------------------------------------------------------------------
(* The worker *)

Here(step) == scan.step = step
OwnPolicy == PolicyOf[scan.tenant]
RestOfWorker ==
  <<world, engine, published, reloader, stores, request, answer, steady, changes>>

AvOnlyScan == scan.cached.made /\ (scan.cached.artifact = 0 \/ scan.cached.artifact \in copies)

(* The weights are those of the moment the scan begins. *)
StartScan ==
  /\ Here("start") /\ reloader # "starting"
  /\ scan' = [step |-> IF AvOnlyScan THEN "clamav" ELSE "parse",
              tenant |-> scan.tenant, claim |-> scan.claim,
              cached |-> IF AvOnlyScan THEN scan.cached ELSE NoHalf,
              weights |-> <<loaded, IF AvOnlyScan THEN "common" ELSE scan.tenant>>,
              facts |-> NoFacts, whole |-> TRUE, artifact |-> 0, verdict |-> "error",
              lifted |-> FALSE, label |-> scan.label]
  /\ steady' = (known = database)
  /\ UNCHANGED <<world, engine, published, reloader, stores, request, answer, changes, faults>>

Found(facts, stage, codes) ==
  [facts EXCEPT !.findings =
     @ \cup {Finding(stage, c, RuleFor(WeightsFor[scan.weights], c)) : c \in codes \ Codes(@)}]

(* What a stage found, and the early end if that is enough to block. *)
After(facts, next) ==
  LET early == ~scan.cached.made /\ ShouldStopEarly(facts, OwnPolicy) IN
  [scan EXCEPT !.facts = facts, !.step = IF early THEN "decide" ELSE next,
               !.whole = @ /\ ~(early /\ next # "decide")]

Parse ==
  /\ Here("parse")
  /\ scan' = After(Found(Found(scan.facts, "filetype", scan.claim), "structure", Structure),
                   "clamav")
  /\ UNCHANGED <<RestOfWorker, faults>>

Signature == IF database >= KnownFrom THEN {"AV_SIGNATURE_MATCH"} ELSE {}

Clamav ==
  /\ Here("clamav")
  /\ scan' = After(Found(scan.facts, "clamav", Signature),
                   IF scan.cached.made THEN "decide" ELSE "yara")
  /\ UNCHANGED <<RestOfWorker, faults>>

(* clamd does not answer: a finding, and the stage is not complete. *)
ClamavFails ==
  /\ Here("clamav") /\ faults < MaxFaults /\ faults' = faults + 1
  /\ scan' = After([Found(scan.facts, "clamav", {"STAGE_FAILED"}) EXCEPT !.failed = {"clamav"}],
                   IF scan.cached.made THEN "decide" ELSE "yara")
  /\ UNCHANGED RestOfWorker

Matches == MatchedBy[loaded] \ (IF disabled THEN {Switchable} ELSE {})

Yara ==
  /\ Here("yara")
  /\ scan' = After(Found(scan.facts, "yara", Matches), "decide")
  /\ UNCHANGED <<RestOfWorker, faults>>

Total == IF scan.cached.made THEN Merge(scan.cached.facts, scan.facts) ELSE scan.facts

(* The verdict, the list of trusted files, and a rebuilt copy of what is not
   blocked; the antivirus-only pass has the copy it came with. *)
Decided(artifact) ==
  LET verdict == VerdictOf(Total, OwnPolicy)
      lifted == verdict = "malicious" /\ Trusted(scan.tenant)
      final == IF lifted THEN "suspicious" ELSE verdict
      builds == ~scan.cached.made /\ final \notin UnscannableVerdicts \cup {"malicious"}
  IN  [scan EXCEPT !.step = "store structural", !.verdict = final, !.lifted = lifted,
                   !.facts = Total,
                   !.artifact = IF builds THEN artifact
                                ELSE IF final = "malicious" THEN 0 ELSE scan.cached.artifact]

Decide ==
  /\ Here("decide")
  /\ scan' = Decided(request.number)
  /\ copies' = IF scan'.artifact # 0 /\ ~scan.cached.made THEN copies \cup {request.number}
               ELSE copies
  /\ UNCHANGED <<world, engine, published, reloader, levels, trusted, request, answer, changes,
                 faults, steady>>

\* Mutant: the parts that failed are not kept.
AvPartAlone(facts) == [NoFacts EXCEPT !.findings = {f \in facts.findings : f.stage = "clamav"}]

StructuralPart(facts) ==
  [facts EXCEPT !.findings = {f \in @ : f.stage # "clamav" /\ f.code \notin RequestDerivedCodes},
                !.failed = @ \ {"clamav"}]
AvPart(facts) ==
  [NoFacts EXCEPT !.findings = {f \in facts.findings : f.stage = "clamav"},
                  !.failed = facts.failed \cap {"clamav"}]

(* The keys are the versions of now.  The ghosts say whose the half is,
   whether every stage ran, and whether nothing changed meanwhile. *)
StoreStructural ==
  /\ Here("store structural")
  /\ structural' = [structural EXCEPT ![<<Version, WeightsKey(scan.tenant)>>] =
       [facts |-> StructuralPart(scan.facts), artifact |-> scan.artifact, made |-> TRUE,
        whole |-> scan.whole /\ (scan.cached.made => scan.cached.whole),
        steady |-> steady /\ (scan.cached.made => scan.cached.steady /\ scan.label = Version),
        avFailed |-> FALSE]]
  /\ scan' = [scan EXCEPT !.step = "store av"]
  /\ UNCHANGED <<world, engine, published, reloader, antivirus, copies, trusted, request,
                 answer, changes, faults, steady>>

StoreAv ==
  /\ Here("store av")
  /\ antivirus' = [antivirus EXCEPT ![known] =
       [facts |-> AvPart(scan.facts), artifact |-> 0, made |-> TRUE,
        whole |-> scan.whole, steady |-> steady, avFailed |-> "clamav" \in scan.facts.failed]]
  /\ scan' = NoScan
  /\ request' = [request EXCEPT !.step = "none"]
  /\ answer' = [from |-> IF scan.cached.made THEN "antivirus" ELSE "scan",
                tenant |-> scan.tenant, verdict |-> scan.verdict,
                artifact |-> scan.artifact, lifted |-> scan.lifted]
  /\ UNCHANGED <<world, engine, published, reloader, structural, copies, trusted, changes,
                 faults, steady>>

(* The worker dies and starts: it loads what is on disk, publishes its version
   before it has read the switches, reads them, and takes the job again. *)
Restart ==
  /\ scan # NoScan \/ reloader = "dead"
  /\ faults < MaxFaults /\ faults' = faults + 1
  /\ loaded' = onDisk /\ known' = database /\ disabled' = FALSE
  /\ shown' = [config |-> onDisk, off |-> FALSE] /\ shownDb' = database
  /\ steady' = (known' = known /\ disabled' = disabled /\ loaded' = loaded)
  /\ reloader' = "starting"
  /\ scan' = IF scan = NoScan THEN NoScan
             ELSE [step |-> "start", tenant |-> scan.tenant, claim |-> scan.claim,
                   cached |-> scan.cached, label |-> scan.label]
  /\ UNCHANGED <<world, stores, request, answer, changes>>

-----------------------------------------------------------------------------
LoopStep == Reload \/ Control \/ Publish \/ PublishFails \/ VersionsExpire

Lookup == LookStructural \/ AvHalfMissing \/ AnswerFromCache \/ LiftFromCache \/ LiftByFullPass

ScanStep ==
  \/ StartScan \/ Parse \/ Clamav \/ ClamavFails \/ Yara \/ Decide
  \/ StoreStructural \/ StoreAv

CacheNext ==
  \/ EditConfig \/ FlipSwitch \/ UpdateDatabase \/ Trust \/ ArtifactExpires
  \/ LoopStep \/ Ask \/ Lookup \/ ScanStep \/ Restart

CacheSpec == CacheInit /\ [][CacheNext]_cacheVars

FairCacheSpec == CacheSpec /\ WF_cacheVars(LoopStep) /\ SF_cacheVars(Publish)

-----------------------------------------------------------------------------
(* Properties *)

(* Types. *)
CacheTypeOK ==
  /\ shown \in Versions \cup {Unknown} /\ known \in Databases /\ shownDb \in Databases \cup {0}
  /\ reloader \in {"starting", "reload", "control", "publish", "dead"}
  /\ \A v \in Versions, k \in Keys :
       \A f \in structural[<<v, k>>].facts.findings :
       f.code \in DOMAIN DefaultWeights \ RequestDerivedCodes /\ f.stage # "clamav"
  /\ \A d \in Databases : antivirus[d].facts.failed \subseteq {"clamav"}
  /\ copies \subseteq 1 .. Len(AskedBy)

FromTwoHalves == answer.from = "cache" /\ ~answer.avFailed /\ ~answer.lifted

(* An answer put together from two halves is the verdict that a full scan
   under the versions of their keys would give this tenant, though the halves
   were found for other tenants, with other thresholds, weights and claims
   (cache.py, assemble: the verdict is not taken from the cache).  This is so
   of halves of complete scans during which nothing was reloaded. *)
CachedAnswerIsFullVerdict ==
  FromTwoHalves /\ answer.whole /\ answer.steady => answer.verdict = answer.full

(* The same, wherever the scans of the halves ended. *)
CachedAnswerIsOwn ==
  FromTwoHalves /\ answer.steady => answer.verdict = answer.full

(* An antivirus that failed does not come out of the cache as a check that
   found nothing (main.py, _store_cache keeps the failed stages with the half
   they belong to), whatever half it is put together with. *)
CachedFailureIsNotClean ==
  answer.from = "cache" /\ answer.avFailed /\ PolicyOf[answer.tenant].failMode # "fail-open"
    => answer.verdict # "clean"

(* A blocked file has no copy, from wherever the answer is; and a copy that is
   given out of the cache was in the store when it was looked up. *)
BlockedHasNoCopy ==
  answer.from # "nothing" /\ answer.verdict = "malicious" => answer.artifact = 0

(* A file that is trusted is given as a copy (allowlist.py: "the file goes to
   CDR all the same, and the user gets a disarmed copy"), except by the
   antivirus-only pass over a half that was blocked. *)
TrustedGetsACopy ==
  answer.from \in {"cache", "scan"} /\ answer.lifted => answer.artifact # 0

(* An answer out of halves is as severe and as harmless as one of a scan: a
   failed antivirus counts, a blocked file has no copy, a trusted one has. *)
CacheInv == CacheTypeOK /\ CachedFailureIsNotClean /\ BlockedHasNoCopy /\ TrustedGetsACopy

(* The same of every answer. *)
LiftedGetsACopy ==
  answer.from # "nothing" /\ answer.lifted => answer.artifact # 0

(* The versions by which the gateway looks up come to be those of what is in
   use, or none: a loop that died leaves the cache cold, not stale
   (main.py, _publish_engine_version; state.py, rules_version). *)
StaleVersionsFade ==
  <>[](\/ shown = Unknown
       \/ shown = [config |-> onDisk, off |-> switch] /\ shownDb = database)
=============================================================================
