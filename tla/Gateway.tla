------------------------------ MODULE Gateway -------------------------------
(***************************************************************************)
(* The gateway: requests of the tenants' clients for a verdict on a file.  *)
(* Requests run concurrently and meet in Redis, one command at a time: in  *)
(* the claim that gives a file one scan, in the slots of the tenant, in    *)
(* the stream of jobs and in the channel of the result. The workers appear *)
(* by what they do to those keys; module Worker has the rest.              *)
(***************************************************************************)
EXTENDS Integers, FiniteSets

CONSTANTS
    Requests,      \* requests; the scan id a request may create has its name
    Tenants,
    Contents,      \* pairs of a sha256 and a profile
    TenantOf,      \* the tenant of a request's key
    ContentOf,     \* what a request uploads
    Limit,         \* policy.max_concurrent_scans, 0: none
    NoScan, NoTenant,
    LapseBudget    \* bound: keys whose time runs out or that are dropped

ASSUME OfAssumption == /\ TenantOf \in [Requests -> Tenants]
                       /\ ContentOf \in [Requests -> Contents]
ASSUME NoneAssumption == NoScan \notin Requests /\ NoTenant \notin Tenants
ASSUME LimitAssumption == Limit \in Nat
ASSUME BudgetAssumption == LapseBudget \in Nat

VARIABLES
    claim,     \* inflight:scan:<content>: the scan that checks it
    slots,     \* inflight:tenant:<tenant>: scans and when they took the slot
    aged,      \* scans whose slot became older than the limiter's stale_after_s
    job,       \* how far the workers are with a scan
    status,    \* scans with a stored status
    owner,     \* owner:<scan>
    verdicts,  \* contents whose verdict is cached
    listening, \* requests subscribed to the channel of their scan
    mail,      \* of these, the ones that got the signal
    pc,        \* where the handlers of the requests are
    scan,      \* the scan a request answers with
    reading,   \* the clock that a request read
    clock,     \* readings of the gateways' clocks
    lapses

redis == <<claim, slots, aged, owner, listening>>
worked == <<job, status, verdicts, mail>>
request == <<pc, scan, reading>>
vars == <<redis, worked, request, clock, lapses>>

-----------------------------------------------------------------------------
Scans == Requests

Ended == {"answered", "accepted", "refused", "failed"}
Places == Ended \cup
    {"lookup", "claim", "get", "claim_again", "get_again", "clock", "acquire",
     "shed", "unclaim", "publish", "own", "subscribe", "load", "wait"}

\* Where a request has the scan that it answers with.
Named == {"own", "subscribe", "load", "wait", "answered", "accepted"}

\* An entry of the sorted set: the member and its score.
Slot(s, at) == [scan |-> s, at |-> at]
Slots == [scan : Scans, at : Nat]

HandlersTypeOK ==
    /\ pc \in [Requests -> Places]
    /\ scan \in [Requests -> Scans \cup {NoScan}]
    /\ \A r \in Requests : pc[r] \in Named => scan[r] \in Scans
    /\ reading \in [Requests -> Nat]
RedisTypeOK ==
    /\ claim \in [Contents -> Scans \cup {NoScan}]
    /\ slots \in [Tenants -> SUBSET Slots] /\ aged \in SUBSET Scans
    /\ job \in [Scans -> {"none", "queued", "scanned", "stored", "signalled",
                          "closed"}]
    /\ status \in SUBSET Scans /\ verdicts \in SUBSET Contents
    /\ owner \in [Scans -> Tenants \cup {NoTenant}]
    /\ listening \in SUBSET Requests /\ mail \in SUBSET Requests
TypeOK == HandlersTypeOK /\ RedisTypeOK /\ clock \in Nat /\ lapses \in Nat

Init ==
    /\ claim = [c \in Contents |-> NoScan]
    /\ slots = [t \in Tenants |-> {}] /\ aged = {}
    /\ job = [s \in Scans |-> "none"] /\ status = {} /\ verdicts = {}
    /\ owner = [s \in Scans |-> NoTenant]
    /\ listening = {} /\ mail = {}
    /\ pc = [r \in Requests |-> "lookup"]
    /\ scan = [r \in Requests |-> NoScan]
    /\ reading = [r \in Requests |-> 0]
    /\ clock = 0 /\ lapses = 0

At(r, place) == pc[r] = place
Goto(r, place) ==
    pc' = [pc EXCEPT ![r] = place] /\ UNCHANGED <<scan, reading>>
GotoWith(r, place, s) ==
    /\ pc' = [pc EXCEPT ![r] = place]
    /\ scan' = [scan EXCEPT ![r] = s]
    /\ UNCHANGED reading

-----------------------------------------------------------------------------
(* ingest_upload: the cache.                                               *)

Lapse == lapses < LapseBudget /\ lapses' = lapses + 1

\* _lookup_cache. A missing copy and outdated antivirus bases are a miss as well.
Miss(r) ==
    /\ At(r, "lookup")
    /\ Goto(r, "claim")
    /\ UNCHANGED <<redis, worked, clock, lapses>>

\* The answer from the cache has a scan of its own, with a status and an owner.
Hit(r) ==
    /\ At(r, "lookup") /\ ContentOf[r] \in verdicts
    /\ GotoWith(r, "answered", r)
    /\ status' = status \cup {r}
    /\ owner' = [owner EXCEPT ![r] = TenantOf[r]]
    /\ UNCHANGED <<claim, slots, aged, listening, job, verdicts, mail, clock,
                   lapses>>

\* A content that the allowlist trusts since it was blocked has no copy: the
\* claim is dropped and the file scanned again.
Rescan(r) ==
    /\ At(r, "lookup") /\ ContentOf[r] \in verdicts
    /\ Lapse
    /\ claim' = [claim EXCEPT ![ContentOf[r]] = NoScan]
    /\ Goto(r, "claim")
    /\ UNCHANGED <<slots, aged, owner, listening, worked, clock>>

Lookup(r) == Miss(r) \/ Hit(r) \/ Rescan(r)

-----------------------------------------------------------------------------
(* ScanRegistry.claim.                                                     *)

Claimed(r) == claim[ContentOf[r]] # NoScan

\* SET NX, the first time and when the key was gone at the GET.
Claim(r) ==
    /\ pc[r] \in {"claim", "claim_again"} /\ ~Claimed(r)
    /\ claim' = [claim EXCEPT ![ContentOf[r]] = r]
    /\ GotoWith(r, "clock", r)
    /\ UNCHANGED <<slots, aged, owner, listening, worked, clock, lapses>>

ClaimLost(r) ==
    /\ At(r, "claim") /\ Claimed(r)
    /\ Goto(r, "get")
    /\ UNCHANGED <<redis, worked, clock, lapses>>

ClaimAgainLost(r) ==
    /\ At(r, "claim_again") /\ Claimed(r)
    /\ Goto(r, "get_again")
    /\ UNCHANGED <<redis, worked, clock, lapses>>

\* Mutant: who finds a claim does not use it.
GetCandidate(r) ==
    /\ At(r, "get") /\ Claimed(r)
    /\ GotoWith(r, "clock", r)
    /\ UNCHANGED <<redis, worked, clock, lapses>>

\* A scan that is not the request's own makes it a duplicate.
Get(r) ==
    /\ pc[r] \in {"get", "get_again"} /\ Claimed(r)
    /\ GotoWith(r, "own", claim[ContentOf[r]])
    /\ UNCHANGED <<redis, worked, clock, lapses>>

\* The key's time ran out between SET and GET.
GetGone(r) ==
    /\ At(r, "get") /\ ~Claimed(r)
    /\ Goto(r, "claim_again")
    /\ UNCHANGED <<redis, worked, clock, lapses>>

\* Gone again: the candidate goes on without a claim.
GetAgainGone(r) ==
    /\ At(r, "get_again") /\ ~Claimed(r)
    /\ GotoWith(r, "clock", r)
    /\ UNCHANGED <<redis, worked, clock, lapses>>

-----------------------------------------------------------------------------
(* ConcurrencyLimiter.acquire.                                             *)

\* The clock is read before the pipeline is sent.
Clock(r) ==
    /\ At(r, "clock")
    /\ clock' = clock + 1
    /\ reading' = [reading EXCEPT ![r] = clock]
    /\ pc' = [pc EXCEPT ![r] = IF Limit = 0 THEN "publish" ELSE "acquire"]
    /\ UNCHANGED <<redis, worked, scan, lapses>>

Fresh(t) == {e \in slots[t] : e.scan \notin aged}
Rank(e, set) == Cardinality({f \in set : f.at < e.at})

\* Mutant: what is accepted is not entered.
AcquireUncounted(r) ==
    /\ At(r, "acquire")
    /\ Goto(r, "publish")
    /\ UNCHANGED <<redis, worked, clock, lapses>>

\* The pipeline: the stale are removed, the scan is added, its rank is read.
Acquire(r) ==
    /\ At(r, "acquire")
    /\ LET t == TenantOf[r]
           mine == Slot(r, reading[r])
           now == Fresh(t) \cup {mine}
       IN  /\ slots' = [slots EXCEPT ![t] = now]
           /\ pc' = [pc EXCEPT ![r] =
                       IF Rank(mine, now) < Limit THEN "publish" ELSE "shed"]
    /\ reading' = [reading EXCEPT ![r] = 0]
    /\ UNCHANGED <<claim, aged, owner, listening, worked, scan, clock, lapses>>

Without(s, t) == [slots EXCEPT ![t] = {e \in slots[t] : e.scan # s}]

Shed(r) ==
    /\ At(r, "shed")
    /\ slots' = Without(r, TenantOf[r])
    /\ Goto(r, "unclaim")
    /\ UNCHANGED <<claim, aged, owner, listening, worked, clock, lapses>>

\* ScanRegistry.release deletes the key, whoever set it.
Unclaim(r) ==
    /\ At(r, "unclaim")
    /\ claim' = [claim EXCEPT ![ContentOf[r]] = NoScan]
    /\ Goto(r, "refused")
    /\ UNCHANGED <<slots, aged, owner, listening, worked, clock, lapses>>

-----------------------------------------------------------------------------
(* The job and the answer.                                                 *)

\* Mutant: the job is not put into the stream.
PublishNothing(r) ==
    /\ At(r, "publish")
    /\ Goto(r, "own")
    /\ UNCHANGED <<redis, worked, clock, lapses>>

\* XADD.
Publish(r) ==
    /\ At(r, "publish")
    /\ job' = [job EXCEPT ![r] = "queued"]
    /\ Goto(r, "own")
    /\ UNCHANGED <<redis, status, verdicts, mail, clock, lapses>>

\* XADD raises. (A command that raises elsewhere leaves the keys as a handler
\* does that goes no further, and every handler may stop at any place.)
PublishRaises(r) ==
    /\ At(r, "publish")
    /\ Goto(r, "failed")
    /\ UNCHANGED <<redis, worked, clock, lapses>>

\* Ownership.claim, by duplicates too.
Own(r) ==
    /\ At(r, "own")
    /\ owner' = [owner EXCEPT ![scan[r]] = TenantOf[r]]
    /\ Goto(r, "subscribe")
    /\ UNCHANGED <<claim, slots, aged, listening, worked, clock, lapses>>

\* Mutant: the status is read before the subscription.
SubscribeLate(r) ==
    \/ /\ At(r, "subscribe") /\ scan[r] \in status /\ Goto(r, "answered")
       /\ UNCHANGED <<redis, worked, clock, lapses>>
    \/ /\ At(r, "subscribe") /\ scan[r] \notin status /\ Goto(r, "wait")
       /\ UNCHANGED <<redis, worked, clock, lapses>>

\* ResultChannel.wait, until the subscription is confirmed.
Subscribe(r) ==
    /\ At(r, "subscribe")
    /\ listening' = listening \cup {r}
    /\ Goto(r, "load")
    /\ UNCHANGED <<claim, slots, aged, owner, worked, clock, lapses>>

Leave(r, place) ==
    /\ listening' = listening \ {r} /\ mail' = mail \ {r}
    /\ Goto(r, place)
    /\ UNCHANGED <<claim, slots, aged, owner, job, status, verdicts, clock,
                   lapses>>

\* The look at the status after the subscription, and after the signal.
Answer(r) ==
    /\ \/ At(r, "load")
       \/ At(r, "wait") /\ r \in mail
    /\ scan[r] \in status
    /\ Leave(r, "answered")

\* A request with wait_ms = 0 does not wait, the others not for ever.
TurnAway(r) ==
    /\ \/ At(r, "load") /\ scan[r] \notin status
       \/ At(r, "wait")
    /\ Leave(r, "accepted")

Wait(r) ==
    /\ At(r, "load") /\ scan[r] \notin status
    /\ Goto(r, "wait")
    /\ UNCHANGED <<redis, worked, clock, lapses>>

RequestStep(r) ==
    \/ Lookup(r)
    \/ Claim(r) \/ ClaimLost(r) \/ ClaimAgainLost(r)
    \/ Get(r) \/ GetGone(r) \/ GetAgainGone(r)
    \/ Clock(r) \/ Acquire(r) \/ Shed(r) \/ Unclaim(r)
    \/ Publish(r) \/ PublishRaises(r) \/ Own(r)
    \/ Subscribe(r) \/ Answer(r) \/ TurnAway(r) \/ Wait(r)

-----------------------------------------------------------------------------
(* The workers, as the requests see them.                                  *)

\* The pipeline ends; an unreliable result is not cached.
Scanned(s) ==
    /\ job[s] = "queued"
    /\ job' = [job EXCEPT ![s] = "scanned"]
    /\ verdicts' \in {verdicts, verdicts \cup {ContentOf[s]}}
    /\ UNCHANGED <<redis, status, mail, request, clock, lapses>>

Listeners(s) == {r \in listening : scan[r] = s}

\* Mutant: the signal before the status.
StoreSignal(s) ==
    /\ job[s] = "scanned"
    /\ job' = [job EXCEPT ![s] = "stored"]
    /\ mail' = mail \cup Listeners(s)
    /\ UNCHANGED <<redis, status, verdicts, request, clock, lapses>>

\* ResultChannel.publish: the status first ...
Store(s) ==
    /\ job[s] = "scanned"
    /\ job' = [job EXCEPT ![s] = "stored"]
    /\ status' = status \cup {s}
    /\ UNCHANGED <<redis, verdicts, mail, request, clock, lapses>>

\* ... then the signal to whoever listens.
Signal(s) ==
    /\ job[s] = "stored"
    /\ job' = [job EXCEPT ![s] = "signalled"]
    /\ mail' = mail \cup Listeners(s)
    /\ UNCHANGED <<redis, status, verdicts, request, clock, lapses>>

ReleaseSlot(s) ==
    /\ job[s] = "signalled"
    /\ job' = [job EXCEPT ![s] = "closed"]
    /\ slots' = Without(s, TenantOf[s])
    /\ UNCHANGED <<claim, aged, owner, listening, status, verdicts, mail,
                   request, clock, lapses>>

WorkerStep(s) == Scanned(s) \/ Store(s) \/ Signal(s) \/ ReleaseSlot(s)

-----------------------------------------------------------------------------
(* Time.                                                                   *)

ClaimExpires(c) ==
    /\ Lapse
    /\ claim[c] # NoScan
    /\ claim' = [claim EXCEPT ![c] = NoScan]
    /\ UNCHANGED <<slots, aged, owner, listening, worked, request, clock>>

\* The older slots of a tenant are stale first.
SlotAges(t) ==
    /\ Lapse
    /\ \E e \in Fresh(t) :
          /\ \A f \in Fresh(t) : e.at <= f.at
          /\ aged' = aged \cup {e.scan}
    /\ UNCHANGED <<claim, slots, owner, listening, worked, request, clock>>

Next ==
    \/ \E r \in Requests : RequestStep(r)
    \/ \E s \in Scans : WorkerStep(s)
    \/ \E c \in Contents : ClaimExpires(c)
    \/ \E t \in Tenants : SlotAges(t)

Spec == Init /\ [][Next]_vars

-----------------------------------------------------------------------------
(* Properties.                                                             *)

\* Whoever waits for a signal that was sent has it: the subscription comes
\* before the look at the status, the status before the signal (wait, publish).
WakeupIsNotLost ==
    \A r \in Requests :
        At(r, "wait") /\ job[scan[r]] \in {"signalled", "closed"} => r \in mail

\* Who is woken finds the status (publish: "first the status, then the signal").
WokenReadsResult == \A r \in mail : scan[r] \in status

\* However the requests for a file interleave and stop, it has one job as long as
\* its claim neither expires nor is dropped. A second refusal may break this: a
\* request whose two SETs failed finds the claim of the second refused one gone
\* and goes on without one (ScanRegistry.claim).
Refused(c) == {r \in Requests : At(r, "refused") /\ ContentOf[r] = c}
Undisturbed(c) == lapses = 0 /\ \A r1, r2 \in Refused(c) : r1 = r2
Jobs(c) == {s \in Scans : job[s] # "none" /\ ContentOf[s] = c}
FileIsScannedOnce ==
    \A c \in Contents :
        Undisturbed(c) => \A s1, s2 \in Jobs(c) : s1 = s2

\* The tenant's slots count every scan that the workers are not done with,
\* until it is older than any scan should be.
RunningIsCounted ==
    \A s \in Scans :
        Limit > 0 /\ job[s] \in {"queued", "scanned", "stored", "signalled"}
            => s \in aged \/ \E e \in slots[TenantOf[s]] : e.scan = s

\* A request that is refused leaves neither a claim for others to wait for nor
\* a slot of its tenant (_dispatch).
RefusedLeavesNothing ==
    \A r \in Requests :
        At(r, "refused") => /\ claim[ContentOf[r]] # r
                            /\ \A e \in slots[TenantOf[r]] : e.scan # r

\* Who is told to come back later for a scan is told of a job in the stream,
\* unless the request that was to put it there is not there yet, was refused or
\* failed.
BeforePublish == {"clock", "acquire", "shed", "unclaim", "publish", "refused",
                  "failed"}
AcceptedHasJob ==
    \A r \in Requests :
        At(r, "accepted") => \/ job[scan[r]] # "none"
                             \/ pc[scan[r]] \in BeforePublish

\* Who is told to come back later may read the scan: "otherwise the client would
\* get a 202 and could not fetch its own scan" (_dispatch).
ClientOwnsItsScan ==
    \A r \in Requests : At(r, "accepted") => owner[scan[r]] = TenantOf[r]

\* No more than `limit` scans of a tenant have passed the limiter and are not
\* done, "even when the requests come at the same time" (acquire).
Running(t) == {s \in Scans : /\ TenantOf[s] = t
                             /\ job[s] \in {"queued", "scanned", "stored",
                                           "signalled"}}
LimitHolds == \A t \in Tenants : Cardinality(Running(t)) <= Limit

-----------------------------------------------------------------------------
(* What the properties rest on, place by place.                            *)

\* Requests that listen, and what they have in the mail.
SignalsFit ==
    /\ \A r \in Requests :
          r \in listening <=> pc[r] \in {"load", "wait"}
    /\ \A s \in Scans :
          job[s] \in {"stored", "signalled", "closed"} => s \in status
    /\ \A r \in mail :
          r \in listening /\ job[scan[r]] \in {"signalled", "closed"}
    /\ WakeupIsNotLost

\* Who is on the way to a job, or has one, answers with its own scan.
ScansFit ==
    \A r \in Requests :
        /\ pc[r] \in BeforePublish => scan[r] = r
        /\ job[r] # "none" => pc[r] \in Named

\* What is let in has its slot, what is not let in has none.
SlotsFit ==
    /\ \A r \in Requests :
          /\ At(r, "publish") /\ Limit > 0
                => r \in aged \/ \E e \in slots[TenantOf[r]] : e.scan = r
          /\ pc[r] \in {"unclaim", "refused"}
                => \A e \in slots[TenantOf[r]] : e.scan # r
    /\ RunningIsCounted

\* A claim, or an answer, is of a scan that has a job or may still get one.
Served(s) == job[s] # "none" \/ pc[s] \in BeforePublish
ClaimsFit ==
    /\ \A c \in Contents, s \in Scans :
          claim[c] = s => ContentOf[s] = c /\ Served(s) /\ ~At(s, "refused")
    /\ \A r \in Requests, s \in Scans :
          pc[r] \in Named \ {"answered"} /\ scan[r] = s => Served(s)

\* Undisturbed, the claim is of the request that the job comes from ...
Started(r) == job[r] # "none" \/ pc[r] \in BeforePublish \ {"refused", "failed"}
ClaimIsKept ==
    \A r \in Requests :
        Undisturbed(ContentOf[r]) /\ Started(r) => claim[ContentOf[r]] = r

\* ... and nobody finds it gone twice.
RefusedBefore(r) == \E q \in Requests : q \in Refused(ContentOf[r])
GoneOnce ==
    \A r \in Requests :
        /\ lapses = 0 /\ At(r, "get") /\ ~Claimed(r) => RefusedBefore(r)
        /\ lapses = 0 /\ pc[r] \in {"claim_again", "get_again"}
              => RefusedBefore(r)
        /\ Undisturbed(ContentOf[r]) /\ At(r, "get_again") => Claimed(r)

Inv == TypeOK /\ SignalsFit /\ ScansFit /\ SlotsFit /\ ClaimsFit /\ ClaimIsKept
       /\ GoneOnce

=============================================================================
