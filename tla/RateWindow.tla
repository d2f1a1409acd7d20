------------------------------ MODULE RateWindow ------------------------------
(***************************************************************************)
(* How often one may call (RateLimiter of packages/vscommon/ratelimit.py,  *)
(* gateway_app/throttle.py and the rate of tickets in routes/scan.py): two *)
(* counters for each subject, that of this window and that of the one      *)
(* before, the latter weighted by how much of it the last minute still     *)
(* holds.  Refused calls count as well.                                    *)
(*                                                                         *)
(* A call reads the clock first and counts later: the commands wait for    *)
(* Redis, however long, and other calls are counted in between.  Time is   *)
(* in ticks, several to a second, since the windows are of the time and    *)
(* Retry-After is in whole seconds.  All gateways have one clock.          *)
(***************************************************************************)
EXTENDS Naturals, FiniteSets

CONSTANTS
  Clients,         \* whoever sends one call at a time
  TicketClients,   \* those of them that ask for tickets with a site's key
  Obedient,        \* those of them that wait as long as Retry-After says
  Keys,            \* key ids the gateway knows, public ones as well
  HeaderKey,       \* of each client the key id in its header, known or not
  TenantOf,        \* of each known key its tenant
  Limit,           \* of each subject its rate_limit_per_min or public_rate_limit_per_min
  Window,          \* ticks of a window
  Second,          \* ticks of a second
  LastTick,        \* where a run ends
  MaxCalls         \* of each subject the calls within a window

(* What a call counts for (_bucket_of, issue_ticket).  On the upload any   *)
(* known key id stands for its tenant, a public one too and before the     *)
(* signature is looked at; whoever has none shares one counter with all    *)
(* the others.  A site's tickets go by the site's key.  No tenant has a    *)
(* name of the other forms.                                                *)
Subject(c) ==
  IF c \in TicketClients THEN <<"public", HeaderKey[c]>>
  ELSE IF HeaderKey[c] \in Keys THEN <<"tenant", TenantOf[HeaderKey[c]]>>
  ELSE <<"unknown-key">>

Subjects == {Subject(c) : c \in Clients}

(* A limit of zero is none: such calls neither read the clock nor count,   *)
(* and are left out. *)
ASSUME RateAssumption ==
  /\ TicketClients \subseteq Clients /\ Obedient \subseteq Clients
  /\ Window \in Nat \ {0} /\ Second \in 1..Window /\ LastTick \in Nat
  /\ \A s \in Subjects : Limit[s] \in Nat \ {0}

VARIABLES
  now,
  counters,        \* rl:subject:bucket, with the tick its EXPIRE ends
  calling,         \* who has read the clock and waits for Redis
  reading,         \* what a client's last call read
  notBefore,       \* when the obedient may come again
  refusals,        \* history: how often in a row a client was refused
  asked,           \* history: calls counted for each subject, by bucket
  letIn,           \* history: those of them that were let in
  recent           \* history: the calls let in within the last window

rateVars == <<now, counters, calling, reading, notBefore, refusals, asked, letIn, recent>>

Ticks == 0..LastTick
Buckets == 0..(LastTick \div Window)

Bucket(t) == t \div Window
Elapsed(t) == t % Window

Unset == [count |-> 0, until |-> 0]

RateInit ==
  /\ now = 0
  /\ counters = [s \in Subjects |-> [b \in Buckets |-> Unset]]
  /\ calling = [c \in Clients |-> FALSE] /\ reading = [c \in Clients |-> 0]
  /\ notBefore = [c \in Clients |-> 0] /\ refusals = [c \in Clients |-> 0]
  /\ asked = [s \in Subjects |-> [b \in Buckets |-> 0]]
  /\ letIn = [s \in Subjects |-> [b \in Buckets |-> 0]]
  /\ recent = [s \in Subjects |-> {}]

(* Redis drops a key as its time ends. *)
Tick ==
  /\ now < LastTick /\ now' = now + 1
  /\ counters' = [s \in Subjects |-> [b \in Buckets |->
       IF now' < counters[s][b].until THEN counters[s][b] ELSE Unset]]
  /\ recent' = [s \in Subjects |-> {a \in recent[s] : now' - a.at < Window}]
  /\ UNCHANGED <<calling, reading, notBefore, refusals, asked, letIn>>

(* now = time.time() *)
Call(c) ==
  /\ ~calling[c] /\ asked[Subject(c)][Bucket(now)] < MaxCalls[Subject(c)]
  /\ c \in Obedient => now >= notBefore[c]
  /\ calling' = [calling EXCEPT ![c] = TRUE]
  /\ reading' = [reading EXCEPT ![c] = now]
  /\ UNCHANGED <<now, counters, notBefore, refusals, asked, letIn, recent>>

Before(s, b) == IF b = 0 THEN 0 ELSE counters[s][b - 1].count

(* Mutant: the windows are fixed, the one before does not count. *)
ObservedFixed(s, t) == (counters[s][Bucket(t)].count + 1) * Window

(* What is observed with the call itself, times the length of the window. *)
Observed(s, t) ==
  Before(s, Bucket(t)) * (Window - Elapsed(t)) + (counters[s][Bucket(t)].count + 1) * Window

(* The whole seconds from t to the end of its window, max(1, int(...)). *)
WholeSeconds(t) == ((Window - Elapsed(t)) \div Second) * Second

(* Mutant: whoever is refused is told to come back at once. *)
RetryNext(t) == 1

RetryAfter(t) == IF WholeSeconds(t) > Second THEN WholeSeconds(t) ELSE Second

Late(t) == Bucket(now) # Bucket(t)

LetIn(c) ==
  LET s == Subject(c)
      b == Bucket(reading[c])
  IN
  /\ letIn' = [letIn EXCEPT ![s][b] = @ + 1]
  /\ recent' = [recent EXCEPT ![s] = @ \cup
       {[at |-> now, late |-> Late(reading[c]), number |-> asked'[s][b]]}]
  /\ refusals' = [refusals EXCEPT ![c] = 0]
  /\ UNCHANGED notBefore

Refuse(c) ==
  /\ notBefore' = [notBefore EXCEPT ![c] =
       IF c \in Obedient THEN now + RetryAfter(reading[c]) ELSE 0]
  /\ refusals' = [refusals EXCEPT ![c] = @ + 1]
  /\ UNCHANGED <<letIn, recent>>

(* The pipeline, of one transaction: INCR and EXPIRE of the window that    *)
(* was read, GET of the one before it. *)
Answer(c) ==
  LET s == Subject(c)
      b == Bucket(reading[c])
  IN
  /\ calling[c]
  /\ counters' = [counters EXCEPT ![s][b] =
       [count |-> @.count + 1, until |-> now + 2 * Window]]
  /\ asked' = [asked EXCEPT ![s][b] = @ + 1]
  /\ \/ Observed(s, reading[c]) > Limit[s] * Window /\ Refuse(c)
     \/ Observed(s, reading[c]) <= Limit[s] * Window /\ LetIn(c)
  /\ calling' = [calling EXCEPT ![c] = FALSE]
  /\ UNCHANGED <<now, reading>>

RateNext == Tick \/ \E c \in Clients : Call(c) \/ Answer(c)

RateSpec == RateInit /\ [][RateNext]_rateVars

-----------------------------------------------------------------------------
(* Properties *)

(* The types. *)
RateTypeOK ==
  /\ now \in Ticks
  /\ counters \in [Subjects -> [Buckets -> [count : Nat, until : Nat]]]
  /\ calling \in [Clients -> BOOLEAN] /\ reading \in [Clients -> 0..now]
  /\ notBefore \in [Clients -> 0..(LastTick + Window)]
  /\ asked \in [Subjects -> [Buckets -> Nat]] /\ letIn \in [Subjects -> [Buckets -> Nat]]
  /\ \A s \in Subjects : \A a \in recent[s] : a.at \in 0..now /\ now - a.at < Window

RecentSince(s, from) == {a \in recent[s] : a.at >= from}

(* Where one window meets the next there is no double burst (RateLimiter): *)
(* in any stretch shorter than a window no more is let in than the limit   *)
(* and the share of it that the stretch is of a window, and those that     *)
(* were under way as a window ended and counted late, in one that calls    *)
(* counted before them did not see so full.                                *)
NoDoubleBurst ==
  \A s \in Subjects, from \in 0..now : now - from < Window =>
    LET all == RecentSince(s, from)
    IN  Cardinality(all) * Window <=
          Limit[s] * (Window + now - from) + Cardinality({a \in all : a.late}) * Window

(* They are no way around the limit: whenever its calls are counted, a     *)
(* window lets in no more than that, as long as its counter lives.         *)
WindowKeepsLimit ==
  \A s \in Subjects, b \in Buckets : now < (b + 2) * Window => letIn[s][b] <= Limit[s]

(* Nobody is refused for what is long gone or was never asked: whose last  *)
(* call was refused, there were more calls than the limit in the window    *)
(* it was made in and the one before, for the same tenant, the same site   *)
(* or without a known key (docs/api.md: neighbours do not count).          *)
RefusalsAreEarned ==
  \A c \in Clients : refusals[c] > 0 /\ ~calling[c] =>
    LET own == asked[Subject(c)]
        b == Bucket(reading[c])
    IN  own[b] + (IF b = 0 THEN 0 ELSE own[b - 1]) > Limit[Subject(c)]

(* The limit is kept at the seam of two windows but for calls under way,   *)
(* and refusals have their reason.                                         *)
RateInv == RateTypeOK /\ NoDoubleBurst /\ WindowKeepsLimit /\ RefusalsAreEarned

Alone(c) == \A d \in Clients \ {c} : Subject(d) # Subject(c)

(* A client with a counter of its own who waits as long as it was told     *)
(* (docs/api.md: Retry-After says after how many seconds to repeat) is     *)
(* refused four times in a row at most, where its limit is above two: a    *)
(* call that was refused counts, and rounding down sends it back into the  *)
(* last second of its window, so waiting no more than that must be enough  *)
(* to get below it.  Clients who share a counter can keep each other out.  *)
ObedientIsServed ==
  \A c \in Obedient : Alone(c) /\ Limit[Subject(c)] > 2 => refusals[c] <= 4
=============================================================================
