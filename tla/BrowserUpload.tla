---------------------------- MODULE BrowserUpload ----------------------------
(***************************************************************************)
(* A file that a visitor of a site sends from the browser: the frame of    *)
(* the widget and the page around it (gateway_app/widget: frame.html,      *)
(* loader.js), the ticket for one upload and the ticket to watch one scan  *)
(* (packages/vscommon/tickets.py), the day's quota of the key of the site  *)
(* (quota.py), and the routes between them (routes/scan.py, widget.py,     *)
(* auth.py, cors.py).                                                      *)
(*                                                                         *)
(* A choice is one file put into the frame; each starts a handler of its   *)
(* own, and nothing stops the handler of the choice before.  A direct      *)
(* upload is one by a script on the page of the site, with a ticket that   *)
(* the server of the site asked for or with one it got hold of.  A process *)
(* is either; its number names its ticket and its scan, too.               *)
(***************************************************************************)
EXTENDS Naturals, FiniteSets

CONSTANTS
  MaxChoice,       \* files a visitor chooses, one after the other
  Direct,          \* numbers of the direct uploads, above MaxChoice
  DailyTickets,    \* public_daily_tickets of the tenant, 0 for no limit
  PollLimit,       \* how often the frame asks how the scan went
  Days,            \* days that the run may reach
  MaxTroubles      \* commands and requests lost, terms and days over, keys revoked

ASSUME BrowserAssumption ==
  /\ MaxChoice \in Nat /\ DailyTickets \in Nat /\ PollLimit \in Nat
  /\ Days \in Nat \ {0} /\ MaxTroubles \in Nat
  /\ Direct \subseteq Nat /\ Direct \cap 0..MaxChoice = {}

Choices == 1..MaxChoice
Processes == Choices \cup Direct
NoFile == 0

VARIABLES
  live,            \* the keys in the registry: that of the site, that of its server
  day, spent,      \* the day, and the counter of tickets for each
  passed, excused, \* history: how many the quota let pass, how many uncounted
  place,           \* of each process, where it is
  tickets,         \* ticket:*, those that nobody used
  shown,           \* the ticket that a process presents
  opened,          \* history: how many uploads a ticket opened
  scans,           \* the state of the scan of a process
  watch, owners,   \* status-ticket:* and owner:*, by scan
  polls,           \* how often the frame has asked
  frame,           \* whether the frame is loaded, with its mode
  input, display,  \* the file in the frame, and what the visitor sees
  field, state,    \* the two hidden fields of the form
  troubles

redisVars == <<day, spent, passed, excused, tickets, opened, scans, watch, owners>>
pageVars == <<input, display, field, state>>
browserVars == <<live, redisVars, place, shown, polls, frame, pageVars, troubles>>

(* The key that a ticket was issued to, part of the record. *)
KeyOf(ticket) == IF ticket \in Choices THEN "site" ELSE "server"

Outcomes == {"clean", "malicious", "failed"}

BrowserInit ==
  /\ live = {"site", "server"}
  /\ day = 1 /\ spent = [d \in 1..Days |-> 0]
  /\ passed = [d \in 1..Days |-> 0] /\ excused = [d \in 1..Days |-> 0]
  /\ place = [p \in Processes |-> "none"]
  /\ tickets = {}
  /\ shown = [p \in Processes |-> 0] /\ opened = [p \in Processes |-> 0]
  /\ scans = [p \in Processes |-> "none"]
  /\ watch = {} /\ owners = {}
  /\ polls = [p \in Processes |-> 0]
  /\ frame = "none" /\ input = NoFile /\ display = "" /\ field = NoFile /\ state = ""
  /\ troubles = 0

Go(p, there) == place' = [place EXCEPT ![p] = there]

Trouble == troubles < MaxTroubles /\ troubles' = troubles + 1

-----------------------------------------------------------------------------
(* The page.  Only a message that comes with a scan fills the field, every *)
(* other one empties it.                                                   *)

Tell(type, scan) ==
  /\ state' = type
  /\ field' = IF type \in {"checked", "pending"} THEN scan ELSE NoFile

(* The document of the frame, for a site whose key is in force; how it     *)
(* treats a file that could not be checked comes with it. *)
LoadFrame ==
  /\ frame = "none"
  /\ IF "site" \in live
       THEN frame' \in {"block", "mark"} /\ Tell("ready", NoFile)
       ELSE frame' = "refused" /\ UNCHANGED <<field, state>>
  /\ UNCHANGED <<live, redisVars, place, shown, polls, input, display, troubles>>

(* A new file: the handler of the one before goes on. *)
Choose(c) ==
  /\ frame \in {"block", "mark"}
  /\ place[c] = "none" /\ \A b \in Choices : b < c => place[b] # "none"
  /\ input' = c /\ display' = "busy" /\ Tell("busy", NoFile)
  /\ Go(c, "ask")
  /\ UNCHANGED <<live, redisVars, shown, polls, frame, troubles>>

(* The visitor takes the file back: the handler returns at once. *)
Clear ==
  /\ Trouble
  /\ input # NoFile
  /\ input' = NoFile
  /\ UNCHANGED <<live, redisVars, place, shown, polls, frame, display, field, state>>

(* What the visitor sees of a file that was not checked, and whether the   *)
(* site may take it. *)
Unchecked ==
  /\ Tell("unchecked", NoFile) /\ display' = "unchecked"
  /\ input' = IF frame = "block" THEN NoFile ELSE input

(* Mutant: everything that is not malicious counts as checked. *)
FinishUnlessBad(p, outcome) ==
  /\ Go(p, "told")
  /\ IF outcome = "malicious"
       THEN Tell("blocked", p) /\ display' = "blocked" /\ input' = NoFile
       ELSE Tell("checked", p) /\ display' = "checked" /\ UNCHANGED input

(* finish: three outcomes of a scan. *)
Finish(p, outcome) ==
  /\ Go(p, "told")
  /\ CASE outcome = "malicious" ->
            Tell("blocked", p) /\ display' = "blocked" /\ input' = NoFile
       [] outcome = "clean" ->
            Tell("checked", p) /\ display' = "checked" /\ UNCHANGED input
       [] OTHER -> Unchecked

(* A request of the handler came back with an error, or not at all. *)
Fails(p) ==
  /\ Go(p, "told")
  /\ IF p \in Choices THEN Unchecked ELSE UNCHANGED pageVars

-----------------------------------------------------------------------------
(* A ticket.  The frame asks from our own origin with the key of the site: *)
(* the rate (refused or not), the quota of the day, the ticket.            *)

(* require_site_key, then the rate of the key. *)
AskTicket(p) ==
  /\ place[p] = "ask"
  /\ \/ "site" \in live /\ Go(p, "count") /\ UNCHANGED pageVars
     \/ Fails(p)
  /\ UNCHANGED <<live, redisVars, shown, polls, frame, troubles>>

(* spend: INCRBY comes first and is not taken back. *)
CountTicket(p) ==
  /\ place[p] = "count"
  /\ spent' = [spent EXCEPT ![day] = @ + 1]
  /\ IF DailyTickets = 0 \/ spent'[day] <= DailyTickets
       THEN /\ passed' = [passed EXCEPT ![day] = @ + 1]
            /\ Go(p, "mint") /\ UNCHANGED pageVars
       ELSE Fails(p) /\ UNCHANGED passed
  /\ UNCHANGED <<live, day, excused, tickets, opened, scans, watch, owners, shown, polls,
                 frame, troubles>>

(* Without Redis the quota lets everybody pass. *)
CountFails(p) ==
  /\ place[p] = "count" /\ Trouble
  /\ passed' = [passed EXCEPT ![day] = @ + 1]
  /\ excused' = [excused EXCEPT ![day] = @ + 1]
  /\ Go(p, "mint")
  /\ UNCHANGED <<live, day, spent, tickets, opened, scans, watch, owners, shown, polls,
                 frame, pageVars>>

Mint(p) ==
  /\ place[p] = "mint"
  /\ tickets' = tickets \cup {p}
  /\ shown' = [shown EXCEPT ![p] = p]
  /\ Go(p, "redeem")
  /\ UNCHANGED <<live, day, spent, passed, excused, opened, scans, watch, owners, polls,
                 frame, pageVars, troubles>>

(* A direct upload begins: its site asks for a ticket with a signature, or *)
(* it brings one that was issued before, used or not.  The browser asks    *)
(* first whether the origin is one of a key in force. *)
Begin(p) ==
  /\ p \in Direct /\ place[p] = "none"
  /\ \/ "server" \in live /\ Go(p, "mint") /\ UNCHANGED shown
     \/ \E q \in Processes :
          /\ shown[q] # 0
          /\ shown' = [shown EXCEPT ![p] = shown[q]]
          /\ IF "site" \in live THEN Go(p, "redeem") ELSE Go(p, "told")
  /\ UNCHANGED <<live, redisVars, polls, frame, pageVars, troubles>>

-----------------------------------------------------------------------------
(* The upload *)

(* Mutant: the ticket is read and not taken. *)
RedeemKeeping(p) ==
  /\ place[p] = "redeem"
  /\ IF shown[p] \in tickets THEN Go(p, "lookup") /\ UNCHANGED pageVars ELSE Fails(p)
  /\ UNCHANGED <<live, redisVars, shown, polls, frame, troubles>>

(* GETDEL: of two uploads with one ticket the second finds nothing.        *)
Redeem(p) ==
  /\ place[p] = "redeem"
  /\ tickets' = tickets \ {shown[p]}
  /\ IF shown[p] \in tickets THEN Go(p, "lookup") /\ UNCHANGED pageVars ELSE Fails(p)
  /\ UNCHANGED <<live, day, spent, passed, excused, opened, scans, watch, owners, shown,
                 polls, frame, troubles>>

(* The key of the ticket must be in force by now, too; the ticket is gone  *)
(* either way. *)
LookupKey(p) ==
  /\ place[p] = "lookup"
  /\ IF KeyOf(shown[p]) \in live THEN Go(p, "ingest") /\ UNCHANGED pageVars ELSE Fails(p)
  /\ UNCHANGED <<live, redisVars, shown, polls, frame, troubles>>

(* A file too large, empty or one too many is refused after its ticket was *)
(* taken; another is answered at once, or its scan goes on.                *)
Ingest(p) ==
  /\ place[p] = "ingest"
  /\ \/ Fails(p) /\ UNCHANGED <<opened, scans, owners>>
     \/ /\ opened' = [opened EXCEPT ![shown[p]] = @ + 1]
        /\ owners' = owners \cup {p}
        /\ \/ \E outcome \in Outcomes :
                scans' = [scans EXCEPT ![p] = outcome] /\ Go(p, "answered")
           \/ scans' = [scans EXCEPT ![p] = "running"] /\ Go(p, "observe")
        /\ UNCHANGED pageVars
  /\ UNCHANGED <<live, day, spent, passed, excused, tickets, watch, shown, polls, frame,
                 troubles>>

(* 200, with the verdict. *)
Answered(p) ==
  /\ place[p] = "answered"
  /\ IF p \in Choices THEN Finish(p, scans[p]) ELSE Go(p, "told") /\ UNCHANGED pageVars
  /\ UNCHANGED <<live, redisVars, shown, polls, frame, troubles>>

(* 202, with a ticket to watch this scan. *)
Observe(p) ==
  /\ place[p] = "observe"
  /\ watch' = watch \cup {p}
  /\ IF p \in Choices
       THEN Go(p, "poll") /\ display' = "busy" /\ Tell("pending", p) /\ UNCHANGED input
       ELSE Go(p, "told") /\ UNCHANGED pageVars
  /\ UNCHANGED <<live, day, spent, passed, excused, tickets, opened, scans, owners, shown,
                 polls, frame, troubles>>

(* A request gets no answer, or one of its commands fails on the way.      *)
Lost(p) ==
  /\ place[p] \in {"ask", "mint", "redeem", "answered", "observe"} /\ Trouble
  /\ Fails(p)
  /\ UNCHANGED <<live, redisVars, shown, polls, frame>>

(* The frame no longer waits: the scan goes on, and the form may be sent.  *)
GiveUp(p) ==
  Go(p, "told") /\ display' = "pending" /\ Tell("pending", p) /\ UNCHANGED input

(* Mutant: attempts are not counted. *)
PollOnAndOn(p) ==
  /\ place[p] = "poll"
  /\ IF {p} \cap watch \cap owners = {} THEN GiveUp(p)
     ELSE IF scans[p] = "running" THEN UNCHANGED <<place, pageVars>>
     ELSE Finish(p, scans[p])
  /\ UNCHANGED <<live, redisVars, polls, shown, frame, troubles>>

(* await_result and status_by_ticket: the ticket and the owner must be     *)
(* there; before there is a status the scan goes on.                       *)
Poll(p) ==
  /\ place[p] = "poll"
  /\ polls' = [polls EXCEPT ![p] = IF @ < PollLimit THEN @ + 1 ELSE @]
  /\ IF polls[p] = PollLimit \/ {p} \cap watch \cap owners = {} THEN GiveUp(p)
     ELSE IF scans[p] = "running" THEN UNCHANGED <<place, pageVars>>
     ELSE Finish(p, scans[p])
  /\ UNCHANGED <<live, redisVars, shown, frame, troubles>>

(* A request of the frame that is lost while it polls is an exception that *)
(* nobody catches: the visitor sees a check in progress from then on.      *)
PollThrows(p) ==
  /\ place[p] = "poll" /\ polls[p] < PollLimit /\ Trouble
  /\ Go(p, "thrown")
  /\ UNCHANGED <<live, redisVars, shown, polls, frame, pageVars>>

-----------------------------------------------------------------------------
(* Around them *)

ScanEnds(p) ==
  /\ scans[p] = "running"
  /\ \E outcome \in Outcomes : scans' = [scans EXCEPT ![p] = outcome]
  /\ UNCHANGED <<live, day, spent, passed, excused, tickets, opened, watch, owners, place,
                 shown, polls, frame, pageVars, troubles>>

Revoke(key) ==
  /\ Trouble
  /\ key \in live /\ live' = live \ {key}
  /\ UNCHANGED <<redisVars, place, shown, polls, frame, pageVars>>

NextDay ==
  /\ Trouble
  /\ day < Days /\ day' = day + 1
  /\ UNCHANGED <<live, spent, passed, excused, tickets, opened, scans, watch, owners, place,
                 shown, polls, frame, pageVars>>

(* The terms of a ticket, of a ticket to watch and of an owner. *)
TicketExpires(p) ==
  /\ Trouble
  /\ p \in tickets /\ tickets' = tickets \ {p}
  /\ UNCHANGED <<live, day, spent, passed, excused, opened, scans, watch, owners, place,
                 shown, polls, frame, pageVars>>

ScanExpires(p) ==
  /\ Trouble
  /\ \/ p \in watch /\ watch' = watch \ {p} /\ UNCHANGED owners
     \/ p \in owners /\ owners' = owners \ {p} /\ UNCHANGED watch
  /\ UNCHANGED <<live, day, spent, passed, excused, tickets, opened, scans, place, shown,
                 polls, frame, pageVars>>

Handler(p) ==
  \/ AskTicket(p) \/ CountTicket(p) \/ Mint(p) \/ Redeem(p) \/ LookupKey(p) \/ Ingest(p)
  \/ Answered(p) \/ Observe(p) \/ Poll(p)

BrowserNext ==
  \/ LoadFrame \/ Clear \/ NextDay
  \/ \E c \in Choices : Choose(c)
  \/ \E k \in live : Revoke(k)
  \/ \E p \in Processes :
       \/ Begin(p) \/ Handler(p)
       \/ CountFails(p) \/ Lost(p) \/ PollThrows(p)
       \/ ScanEnds(p) \/ TicketExpires(p) \/ ScanExpires(p)

(* Each handler, once begun, takes its steps; the rest need not happen. *)
BrowserSpec ==
  /\ BrowserInit /\ [][BrowserNext]_browserVars
  /\ \A p \in Processes : WF_browserVars(Handler(p))

-----------------------------------------------------------------------------
(* Properties *)

Places == {"none", "ask", "count", "mint", "redeem", "lookup", "ingest", "answered",
           "observe", "poll", "told", "thrown"}

(* The types. *)
BrowserTypeOK ==
  /\ live \subseteq {"site", "server"} /\ day \in 1..Days
  /\ spent \in [1..Days -> 0..MaxChoice]
  /\ passed \in [1..Days -> Nat] /\ excused \in [1..Days -> Nat]
  /\ place \in [Processes -> Places] /\ shown \in [Processes -> Processes \cup {0}]
  /\ tickets \subseteq Processes /\ opened \in [Processes -> Nat]
  /\ scans \in [Processes -> Outcomes \cup {"none", "running"}]
  /\ watch \subseteq Processes /\ owners \subseteq Processes
  /\ polls \in [Processes -> 0..PollLimit]
  /\ frame \in {"none", "refused", "block", "mark"}
  /\ input \in {NoFile} \cup Choices /\ field \in {NoFile} \cup Choices
  /\ troubles \in 0..MaxTroubles

(* One ticket opens one upload, also where the page, or a script that got  *)
(* hold of the ticket, sends it twice at the same time (TicketStore).      *)
TicketOpensOnce == \A p \in Processes : opened[p] <= 1

(* On no day does the key of a site get more tickets than its quota,       *)
(* beyond those that Redis failed to count (DailyQuota.spend).             *)
QuotaHolds ==
  DailyTickets > 0 => \A d \in 1..Days : passed[d] <= DailyTickets + excused[d]

(* Tickets are as scarce as they are meant to be, whoever presents them.   *)
TicketInv == BrowserTypeOK /\ TicketOpensOnce /\ QuotaHolds

(* What the form would send is a scan that was accepted, and where it says *)
(* "checked" one that ended clean: a file nobody could check must not look *)
(* like one that was (contract.py), whichever handler speaks last.         *)
FieldIsVouched ==
  field # NoFile =>
    /\ state \in {"checked", "pending"}
    /\ scans[field] # "none"
    /\ state = "checked" => scans[field] = "clean"

(* Every choice ends with a word to the visitor, whether the scan ends or  *)
(* not, unless a request was lost while polling.                           *)
VisitorIsTold ==
  \A c \in Choices : place[c] = "ask" ~> place[c] \in {"told", "thrown"}

(* loader.js: blocked, not checked or in progress, the field is empty.  It *)
(* is not: the handler of the choice before fills it with its own scan.    *)
FieldIsOfTheLastFile ==
  \A c \in Choices :
    (place[c] # "none" /\ \A d \in Choices : d > c => place[d] = "none")
      => field \in {NoFile, c}
=============================================================================
