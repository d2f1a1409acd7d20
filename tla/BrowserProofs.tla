---------------------------- MODULE BrowserProofs -----------------------------
(***************************************************************************)
(* Proofs about BrowserUpload: tickets are as scarce as they are meant to  *)
(* be, and the hidden fields of the form never vouch for a file that did   *)
(* not pass, for any number of choices, direct uploads, days and troubles. *)
(* And about RateWindow: the rate of requests is kept at the seam of two   *)
(* windows, for windows of any length, any limits and any number of calls. *)
(***************************************************************************)
EXTENDS BrowserUpload, RateWindow, FiniteSetTheorems, TLAPS

(* Where a process is before its ticket is minted, and before its file is  *)
(* scanned. *)
Ticketless == {"none", "ask", "count", "mint"}
Unscanned == Ticketless \cup {"redeem", "lookup", "ingest"}

(* The choices that have been to the counter of the day. *)
Counted == {c \in Choices : place[c] \notin {"none", "ask", "count"}}

(* Whoever took a ticket and has not yet uploaded with it. *)
Holds(p, t) == place[p] \in {"lookup", "ingest"} /\ shown[p] = t

-----------------------------------------------------------------------------
(* The inductive invariant *)

(* A counter holds no more than there were visits to it, and lets nobody   *)
(* pass without a visit or an excuse. *)
CounterIsTrue ==
  \A d \in 1..Days :
    /\ spent[d] <= Cardinality(Counted)
    /\ passed[d] <= spent[d] + excused[d]

(* A direct upload asks for no quota and watches no scan. *)
DirectIsDirect == \A p \in Direct : place[p] \notin {"ask", "count", "poll", "thrown"}

(* A ticket is unknown to everybody until it is minted; then it is in the  *)
(* store, or one process holds it, or it opened an upload, or it is gone:  *)
(* one of them, never two. *)
TicketIsOne ==
  \A t \in Processes :
    /\ place[t] \in Ticketless =>
         shown[t] = 0 /\ opened[t] = 0 /\ t \notin tickets /\ \A p \in Processes : shown[p] # t
    /\ t \in tickets => opened[t] = 0 /\ \A p \in Processes : ~Holds(p, t)
    /\ \A p \in Processes : Holds(p, t) => opened[t] = 0
    /\ \A p, q \in Processes : Holds(p, t) /\ Holds(q, t) => p = q

(* Who presents a ticket has one. *)
TicketIsShown == \A p \in Processes : place[p] \in {"redeem", "lookup", "ingest"} => shown[p] # 0

(* A process has a scan once its file was accepted, and a verdict where it *)
(* was answered at once. *)
ScanIsThere ==
  \A p \in Processes :
    /\ place[p] \in Unscanned => scans[p] = "none"
    /\ place[p] \in {"answered", "observe", "poll"} => scans[p] # "none"
    /\ place[p] = "answered" => scans[p] \in Outcomes

BrowserIInv ==
  /\ BrowserTypeOK /\ CounterIsTrue /\ DirectIsDirect /\ TicketIsShown /\ TicketIsOne
  /\ ScanIsThere /\ QuotaHolds /\ TicketOpensOnce /\ FieldIsVouched

-----------------------------------------------------------------------------
(* The constants *)

LEMMA ProcessFacts ==
  /\ Choices \subseteq Processes /\ Direct \subseteq Processes /\ Processes \subseteq Nat
  /\ 0 \notin Processes /\ Choices \cap Direct = {}
  BY BrowserAssumption DEF Choices, Processes

LEMMA BoundFacts ==
  /\ MaxChoice \in Nat /\ DailyTickets \in Nat /\ PollLimit \in Nat
  /\ Days \in Nat \ {0} /\ MaxTroubles \in Nat
  BY BrowserAssumption

(* However many choices went to the counter, there are MaxChoice of them.  *)
LEMMA ChoicesAreFew ==
  ASSUME NEW S \in SUBSET Choices
  PROVE  IsFiniteSet(S) /\ Cardinality(S) \in 0..MaxChoice
  <1>1. IsFiniteSet(Choices) /\ Cardinality(Choices) = MaxChoice
    BY FS_Interval, BoundFacts DEF Choices
  <1>2. IsFiniteSet(S) /\ Cardinality(S) <= Cardinality(Choices)
    BY <1>1, FS_Subset
  <1> QED
    BY <1>1, <1>2, FS_CardinalityType

LEMMA OneMore ==
  ASSUME NEW S, NEW f \in [S -> Nat], NEW x \in S
  PROVE  [f EXCEPT ![x] = @ + 1] \in [S -> Nat]
  OBVIOUS

LEMMA CountedGrows ==
  ASSUME NEW S \in SUBSET Choices, NEW T \in SUBSET Choices, S \subseteq T
  PROVE  Cardinality(S) <= Cardinality(T)
  BY ChoicesAreFew, FS_Subset

LEMMA CountedGrowsByOne ==
  ASSUME NEW S \in SUBSET Choices, NEW c \in Choices \ S
  PROVE  Cardinality(S \cup {c}) = Cardinality(S) + 1
  BY ChoicesAreFew, FS_AddElement

-----------------------------------------------------------------------------
(* The steps *)

(* The types, in three parts; what the counter of a day may reach comes    *)
(* later.                                                                  *)
PageTypes ==
  /\ frame \in {"none", "refused", "block", "mark"}
  /\ input \in {NoFile} \cup Choices /\ field \in {NoFile} \cup Choices

ProcessTypes ==
  /\ place \in [Processes -> Places] /\ shown \in [Processes -> Processes \cup {0}]
  /\ scans \in [Processes -> Outcomes \cup {"none", "running"}]
  /\ polls \in [Processes -> 0..PollLimit]

TicketTypes ==
  /\ tickets \subseteq Processes /\ opened \in [Processes -> Nat]
  /\ watch \subseteq Processes /\ owners \subseteq Processes

CounterTypes ==
  /\ live \subseteq {"site", "server"} /\ day \in 1..Days
  /\ spent \in [1..Days -> Nat]
  /\ passed \in [1..Days -> Nat] /\ excused \in [1..Days -> Nat]

TypesButSpent ==
  PageTypes /\ ProcessTypes /\ TicketTypes /\ CounterTypes /\ troubles \in 0..MaxTroubles


LEMMA PageTypesNext ==
  ASSUME PageTypes, DirectIsDirect, [BrowserNext]_browserVars
  PROVE  PageTypes'
  <1>1. CASE LoadFrame
    BY <1>1 DEF LoadFrame, PageTypes, DirectIsDirect, NoFile, Tell, redisVars
  <1>2. CASE Clear
    BY <1>2 DEF Clear, PageTypes, DirectIsDirect, NoFile, Trouble, redisVars
  <1>3. CASE NextDay
    BY <1>3 DEF NextDay, PageTypes, DirectIsDirect, NoFile, Trouble, pageVars
  <1>4. ASSUME NEW c \in Choices, Choose(c) PROVE PageTypes'
    BY <1>4 DEF Choose, PageTypes, DirectIsDirect, NoFile, Go, Tell, redisVars
  <1>5. ASSUME NEW k \in live, Revoke(k) PROVE PageTypes'
    BY <1>5 DEF Revoke, PageTypes, DirectIsDirect, NoFile, Trouble, redisVars,
       pageVars
  <1>6. ASSUME NEW p \in Processes, Begin(p) PROVE PageTypes'
    BY <1>6 DEF Begin, PageTypes, DirectIsDirect, NoFile, Processes, Go,
       redisVars, pageVars
  <1>7. ASSUME NEW p \in Processes, AskTicket(p) PROVE PageTypes'
    BY <1>7 DEF AskTicket, PageTypes, DirectIsDirect, NoFile, Processes, Go,
       Tell, Fails, Unchecked, redisVars, pageVars
  <1>8. ASSUME NEW p \in Processes, CountTicket(p) PROVE PageTypes'
    BY <1>8 DEF CountTicket, PageTypes, DirectIsDirect, NoFile, Processes, Go,
       Tell, Fails, Unchecked, pageVars
  <1>9. ASSUME NEW p \in Processes, CountFails(p) PROVE PageTypes'
    BY <1>9 DEF CountFails, PageTypes, DirectIsDirect, NoFile, Processes, Go,
       Trouble, pageVars
  <1>10. ASSUME NEW p \in Processes, Mint(p) PROVE PageTypes'
    BY <1>10 DEF Mint, PageTypes, DirectIsDirect, NoFile, Processes, Go,
       pageVars
  <1>11. ASSUME NEW p \in Processes, Redeem(p) PROVE PageTypes'
    BY <1>11 DEF Redeem, PageTypes, DirectIsDirect, NoFile, Processes, Go,
       Tell, Fails, Unchecked, pageVars
  <1>12. ASSUME NEW p \in Processes, LookupKey(p) PROVE PageTypes'
    BY <1>12 DEF LookupKey, PageTypes, DirectIsDirect, NoFile, Processes, Go,
       Tell, Fails, Unchecked, redisVars, pageVars
  <1>13. ASSUME NEW p \in Processes, Ingest(p) PROVE PageTypes'
    BY <1>13 DEF Ingest, PageTypes, DirectIsDirect, NoFile, Processes, Go,
       Tell, Fails, Unchecked, pageVars
  <1>14. ASSUME NEW p \in Processes, Answered(p) PROVE PageTypes'
    BY <1>14 DEF Answered, PageTypes, DirectIsDirect, NoFile, Processes, Go,
       Tell, Unchecked, Finish, redisVars, pageVars
  <1>15. ASSUME NEW p \in Processes, Observe(p) PROVE PageTypes'
    BY <1>15 DEF Observe, PageTypes, DirectIsDirect, NoFile, Processes, Go,
       Tell, pageVars
  <1>16. ASSUME NEW p \in Processes, Poll(p) PROVE PageTypes'
    BY <1>16 DEF Poll, PageTypes, DirectIsDirect, NoFile, Processes, Go, Tell,
       Unchecked, Finish, GiveUp, redisVars, pageVars
  <1>17. ASSUME NEW p \in Processes, Lost(p) PROVE PageTypes'
    BY <1>17 DEF Lost, PageTypes, DirectIsDirect, NoFile, Processes, Go, Tell,
       Trouble, Fails, Unchecked, redisVars, pageVars
  <1>18. ASSUME NEW p \in Processes, PollThrows(p) PROVE PageTypes'
    BY <1>18 DEF PollThrows, PageTypes, DirectIsDirect, NoFile, Processes, Go,
       Trouble, redisVars, pageVars
  <1>19. ASSUME NEW p \in Processes, ScanEnds(p) PROVE PageTypes'
    BY <1>19 DEF ScanEnds, PageTypes, DirectIsDirect, NoFile, Processes,
       pageVars
  <1>20. ASSUME NEW p \in Processes, TicketExpires(p) PROVE PageTypes'
    BY <1>20 DEF TicketExpires, PageTypes, DirectIsDirect, NoFile, Processes,
       Trouble, pageVars
  <1>21. ASSUME NEW p \in Processes, ScanExpires(p) PROVE PageTypes'
    BY <1>21 DEF ScanExpires, PageTypes, DirectIsDirect, NoFile, Processes,
       Trouble, pageVars
  <1>22. CASE UNCHANGED browserVars
    BY <1>22 DEF browserVars, PageTypes, DirectIsDirect, NoFile, Processes,
       redisVars, pageVars
  <1> QED
    BY <1>1, <1>2, <1>3, <1>4, <1>5, <1>6, <1>7, <1>8, <1>9, <1>10, <1>11,
       <1>12, <1>13, <1>14, <1>15, <1>16, <1>17, <1>18, <1>19, <1>20, <1>21,
       <1>22 DEF BrowserNext, Handler

LEMMA ProcessTypesNext ==
  ASSUME ProcessTypes, [BrowserNext]_browserVars
  PROVE  ProcessTypes'
  <1>1. CASE LoadFrame
    BY <1>1, ProcessFacts, BoundFacts DEF LoadFrame, ProcessTypes, Places,
       Outcomes, Tell, redisVars
  <1>2. CASE Clear
    BY <1>2, ProcessFacts, BoundFacts DEF Clear, ProcessTypes, Places,
       Outcomes, Trouble, redisVars
  <1>3. CASE NextDay
    BY <1>3, ProcessFacts, BoundFacts DEF NextDay, ProcessTypes, Places,
       Outcomes, Trouble, pageVars
  <1>4. ASSUME NEW c \in Choices, Choose(c) PROVE ProcessTypes'
    BY <1>4, ProcessFacts, BoundFacts DEF Choose, ProcessTypes, Places,
       Outcomes, Go, Tell, redisVars
  <1>5. ASSUME NEW k \in live, Revoke(k) PROVE ProcessTypes'
    BY <1>5, ProcessFacts, BoundFacts DEF Revoke, ProcessTypes, Places,
       Outcomes, Trouble, redisVars, pageVars
  <1>6. ASSUME NEW p \in Processes, Begin(p) PROVE ProcessTypes'
    BY <1>6, ProcessFacts, BoundFacts DEF Begin, ProcessTypes, Places,
       Outcomes, Go, redisVars, pageVars
  <1>7. ASSUME NEW p \in Processes, AskTicket(p) PROVE ProcessTypes'
    BY <1>7, ProcessFacts, BoundFacts DEF AskTicket, ProcessTypes, Places,
       Outcomes, Go, Tell, Fails, Unchecked, redisVars, pageVars
  <1>8. ASSUME NEW p \in Processes, CountTicket(p) PROVE ProcessTypes'
    BY <1>8, ProcessFacts, BoundFacts DEF CountTicket, ProcessTypes, Places,
       Outcomes, Go, Tell, Fails, Unchecked, pageVars
  <1>9. ASSUME NEW p \in Processes, CountFails(p) PROVE ProcessTypes'
    BY <1>9, ProcessFacts, BoundFacts DEF CountFails, ProcessTypes, Places,
       Outcomes, Go, Trouble, pageVars
  <1>10. ASSUME NEW p \in Processes, Mint(p) PROVE ProcessTypes'
    BY <1>10, ProcessFacts, BoundFacts DEF Mint, ProcessTypes, Places,
       Outcomes, Go, pageVars
  <1>11. ASSUME NEW p \in Processes, Redeem(p) PROVE ProcessTypes'
    BY <1>11, ProcessFacts, BoundFacts DEF Redeem, ProcessTypes, Places,
       Outcomes, Go, Tell, Fails, Unchecked, pageVars
  <1>12. ASSUME NEW p \in Processes, LookupKey(p) PROVE ProcessTypes'
    BY <1>12, ProcessFacts, BoundFacts DEF LookupKey, ProcessTypes, Places,
       Outcomes, Go, Tell, Fails, Unchecked, redisVars, pageVars
  <1>13. ASSUME NEW p \in Processes, Ingest(p) PROVE ProcessTypes'
    BY <1>13, ProcessFacts, BoundFacts DEF Ingest, ProcessTypes, Places,
       Outcomes, Go, Tell, Fails, Unchecked, pageVars
  <1>14. ASSUME NEW p \in Processes, Answered(p) PROVE ProcessTypes'
    BY <1>14, ProcessFacts, BoundFacts DEF Answered, ProcessTypes, Places,
       Outcomes, Go, Tell, Unchecked, Finish, redisVars, pageVars
  <1>15. ASSUME NEW p \in Processes, Observe(p) PROVE ProcessTypes'
    BY <1>15, ProcessFacts, BoundFacts DEF Observe, ProcessTypes, Places,
       Outcomes, Go, Tell, pageVars
  <1>16. ASSUME NEW p \in Processes, Poll(p) PROVE ProcessTypes'
    BY <1>16, ProcessFacts, BoundFacts DEF Poll, ProcessTypes, Places,
       Outcomes, Go, Tell, Unchecked, Finish, GiveUp, redisVars, pageVars
  <1>17. ASSUME NEW p \in Processes, Lost(p) PROVE ProcessTypes'
    BY <1>17, ProcessFacts, BoundFacts DEF Lost, ProcessTypes, Places,
       Outcomes, Go, Tell, Trouble, Fails, Unchecked, redisVars, pageVars
  <1>18. ASSUME NEW p \in Processes, PollThrows(p) PROVE ProcessTypes'
    BY <1>18, ProcessFacts, BoundFacts DEF PollThrows, ProcessTypes, Places,
       Outcomes, Go, Trouble, redisVars, pageVars
  <1>19. ASSUME NEW p \in Processes, ScanEnds(p) PROVE ProcessTypes'
    BY <1>19, ProcessFacts, BoundFacts DEF ScanEnds, ProcessTypes, Places,
       Outcomes, pageVars
  <1>20. ASSUME NEW p \in Processes, TicketExpires(p) PROVE ProcessTypes'
    BY <1>20, ProcessFacts, BoundFacts DEF TicketExpires, ProcessTypes, Places,
       Outcomes, Trouble, pageVars
  <1>21. ASSUME NEW p \in Processes, ScanExpires(p) PROVE ProcessTypes'
    BY <1>21, ProcessFacts, BoundFacts DEF ScanExpires, ProcessTypes, Places,
       Outcomes, Trouble, pageVars
  <1>22. CASE UNCHANGED browserVars
    BY <1>22 DEF browserVars, ProcessTypes, Places, Outcomes, redisVars,
       pageVars
  <1> QED
    BY <1>1, <1>2, <1>3, <1>4, <1>5, <1>6, <1>7, <1>8, <1>9, <1>10, <1>11,
       <1>12, <1>13, <1>14, <1>15, <1>16, <1>17, <1>18, <1>19, <1>20, <1>21,
       <1>22 DEF BrowserNext, Handler

LEMMA TicketTypesNext ==
  ASSUME TicketTypes, ProcessTypes, TicketIsShown, [BrowserNext]_browserVars
  PROVE  TicketTypes'
  <1>1. CASE LoadFrame
    BY <1>1, ProcessFacts DEF LoadFrame, TicketTypes, ProcessTypes,
       TicketIsShown, redisVars
  <1>2. CASE Clear
    BY <1>2, ProcessFacts DEF Clear, TicketTypes, ProcessTypes, TicketIsShown,
       redisVars
  <1>3. CASE NextDay
    BY <1>3, ProcessFacts DEF NextDay, TicketTypes, ProcessTypes, TicketIsShown
  <1>4. ASSUME NEW c \in Choices, Choose(c) PROVE TicketTypes'
    BY <1>4, ProcessFacts DEF Choose, TicketTypes, ProcessTypes, TicketIsShown,
       redisVars
  <1>5. ASSUME NEW k \in live, Revoke(k) PROVE TicketTypes'
    BY <1>5, ProcessFacts DEF Revoke, TicketTypes, ProcessTypes, TicketIsShown,
       redisVars
  <1>6. ASSUME NEW p \in Processes, Begin(p) PROVE TicketTypes'
    BY <1>6, ProcessFacts DEF Begin, TicketTypes, ProcessTypes, TicketIsShown,
       redisVars
  <1>7. ASSUME NEW p \in Processes, AskTicket(p) PROVE TicketTypes'
    BY <1>7, ProcessFacts DEF AskTicket, TicketTypes, ProcessTypes,
       TicketIsShown, redisVars
  <1>8. ASSUME NEW p \in Processes, CountTicket(p) PROVE TicketTypes'
    BY <1>8, ProcessFacts DEF CountTicket, TicketTypes, ProcessTypes,
       TicketIsShown
  <1>9. ASSUME NEW p \in Processes, CountFails(p) PROVE TicketTypes'
    BY <1>9, ProcessFacts DEF CountFails, TicketTypes, ProcessTypes,
       TicketIsShown
  <1>10. ASSUME NEW p \in Processes, Mint(p) PROVE TicketTypes'
    BY <1>10, ProcessFacts DEF Mint, TicketTypes, ProcessTypes, TicketIsShown
  <1>11. ASSUME NEW p \in Processes, Redeem(p) PROVE TicketTypes'
    BY <1>11, ProcessFacts DEF Redeem, TicketTypes, ProcessTypes, TicketIsShown
  <1>12. ASSUME NEW p \in Processes, LookupKey(p) PROVE TicketTypes'
    BY <1>12, ProcessFacts DEF LookupKey, TicketTypes, ProcessTypes,
       TicketIsShown, redisVars
  <1>13. ASSUME NEW p \in Processes, Ingest(p) PROVE TicketTypes'
    <2>1. shown[p] \in Processes
      BY <1>13 DEF Ingest, ProcessTypes, TicketIsShown
    <2>2. opened' \in [Processes -> Nat]
      BY <1>13, <2>1, OneMore DEF Ingest, TicketTypes
    <2>3. owners' \subseteq Processes /\ UNCHANGED <<tickets, watch>>
      BY <1>13 DEF Ingest, TicketTypes
    <2> QED
      BY <2>2, <2>3 DEF TicketTypes
  <1>14. ASSUME NEW p \in Processes, Answered(p) PROVE TicketTypes'
    BY <1>14, ProcessFacts DEF Answered, TicketTypes, ProcessTypes,
       TicketIsShown, redisVars
  <1>15. ASSUME NEW p \in Processes, Observe(p) PROVE TicketTypes'
    BY <1>15, ProcessFacts DEF Observe, TicketTypes, ProcessTypes,
       TicketIsShown
  <1>16. ASSUME NEW p \in Processes, Poll(p) PROVE TicketTypes'
    BY <1>16, ProcessFacts DEF Poll, TicketTypes, ProcessTypes, TicketIsShown,
       redisVars
  <1>17. ASSUME NEW p \in Processes, Lost(p) PROVE TicketTypes'
    BY <1>17, ProcessFacts DEF Lost, TicketTypes, ProcessTypes, TicketIsShown,
       redisVars
  <1>18. ASSUME NEW p \in Processes, PollThrows(p) PROVE TicketTypes'
    BY <1>18, ProcessFacts DEF PollThrows, TicketTypes, ProcessTypes,
       TicketIsShown, redisVars
  <1>19. ASSUME NEW p \in Processes, ScanEnds(p) PROVE TicketTypes'
    BY <1>19, ProcessFacts DEF ScanEnds, TicketTypes, ProcessTypes,
       TicketIsShown
  <1>20. ASSUME NEW p \in Processes, TicketExpires(p) PROVE TicketTypes'
    BY <1>20, ProcessFacts DEF TicketExpires, TicketTypes, ProcessTypes,
       TicketIsShown
  <1>21. ASSUME NEW p \in Processes, ScanExpires(p) PROVE TicketTypes'
    BY <1>21, ProcessFacts DEF ScanExpires, TicketTypes, ProcessTypes,
       TicketIsShown
  <1>22. CASE UNCHANGED browserVars
    BY <1>22 DEF browserVars, TicketTypes, ProcessTypes, TicketIsShown,
       redisVars
  <1> QED
    BY <1>1, <1>2, <1>3, <1>4, <1>5, <1>6, <1>7, <1>8, <1>9, <1>10, <1>11,
       <1>12, <1>13, <1>14, <1>15, <1>16, <1>17, <1>18, <1>19, <1>20, <1>21,
       <1>22 DEF BrowserNext, Handler

LEMMA CounterTypesNext ==
  ASSUME CounterTypes, [BrowserNext]_browserVars
  PROVE  CounterTypes'
  <1>1. CASE LoadFrame
    BY <1>1, BoundFacts DEF LoadFrame, CounterTypes, redisVars
  <1>2. CASE Clear
    BY <1>2, BoundFacts DEF Clear, CounterTypes, redisVars
  <1>3. CASE NextDay
    BY <1>3, BoundFacts, SMTT(30) DEF NextDay, CounterTypes
  <1>4. ASSUME NEW c \in Choices, Choose(c) PROVE CounterTypes'
    BY <1>4, BoundFacts DEF Choose, CounterTypes, redisVars
  <1>5. ASSUME NEW k \in live, Revoke(k) PROVE CounterTypes'
    BY <1>5, BoundFacts DEF Revoke, CounterTypes, redisVars
  <1>6. ASSUME NEW p \in Processes, Begin(p) PROVE CounterTypes'
    BY <1>6, BoundFacts DEF Begin, CounterTypes, redisVars
  <1>7. ASSUME NEW p \in Processes, AskTicket(p) PROVE CounterTypes'
    BY <1>7, BoundFacts DEF AskTicket, CounterTypes, redisVars
  <1>8. ASSUME NEW p \in Processes, CountTicket(p) PROVE CounterTypes'
    BY <1>8, OneMore, SMTT(30) DEF CountTicket, CounterTypes
  <1>9. ASSUME NEW p \in Processes, CountFails(p) PROVE CounterTypes'
    BY <1>9, OneMore DEF CountFails, CounterTypes
  <1>10. ASSUME NEW p \in Processes, Mint(p) PROVE CounterTypes'
    BY <1>10, BoundFacts DEF Mint, CounterTypes
  <1>11. ASSUME NEW p \in Processes, Redeem(p) PROVE CounterTypes'
    BY <1>11, BoundFacts DEF Redeem, CounterTypes
  <1>12. ASSUME NEW p \in Processes, LookupKey(p) PROVE CounterTypes'
    BY <1>12, BoundFacts DEF LookupKey, CounterTypes, redisVars
  <1>13. ASSUME NEW p \in Processes, Ingest(p) PROVE CounterTypes'
    BY <1>13, BoundFacts DEF Ingest, CounterTypes
  <1>14. ASSUME NEW p \in Processes, Answered(p) PROVE CounterTypes'
    BY <1>14, BoundFacts DEF Answered, CounterTypes, redisVars
  <1>15. ASSUME NEW p \in Processes, Observe(p) PROVE CounterTypes'
    BY <1>15, BoundFacts DEF Observe, CounterTypes
  <1>16. ASSUME NEW p \in Processes, Poll(p) PROVE CounterTypes'
    BY <1>16, BoundFacts DEF Poll, CounterTypes, redisVars
  <1>17. ASSUME NEW p \in Processes, Lost(p) PROVE CounterTypes'
    BY <1>17, BoundFacts DEF Lost, CounterTypes, redisVars
  <1>18. ASSUME NEW p \in Processes, PollThrows(p) PROVE CounterTypes'
    BY <1>18, BoundFacts DEF PollThrows, CounterTypes, redisVars
  <1>19. ASSUME NEW p \in Processes, ScanEnds(p) PROVE CounterTypes'
    BY <1>19, BoundFacts DEF ScanEnds, CounterTypes
  <1>20. ASSUME NEW p \in Processes, TicketExpires(p) PROVE CounterTypes'
    BY <1>20, BoundFacts DEF TicketExpires, CounterTypes
  <1>21. ASSUME NEW p \in Processes, ScanExpires(p) PROVE CounterTypes'
    BY <1>21, BoundFacts DEF ScanExpires, CounterTypes
  <1>22. CASE UNCHANGED browserVars
    BY <1>22 DEF browserVars, CounterTypes, redisVars
  <1> QED
    BY <1>1, <1>2, <1>3, <1>4, <1>5, <1>6, <1>7, <1>8, <1>9, <1>10, <1>11,
       <1>12, <1>13, <1>14, <1>15, <1>16, <1>17, <1>18, <1>19, <1>20, <1>21,
       <1>22 DEF BrowserNext, Handler

LEMMA TroublesNext ==
  ASSUME troubles \in 0..MaxTroubles, [BrowserNext]_browserVars
  PROVE  troubles' \in 0..MaxTroubles
  <1>1. Trouble => troubles' \in 0..MaxTroubles
    BY BoundFacts DEF Trouble
  <1>2. Trouble \/ UNCHANGED troubles
    BY DEF BrowserNext, Handler, browserVars, LoadFrame, Clear, NextDay,
       Choose, Revoke, Begin, AskTicket, CountTicket, CountFails, Mint, Redeem,
       LookupKey, Ingest, Answered, Observe, Poll, Lost, PollThrows, ScanEnds,
       TicketExpires, ScanExpires
  <1> QED
    BY <1>1, <1>2

LEMMA DirectNext ==
  ASSUME ProcessTypes, DirectIsDirect, [BrowserNext]_browserVars
  PROVE  DirectIsDirect'
  <1>1. CASE LoadFrame
    BY <1>1, ProcessFacts DEF LoadFrame, ProcessTypes, DirectIsDirect, Tell,
       redisVars
  <1>2. CASE Clear
    BY <1>2, ProcessFacts DEF Clear, ProcessTypes, DirectIsDirect, Trouble,
       redisVars
  <1>3. CASE NextDay
    BY <1>3, ProcessFacts DEF NextDay, ProcessTypes, DirectIsDirect, Trouble,
       pageVars
  <1>4. ASSUME NEW c \in Choices, Choose(c) PROVE DirectIsDirect'
    BY <1>4, ProcessFacts DEF Choose, ProcessTypes, DirectIsDirect, Go, Tell,
       redisVars
  <1>5. ASSUME NEW k \in live, Revoke(k) PROVE DirectIsDirect'
    BY <1>5, ProcessFacts DEF Revoke, ProcessTypes, DirectIsDirect, Trouble,
       redisVars, pageVars
  <1>6. ASSUME NEW p \in Processes, Begin(p) PROVE DirectIsDirect'
    BY <1>6, ProcessFacts DEF Begin, ProcessTypes, DirectIsDirect, Go,
       redisVars, pageVars
  <1>7. ASSUME NEW p \in Processes, AskTicket(p) PROVE DirectIsDirect'
    BY <1>7, ProcessFacts DEF AskTicket, ProcessTypes, DirectIsDirect, Go,
       Tell, Fails, Unchecked, redisVars, pageVars
  <1>8. ASSUME NEW p \in Processes, CountTicket(p) PROVE DirectIsDirect'
    BY <1>8, ProcessFacts DEF CountTicket, ProcessTypes, DirectIsDirect, Go,
       Tell, Fails, Unchecked, pageVars
  <1>9. ASSUME NEW p \in Processes, CountFails(p) PROVE DirectIsDirect'
    BY <1>9, ProcessFacts DEF CountFails, ProcessTypes, DirectIsDirect, Go,
       Trouble, pageVars
  <1>10. ASSUME NEW p \in Processes, Mint(p) PROVE DirectIsDirect'
    BY <1>10, ProcessFacts DEF Mint, ProcessTypes, DirectIsDirect, Go, pageVars
  <1>11. ASSUME NEW p \in Processes, Redeem(p) PROVE DirectIsDirect'
    BY <1>11, ProcessFacts DEF Redeem, ProcessTypes, DirectIsDirect, Go, Tell,
       Fails, Unchecked, pageVars
  <1>12. ASSUME NEW p \in Processes, LookupKey(p) PROVE DirectIsDirect'
    BY <1>12, ProcessFacts DEF LookupKey, ProcessTypes, DirectIsDirect, Go,
       Tell, Fails, Unchecked, redisVars, pageVars
  <1>13. ASSUME NEW p \in Processes, Ingest(p) PROVE DirectIsDirect'
    BY <1>13, ProcessFacts DEF Ingest, ProcessTypes, DirectIsDirect, Go, Tell,
       Fails, Unchecked, pageVars
  <1>14. ASSUME NEW p \in Processes, Answered(p) PROVE DirectIsDirect'
    BY <1>14, ProcessFacts DEF Answered, ProcessTypes, DirectIsDirect, Go,
       Tell, Unchecked, Finish, redisVars, pageVars
  <1>15. ASSUME NEW p \in Processes, Observe(p) PROVE DirectIsDirect'
    BY <1>15, ProcessFacts DEF Observe, ProcessTypes, DirectIsDirect, Go, Tell,
       pageVars
  <1>16. ASSUME NEW p \in Processes, Poll(p) PROVE DirectIsDirect'
    BY <1>16, ProcessFacts DEF Poll, ProcessTypes, DirectIsDirect, Go, Tell,
       Unchecked, Finish, GiveUp, redisVars, pageVars
  <1>17. ASSUME NEW p \in Processes, Lost(p) PROVE DirectIsDirect'
    BY <1>17, ProcessFacts DEF Lost, ProcessTypes, DirectIsDirect, Go, Tell,
       Trouble, Fails, Unchecked, redisVars, pageVars
  <1>18. ASSUME NEW p \in Processes, PollThrows(p) PROVE DirectIsDirect'
    BY <1>18, ProcessFacts DEF PollThrows, ProcessTypes, DirectIsDirect, Go,
       Trouble, redisVars, pageVars
  <1>19. ASSUME NEW p \in Processes, ScanEnds(p) PROVE DirectIsDirect'
    BY <1>19, ProcessFacts DEF ScanEnds, ProcessTypes, DirectIsDirect, pageVars
  <1>20. ASSUME NEW p \in Processes, TicketExpires(p) PROVE DirectIsDirect'
    BY <1>20, ProcessFacts DEF TicketExpires, ProcessTypes, DirectIsDirect,
       Trouble, pageVars
  <1>21. ASSUME NEW p \in Processes, ScanExpires(p) PROVE DirectIsDirect'
    BY <1>21, ProcessFacts DEF ScanExpires, ProcessTypes, DirectIsDirect,
       Trouble, pageVars
  <1>22. CASE UNCHANGED browserVars
    BY <1>22 DEF browserVars, ProcessTypes, DirectIsDirect, redisVars, pageVars
  <1> QED
    BY <1>1, <1>2, <1>3, <1>4, <1>5, <1>6, <1>7, <1>8, <1>9, <1>10, <1>11,
       <1>12, <1>13, <1>14, <1>15, <1>16, <1>17, <1>18, <1>19, <1>20, <1>21,
       <1>22 DEF BrowserNext, Handler

LEMMA ScanNext ==
  ASSUME ProcessTypes, ScanIsThere, [BrowserNext]_browserVars
  PROVE  ScanIsThere'
  <1>1. CASE LoadFrame
    BY <1>1, ProcessFacts, BoundFacts DEF LoadFrame, ProcessTypes, ScanIsThere,
       Unscanned, Ticketless, Outcomes, Tell, redisVars
  <1>2. CASE Clear
    BY <1>2, ProcessFacts, BoundFacts DEF Clear, ProcessTypes, ScanIsThere,
       Unscanned, Ticketless, Outcomes, Trouble, redisVars
  <1>3. CASE NextDay
    BY <1>3, ProcessFacts, BoundFacts DEF NextDay, ProcessTypes, ScanIsThere,
       Unscanned, Ticketless, Outcomes, Trouble, pageVars
  <1>4. ASSUME NEW c \in Choices, Choose(c) PROVE ScanIsThere'
    BY <1>4, ProcessFacts, BoundFacts DEF Choose, ProcessTypes, ScanIsThere,
       Unscanned, Ticketless, Outcomes, Go, Tell, redisVars
  <1>5. ASSUME NEW k \in live, Revoke(k) PROVE ScanIsThere'
    BY <1>5, ProcessFacts, BoundFacts DEF Revoke, ProcessTypes, ScanIsThere,
       Unscanned, Ticketless, Outcomes, Trouble, redisVars, pageVars
  <1>6. ASSUME NEW p \in Processes, Begin(p) PROVE ScanIsThere'
    BY <1>6, ProcessFacts, BoundFacts DEF Begin, ProcessTypes, ScanIsThere,
       Unscanned, Ticketless, Outcomes, Go, redisVars, pageVars
  <1>7. ASSUME NEW p \in Processes, AskTicket(p) PROVE ScanIsThere'
    BY <1>7, ProcessFacts, BoundFacts DEF AskTicket, ProcessTypes, ScanIsThere,
       Unscanned, Ticketless, Outcomes, Go, Tell, Fails, Unchecked, redisVars,
       pageVars
  <1>8. ASSUME NEW p \in Processes, CountTicket(p) PROVE ScanIsThere'
    BY <1>8, ProcessFacts, BoundFacts DEF CountTicket, ProcessTypes,
       ScanIsThere, Unscanned, Ticketless, Outcomes, Go, Tell, Fails,
       Unchecked, pageVars
  <1>9. ASSUME NEW p \in Processes, CountFails(p) PROVE ScanIsThere'
    BY <1>9, ProcessFacts, BoundFacts DEF CountFails, ProcessTypes,
       ScanIsThere, Unscanned, Ticketless, Outcomes, Go, Trouble, pageVars
  <1>10. ASSUME NEW p \in Processes, Mint(p) PROVE ScanIsThere'
    BY <1>10, ProcessFacts, BoundFacts DEF Mint, ProcessTypes, ScanIsThere,
       Unscanned, Ticketless, Outcomes, Go, pageVars
  <1>11. ASSUME NEW p \in Processes, Redeem(p) PROVE ScanIsThere'
    BY <1>11, ProcessFacts, BoundFacts DEF Redeem, ProcessTypes, ScanIsThere,
       Unscanned, Ticketless, Outcomes, Go, Tell, Fails, Unchecked, pageVars
  <1>12. ASSUME NEW p \in Processes, LookupKey(p) PROVE ScanIsThere'
    BY <1>12, ProcessFacts, BoundFacts DEF LookupKey, ProcessTypes,
       ScanIsThere, Unscanned, Ticketless, Outcomes, Go, Tell, Fails,
       Unchecked, redisVars, pageVars
  <1>13. ASSUME NEW p \in Processes, Ingest(p) PROVE ScanIsThere'
    BY <1>13, ProcessFacts, BoundFacts DEF Ingest, ProcessTypes, ScanIsThere,
       Unscanned, Ticketless, Outcomes, Go, Tell, Fails, Unchecked, pageVars
  <1>14. ASSUME NEW p \in Processes, Answered(p) PROVE ScanIsThere'
    BY <1>14, ProcessFacts, BoundFacts DEF Answered, ProcessTypes, ScanIsThere,
       Unscanned, Ticketless, Outcomes, Go, Tell, Unchecked, Finish, redisVars,
       pageVars
  <1>15. ASSUME NEW p \in Processes, Observe(p) PROVE ScanIsThere'
    BY <1>15, ProcessFacts, BoundFacts DEF Observe, ProcessTypes, ScanIsThere,
       Unscanned, Ticketless, Outcomes, Go, Tell, pageVars
  <1>16. ASSUME NEW p \in Processes, Poll(p) PROVE ScanIsThere'
    BY <1>16, ProcessFacts, BoundFacts DEF Poll, ProcessTypes, ScanIsThere,
       Unscanned, Ticketless, Outcomes, Go, Tell, Unchecked, Finish, GiveUp,
       redisVars, pageVars
  <1>17. ASSUME NEW p \in Processes, Lost(p) PROVE ScanIsThere'
    BY <1>17, ProcessFacts, BoundFacts DEF Lost, ProcessTypes, ScanIsThere,
       Unscanned, Ticketless, Outcomes, Go, Tell, Trouble, Fails, Unchecked,
       redisVars, pageVars
  <1>18. ASSUME NEW p \in Processes, PollThrows(p) PROVE ScanIsThere'
    BY <1>18, ProcessFacts, BoundFacts DEF PollThrows, ProcessTypes,
       ScanIsThere, Unscanned, Ticketless, Outcomes, Go, Trouble, redisVars,
       pageVars
  <1>19. ASSUME NEW p \in Processes, ScanEnds(p) PROVE ScanIsThere'
    BY <1>19, ProcessFacts, BoundFacts DEF ScanEnds, ProcessTypes, ScanIsThere,
       Unscanned, Ticketless, Outcomes, pageVars
  <1>20. ASSUME NEW p \in Processes, TicketExpires(p) PROVE ScanIsThere'
    BY <1>20, ProcessFacts, BoundFacts DEF TicketExpires, ProcessTypes,
       ScanIsThere, Unscanned, Ticketless, Outcomes, Trouble, pageVars
  <1>21. ASSUME NEW p \in Processes, ScanExpires(p) PROVE ScanIsThere'
    BY <1>21, ProcessFacts, BoundFacts DEF ScanExpires, ProcessTypes,
       ScanIsThere, Unscanned, Ticketless, Outcomes, Trouble, pageVars
  <1>22. CASE UNCHANGED browserVars
    BY <1>22 DEF browserVars, ProcessTypes, ScanIsThere, Unscanned, Ticketless,
       Outcomes, redisVars, pageVars
  <1> QED
    BY <1>1, <1>2, <1>3, <1>4, <1>5, <1>6, <1>7, <1>8, <1>9, <1>10, <1>11,
       <1>12, <1>13, <1>14, <1>15, <1>16, <1>17, <1>18, <1>19, <1>20, <1>21,
       <1>22 DEF BrowserNext, Handler

LEMMA FieldNext ==
  ASSUME ProcessTypes, ScanIsThere, FieldIsVouched, [BrowserNext]_browserVars
  PROVE  FieldIsVouched'
  <1>1. CASE LoadFrame
    BY <1>1, ProcessFacts, BoundFacts DEF LoadFrame, ProcessTypes, ScanIsThere,
       FieldIsVouched, Unscanned, Ticketless, Outcomes, NoFile, Tell, redisVars
  <1>2. CASE Clear
    BY <1>2, ProcessFacts, BoundFacts DEF Clear, ProcessTypes, ScanIsThere,
       FieldIsVouched, Unscanned, Ticketless, Outcomes, NoFile, Trouble,
       redisVars
  <1>3. CASE NextDay
    BY <1>3, ProcessFacts, BoundFacts DEF NextDay, ProcessTypes, ScanIsThere,
       FieldIsVouched, Unscanned, Ticketless, Outcomes, NoFile, Trouble,
       pageVars
  <1>4. ASSUME NEW c \in Choices, Choose(c) PROVE FieldIsVouched'
    BY <1>4, ProcessFacts, BoundFacts DEF Choose, ProcessTypes, ScanIsThere,
       FieldIsVouched, Unscanned, Ticketless, Outcomes, NoFile, Go, Tell,
       redisVars
  <1>5. ASSUME NEW k \in live, Revoke(k) PROVE FieldIsVouched'
    BY <1>5, ProcessFacts, BoundFacts DEF Revoke, ProcessTypes, ScanIsThere,
       FieldIsVouched, Unscanned, Ticketless, Outcomes, NoFile, Trouble,
       redisVars, pageVars
  <1>6. ASSUME NEW p \in Processes, Begin(p) PROVE FieldIsVouched'
    BY <1>6, ProcessFacts, BoundFacts DEF Begin, ProcessTypes, ScanIsThere,
       FieldIsVouched, Unscanned, Ticketless, Outcomes, NoFile, Go, redisVars,
       pageVars
  <1>7. ASSUME NEW p \in Processes, AskTicket(p) PROVE FieldIsVouched'
    BY <1>7, ProcessFacts, BoundFacts DEF AskTicket, ProcessTypes, ScanIsThere,
       FieldIsVouched, Unscanned, Ticketless, Outcomes, NoFile, Go, Tell,
       Fails, Unchecked, redisVars, pageVars
  <1>8. ASSUME NEW p \in Processes, CountTicket(p) PROVE FieldIsVouched'
    BY <1>8, ProcessFacts, BoundFacts DEF CountTicket, ProcessTypes,
       ScanIsThere, FieldIsVouched, Unscanned, Ticketless, Outcomes, NoFile,
       Go, Tell, Fails, Unchecked, pageVars
  <1>9. ASSUME NEW p \in Processes, CountFails(p) PROVE FieldIsVouched'
    BY <1>9, ProcessFacts, BoundFacts DEF CountFails, ProcessTypes,
       ScanIsThere, FieldIsVouched, Unscanned, Ticketless, Outcomes, NoFile,
       Go, Trouble, pageVars
  <1>10. ASSUME NEW p \in Processes, Mint(p) PROVE FieldIsVouched'
    BY <1>10, ProcessFacts, BoundFacts DEF Mint, ProcessTypes, ScanIsThere,
       FieldIsVouched, Unscanned, Ticketless, Outcomes, NoFile, Go, pageVars
  <1>11. ASSUME NEW p \in Processes, Redeem(p) PROVE FieldIsVouched'
    BY <1>11, ProcessFacts, BoundFacts DEF Redeem, ProcessTypes, ScanIsThere,
       FieldIsVouched, Unscanned, Ticketless, Outcomes, NoFile, Go, Tell,
       Fails, Unchecked, pageVars
  <1>12. ASSUME NEW p \in Processes, LookupKey(p) PROVE FieldIsVouched'
    BY <1>12, ProcessFacts, BoundFacts DEF LookupKey, ProcessTypes,
       ScanIsThere, FieldIsVouched, Unscanned, Ticketless, Outcomes, NoFile,
       Go, Tell, Fails, Unchecked, redisVars, pageVars
  <1>13. ASSUME NEW p \in Processes, Ingest(p) PROVE FieldIsVouched'
    <2>1. CASE Fails(p) /\ UNCHANGED scans
      BY <2>1, ProcessFacts DEF ProcessTypes, FieldIsVouched, Fails, Unchecked,
         Tell, pageVars, NoFile
    <2>2. CASE UNCHANGED pageVars /\ \E r \in Outcomes \cup {"running"} : scans' = [scans EXCEPT ![p] = r]
      <3>1. scans[p] = "none"
        BY <1>13 DEF Ingest, ScanIsThere, Unscanned, Ticketless
      <3> QED
        BY <2>2, <3>1 DEF ProcessTypes, FieldIsVouched, pageVars
    <2> QED
      BY <1>13, <2>1, <2>2 DEF Ingest
  <1>14. ASSUME NEW p \in Processes, Answered(p) PROVE FieldIsVouched'
    BY <1>14, ProcessFacts, BoundFacts DEF Answered, ProcessTypes, ScanIsThere,
       FieldIsVouched, Unscanned, Ticketless, Outcomes, NoFile, Go, Tell,
       Fails, Unchecked, Finish, redisVars, pageVars
  <1>15. ASSUME NEW p \in Processes, Observe(p) PROVE FieldIsVouched'
    BY <1>15, ProcessFacts, BoundFacts DEF Observe, ProcessTypes, ScanIsThere,
       FieldIsVouched, Unscanned, Ticketless, Outcomes, NoFile, Go, Tell,
       Fails, Unchecked, pageVars
  <1>16. ASSUME NEW p \in Processes, Poll(p) PROVE FieldIsVouched'
    BY <1>16, ProcessFacts, BoundFacts DEF Poll, ProcessTypes, ScanIsThere,
       FieldIsVouched, Unscanned, Ticketless, Outcomes, NoFile, Go, Tell,
       Fails, Unchecked, Finish, GiveUp, redisVars, pageVars
  <1>17. ASSUME NEW p \in Processes, Lost(p) PROVE FieldIsVouched'
    BY <1>17, ProcessFacts, BoundFacts DEF Lost, ProcessTypes, ScanIsThere,
       FieldIsVouched, Unscanned, Ticketless, Outcomes, NoFile, Go, Tell,
       Trouble, Fails, Unchecked, redisVars, pageVars
  <1>18. ASSUME NEW p \in Processes, PollThrows(p) PROVE FieldIsVouched'
    BY <1>18, ProcessFacts, BoundFacts DEF PollThrows, ProcessTypes,
       ScanIsThere, FieldIsVouched, Unscanned, Ticketless, Outcomes, NoFile,
       Go, Tell, Trouble, Fails, Unchecked, redisVars, pageVars
  <1>19. ASSUME NEW p \in Processes, ScanEnds(p) PROVE FieldIsVouched'
    BY <1>19, ProcessFacts, BoundFacts DEF ScanEnds, ProcessTypes, ScanIsThere,
       FieldIsVouched, Unscanned, Ticketless, Outcomes, NoFile, Go, Tell,
       Fails, Unchecked, pageVars
  <1>20. ASSUME NEW p \in Processes, TicketExpires(p) PROVE FieldIsVouched'
    BY <1>20, ProcessFacts, BoundFacts DEF TicketExpires, ProcessTypes,
       ScanIsThere, FieldIsVouched, Unscanned, Ticketless, Outcomes, NoFile,
       Go, Tell, Trouble, Fails, Unchecked, pageVars
  <1>21. ASSUME NEW p \in Processes, ScanExpires(p) PROVE FieldIsVouched'
    BY <1>21, ProcessFacts, BoundFacts DEF ScanExpires, ProcessTypes,
       ScanIsThere, FieldIsVouched, Unscanned, Ticketless, Outcomes, NoFile,
       Go, Tell, Trouble, Fails, Unchecked, pageVars
  <1>22. CASE UNCHANGED browserVars
    BY <1>22 DEF browserVars, ProcessTypes, ScanIsThere, FieldIsVouched,
       Unscanned, Ticketless, Outcomes, NoFile, Go, Tell, Fails, Unchecked,
       redisVars, pageVars
  <1> QED
    BY <1>1, <1>2, <1>3, <1>4, <1>5, <1>6, <1>7, <1>8, <1>9, <1>10, <1>11,
       <1>12, <1>13, <1>14, <1>15, <1>16, <1>17, <1>18, <1>19, <1>20, <1>21,
       <1>22 DEF BrowserNext, Handler

(* The counter of a day *)

(* Whoever has been to the counter does not come back; only CountTicket    *)
(* counts, and it adds one to those who have been there. *)
LEMMA CounterNext ==
  ASSUME TypesButSpent, DirectIsDirect, CounterIsTrue, QuotaHolds, [BrowserNext]_browserVars
  PROVE  (CounterIsTrue /\ QuotaHolds)'
  <1>1. Counted \in SUBSET Choices /\ Counted' \in SUBSET Choices
    BY DEF Counted
  <1>2. Cardinality(Counted) \in Nat /\ Cardinality(Counted') \in Nat
    BY <1>1, ChoicesAreFew
  <1>3. Counted \subseteq Counted'
    <2>1. ASSUME NEW c \in Choices, place[c] \notin {"none", "ask", "count"}
          PROVE  place'[c] \notin {"none", "ask", "count"}
      BY <2>1, ProcessFacts DEF TypesButSpent, ProcessTypes, BrowserNext,
         Handler, browserVars, LoadFrame, Clear, NextDay, Choose, Revoke,
         Begin, AskTicket, CountTicket, CountFails, Mint, Redeem, LookupKey,
         Ingest, Answered, Observe, Poll, Lost, PollThrows, ScanEnds,
         TicketExpires, ScanExpires, Go, Fails, Finish, GiveUp
    <2> QED
      BY <2>1 DEF Counted
  <1>4. Cardinality(Counted) <= Cardinality(Counted')
    BY <1>1, <1>3, CountedGrows
  <1>5. CASE UNCHANGED <<spent, passed, excused>>
    BY <1>2, <1>4, <1>5 DEF TypesButSpent, CounterTypes, CounterIsTrue,
       QuotaHolds
  <1>6. ASSUME NEW p \in Processes, CountTicket(p) PROVE (CounterIsTrue /\ QuotaHolds)'
    <2>1. p \in Choices /\ p \notin Counted
      BY <1>6 DEF CountTicket, DirectIsDirect, Processes, Counted
    <2>2. p \in Counted'
      BY <1>6, <2>1 DEF CountTicket, Fails, Go, Counted, TypesButSpent,
         ProcessTypes
    <2>3. Cardinality(Counted \cup {p}) = Cardinality(Counted) + 1
      BY <1>1, <2>1, CountedGrowsByOne
    <2>4. Cardinality(Counted) + 1 <= Cardinality(Counted')
      BY <1>1, <1>3, <2>1, <2>2, <2>3, CountedGrows
    <2>5. /\ spent' = [spent EXCEPT ![day] = @ + 1] /\ UNCHANGED excused
          /\ \/ passed' = [passed EXCEPT ![day] = @ + 1]
                /\ (DailyTickets = 0 \/ spent'[day] <= DailyTickets)
             \/ UNCHANGED passed
      BY <1>6 DEF CountTicket
    <2>6. ASSUME NEW d \in 1..Days
          PROVE  /\ spent'[d] <= Cardinality(Counted')
                 /\ passed'[d] <= spent'[d] + excused'[d]
                 /\ DailyTickets > 0 => passed'[d] <= DailyTickets + excused'[d]
      <3>1. /\ spent[d] \in Nat /\ passed[d] \in Nat /\ excused[d] \in Nat
            /\ spent[d] <= Cardinality(Counted) /\ passed[d] <= spent[d] + excused[d]
            /\ DailyTickets > 0 => passed[d] <= DailyTickets + excused[d]
        BY DEF TypesButSpent, CounterTypes, CounterIsTrue, QuotaHolds
      <3>2. /\ spent'[d] = (IF d = day THEN spent[d] + 1 ELSE spent[d])
            /\ excused'[d] = excused[d]
            /\ \/ passed'[d] = passed[d]
               \/ /\ passed'[d] = (IF d = day THEN passed[d] + 1 ELSE passed[d])
                  /\ DailyTickets = 0 \/ spent'[day] <= DailyTickets
        BY <2>5 DEF TypesButSpent, CounterTypes
      <3> QED
        BY <1>2, <2>4, <3>1, <3>2, BoundFacts
    <2> QED
      BY <2>6 DEF CounterIsTrue, QuotaHolds
  <1>7. ASSUME NEW p \in Processes, CountFails(p) PROVE (CounterIsTrue /\ QuotaHolds)'
    <2>1. /\ passed' = [passed EXCEPT ![day] = @ + 1] /\ excused' = [excused EXCEPT ![day] = @ + 1]
          /\ UNCHANGED spent
      BY <1>7 DEF CountFails
    <2>2. ASSUME NEW d \in 1..Days
          PROVE  /\ spent'[d] <= Cardinality(Counted')
                 /\ passed'[d] <= spent'[d] + excused'[d]
                 /\ DailyTickets > 0 => passed'[d] <= DailyTickets + excused'[d]
      <3>1. /\ spent[d] \in Nat /\ passed[d] \in Nat /\ excused[d] \in Nat
            /\ spent[d] <= Cardinality(Counted) /\ passed[d] <= spent[d] + excused[d]
            /\ DailyTickets > 0 => passed[d] <= DailyTickets + excused[d]
        BY DEF TypesButSpent, CounterTypes, CounterIsTrue, QuotaHolds
      <3>2. /\ spent'[d] = spent[d]
            /\ passed'[d] = (IF d = day THEN passed[d] + 1 ELSE passed[d])
            /\ excused'[d] = (IF d = day THEN excused[d] + 1 ELSE excused[d])
        BY <2>1 DEF TypesButSpent, CounterTypes
      <3> QED
        BY <1>2, <1>4, <3>1, <3>2, BoundFacts
    <2> QED
      BY <2>2 DEF CounterIsTrue, QuotaHolds
  <1> QED
    BY <1>5, <1>6, <1>7 DEF BrowserNext, Handler, browserVars, redisVars,
       LoadFrame, Clear, NextDay, Choose, Revoke, Begin, AskTicket, Mint,
       Redeem, LookupKey, Ingest, Answered, Observe, Poll, Lost, PollThrows,
       ScanEnds, TicketExpires, ScanExpires

-----------------------------------------------------------------------------
(* Tickets *)

(* A process leaves the steps before its ticket for good. *)
LEMMA MintedForGood ==
  ASSUME ProcessTypes, [BrowserNext]_browserVars, NEW t \in Processes, place[t] \notin Ticketless
  PROVE  place'[t] \notin Ticketless
  BY ProcessFacts DEF ProcessTypes, Ticketless, BrowserNext, Handler,
     browserVars, LoadFrame, Clear, NextDay, Choose, Revoke, Begin, AskTicket,
     CountTicket, CountFails, Mint, Redeem, LookupKey, Ingest, Answered,
     Observe, Poll, Lost, PollThrows, ScanEnds, TicketExpires, ScanExpires, Go,
     Fails, Finish, GiveUp

(* No step but these three touches who has which ticket. *)
LEMMA TicketIsLeftAlone ==
  ASSUME ProcessTypes, TicketTypes, [BrowserNext]_browserVars, TicketIsOne,
         UNCHANGED <<shown, opened>>, tickets' \subseteq tickets,
         \A p, t \in Processes : Holds(p, t)' => Holds(p, t)
  PROVE  TicketIsOne'
  <1>1. \A t \in Processes : place'[t] \in Ticketless => place[t] \in Ticketless
    BY MintedForGood
  <1> QED
    BY <1>1 DEF TicketIsOne

LEMMA TicketNext ==
  ASSUME ProcessTypes, TicketTypes, TicketIsOne, TicketIsShown, [BrowserNext]_browserVars
  PROVE  TicketIsOne'
  <1>1. ASSUME NEW p \in Processes, Begin(p) PROVE TicketIsOne'
    <2>1. UNCHANGED <<opened, tickets>> /\ place[p] = "none"
      BY <1>1 DEF Begin, redisVars
    <2>2. \A q \in Processes : q # p => shown'[q] = shown[q] /\ place'[q] = place[q]
      BY <1>1 DEF Begin, Go, ProcessTypes
    <2>3. place'[p] \notin {"lookup", "ingest"}
      BY <1>1 DEF Begin, Go, ProcessTypes
    <2>4. \/ shown'[p] = shown[p]
          \/ place'[p] \notin Ticketless /\ \E q \in Processes : shown[q] # 0 /\ shown'[p] = shown[q]
      BY <1>1 DEF Begin, Go, ProcessTypes, Ticketless
    <2>5. \A t \in Processes : place'[t] \in Ticketless => place[t] \in Ticketless
      BY MintedForGood
    <2>6. \A q, t \in Processes : Holds(q, t)' <=> q # p /\ Holds(q, t)
      BY <2>1, <2>2, <2>3 DEF Holds
    <2>7. ASSUME NEW t \in Processes, place'[t] \in Ticketless
          PROVE  shown'[t] = 0 /\ \A q \in Processes : shown'[q] # t
      BY <2>2, <2>4, <2>5, <2>7 DEF TicketIsOne
    <2> QED
      BY <2>1, <2>5, <2>6, <2>7 DEF TicketIsOne
  <1>2. ASSUME NEW p \in Processes, Mint(p) PROVE TicketIsOne'
    <2>1. /\ place[p] = "mint" /\ tickets' = tickets \cup {p} /\ UNCHANGED opened
          /\ shown' = [shown EXCEPT ![p] = p] /\ place' = [place EXCEPT ![p] = "redeem"]
      BY <1>2 DEF Mint, Go
    <2>2. opened[p] = 0 /\ shown[p] = 0 /\ \A q \in Processes : shown[q] # p
      BY <2>1 DEF TicketIsOne, Ticketless
    <2>3. \A q, t \in Processes : Holds(q, t)' => Holds(q, t) /\ q # p /\ t # p
      BY <2>1, <2>2 DEF Holds, ProcessTypes
    <2>4. \A t \in Processes : place'[t] \in Ticketless => t # p /\ place[t] \in Ticketless
      BY <2>1 DEF Ticketless, ProcessTypes
    <2>5. \A q \in Processes : q # p => shown'[q] = shown[q]
      BY <2>1 DEF ProcessTypes
    <2>6. shown'[p] = p
      BY <2>1 DEF ProcessTypes
    <2> QED
      BY <2>1, <2>2, <2>3, <2>4, <2>5, <2>6 DEF TicketIsOne
  <1>3. ASSUME NEW p \in Processes, Redeem(p) PROVE TicketIsOne'
    <2>1. /\ place[p] = "redeem" /\ tickets' = tickets \ {shown[p]} /\ UNCHANGED <<opened, shown>>
          /\ \/ place' = [place EXCEPT ![p] = "told"]
             \/ shown[p] \in tickets /\ place' = [place EXCEPT ![p] = "lookup"]
      BY <1>3 DEF Redeem, Fails, Go
    <2>2. CASE place' = [place EXCEPT ![p] = "told"]
      <3>1. \A q, t \in Processes : Holds(q, t)' => Holds(q, t)
        BY <2>1, <2>2 DEF Holds, ProcessTypes
      <3> QED
        BY <2>1, <3>1, TicketIsLeftAlone
    <2>3. CASE shown[p] \in tickets /\ place' = [place EXCEPT ![p] = "lookup"]
      <3>1. \A q, t \in Processes : Holds(q, t)' <=> Holds(q, t) \/ (q = p /\ t = shown[p])
        BY <2>1, <2>3 DEF Holds, ProcessTypes
      <3>2. opened[shown[p]] = 0 /\ \A q \in Processes : ~Holds(q, shown[p])
        BY <2>3 DEF TicketIsOne, TicketTypes
      <3>3. \A t \in Processes : place'[t] \in Ticketless => place[t] \in Ticketless
        BY MintedForGood
      <3> QED
        BY <2>1, <3>1, <3>2, <3>3 DEF TicketIsOne
    <2> QED
      BY <2>1, <2>2, <2>3
  <1>4. ASSUME NEW p \in Processes, Ingest(p) PROVE TicketIsOne'
    <2>1. /\ place[p] = "ingest" /\ UNCHANGED <<tickets, shown>>
          /\ \E there \in {"told", "answered", "observe"} : place' = [place EXCEPT ![p] = there]
          /\ UNCHANGED opened \/ opened' = [opened EXCEPT ![shown[p]] = @ + 1]
      BY <1>4 DEF Ingest, Fails, Go
    <2>2. \A q, t \in Processes : Holds(q, t)' => Holds(q, t) /\ q # p
      BY <2>1 DEF Holds, ProcessTypes
    <2>3. CASE UNCHANGED opened
      BY <2>1, <2>2, <2>3, TicketIsLeftAlone
    <2>4. CASE opened' = [opened EXCEPT ![shown[p]] = @ + 1]
      <3>1. PICK t \in Processes : t = shown[p] /\ Holds(p, t)
        BY <2>1 DEF TicketIsShown, ProcessTypes, Holds
      <3>2. \A u \in Processes : u # t => opened'[u] = opened[u]
        BY <2>4, <3>1 DEF TicketTypes
      <3>3. t \notin tickets /\ place[t] \notin Ticketless /\ \A q \in Processes : ~Holds(q, t)'
        BY <2>2, <3>1 DEF TicketIsOne, Holds
      <3>4. \A u \in Processes : place'[u] \in Ticketless => u # t /\ place[u] \in Ticketless
        BY <3>3, MintedForGood
      <3> QED
        BY <2>1, <2>2, <3>1, <3>2, <3>3, <3>4 DEF TicketIsOne
    <2> QED
      BY <2>1, <2>3, <2>4
  <1>5. CASE /\ UNCHANGED <<shown, opened>> /\ tickets' \subseteq tickets
             /\ \A p, t \in Processes : Holds(p, t)' => Holds(p, t)
    BY <1>5, TicketIsLeftAlone
  <1>6. CASE UNCHANGED place \/ \E p \in Processes : \E there \in Places \ {"lookup", "ingest"} : Go(p, there)
    <2>1. UNCHANGED shown => \A p, t \in Processes : Holds(p, t)' => Holds(p, t)
      BY <1>6 DEF Go, Holds, ProcessTypes
    <2> QED
      BY <1>1, <1>2, <1>3, <1>4, <1>5, <2>1 DEF BrowserNext, Handler,
         browserVars, redisVars, LoadFrame, Clear, NextDay, Choose, Revoke,
         AskTicket, CountTicket, CountFails, LookupKey, Answered, Observe,
         Poll, Lost, PollThrows, ScanEnds, TicketExpires, ScanExpires
  <1>7. ASSUME NEW p \in Processes, LookupKey(p) PROVE TicketIsOne'
    <2>1. /\ UNCHANGED <<tickets, opened, shown>> /\ place[p] = "lookup"
          /\ \E there \in {"told", "ingest"} : place' = [place EXCEPT ![p] = there]
      BY <1>7 DEF LookupKey, Fails, Go, redisVars
    <2>2. \A q, t \in Processes : Holds(q, t)' => Holds(q, t)
      BY <2>1 DEF Holds, ProcessTypes
    <2> QED
      BY <2>1, <2>2, TicketIsLeftAlone
  <1> QED
    BY <1>1, <1>2, <1>3, <1>4, <1>6, <1>7, ProcessFacts DEF BrowserNext,
       Handler, browserVars, Places, LoadFrame, Clear, NextDay, Choose, Revoke,
       AskTicket, CountTicket, CountFails, Fails, Answered, Observe, Poll,
       Lost, PollThrows, ScanEnds, TicketExpires, ScanExpires, Finish, GiveUp

LEMMA ShownNext ==
  ASSUME ProcessTypes, TicketIsShown, [BrowserNext]_browserVars
  PROVE  TicketIsShown'
  <1>1. ASSUME NEW p \in Processes, Begin(p) PROVE TicketIsShown'
    BY <1>1 DEF Begin, Go, ProcessTypes, TicketIsShown
  <1>2. ASSUME NEW p \in Processes, Mint(p) PROVE TicketIsShown'
    BY <1>2, ProcessFacts DEF Mint, Go, ProcessTypes, TicketIsShown
  <1>3. ASSUME NEW p \in Processes, Redeem(p) \/ LookupKey(p) PROVE TicketIsShown'
    BY <1>3 DEF Redeem, LookupKey, Fails, Go, ProcessTypes, TicketIsShown
  <1>4. CASE /\ UNCHANGED shown
             /\ \/ UNCHANGED place
                \/ \E p \in Processes : \E there \in Places \ {"redeem", "lookup", "ingest"} : Go(p, there)
    BY <1>4 DEF Go, ProcessTypes, TicketIsShown
  <1> QED
    BY <1>1, <1>2, <1>3, <1>4, ProcessFacts DEF BrowserNext, Handler,
       browserVars, redisVars, Places, LoadFrame, Clear, NextDay, Choose,
       Revoke, AskTicket, CountTicket, CountFails, Ingest, Fails, Answered,
       Observe, Poll, Lost, PollThrows, ScanEnds, TicketExpires, ScanExpires,
       Finish, GiveUp

(* No second upload, whatever the ticket did. *)
LEMMA OnceNext ==
  ASSUME ProcessTypes, TicketTypes, TicketIsOne, TicketIsShown, TicketOpensOnce,
         [BrowserNext]_browserVars
  PROVE  TicketOpensOnce'
  <1>1. ASSUME NEW p \in Processes, Ingest(p) PROVE TicketOpensOnce'
    <2>1. PICK t \in Processes : t = shown[p] /\ Holds(p, t)
      BY <1>1 DEF Ingest, TicketIsShown, ProcessTypes, Holds
    <2>2. opened[t] = 0
      BY <2>1 DEF TicketIsOne
    <2>3. opened' = opened \/ opened' = [opened EXCEPT ![t] = @ + 1]
      BY <1>1, <2>1 DEF Ingest
    <2> QED
      BY <2>2, <2>3 DEF TicketTypes, TicketOpensOnce
  <1>2. CASE UNCHANGED opened
    BY <1>2 DEF TicketOpensOnce
  <1> QED
    BY <1>1, <1>2 DEF BrowserNext, Handler, browserVars, redisVars, LoadFrame,
       Clear, NextDay, Choose, Revoke, Begin, AskTicket, CountTicket,
       CountFails, Mint, Redeem, LookupKey, Answered, Observe, Poll, Lost,
       PollThrows, ScanEnds, TicketExpires, ScanExpires

-----------------------------------------------------------------------------
(* The theorems *)

LEMMA TypesSplit ==
  ASSUME CounterIsTrue
  PROVE  TypesButSpent <=> BrowserTypeOK
  <1>1. \A d \in 1..Days : spent[d] <= Cardinality(Counted)
    BY DEF CounterIsTrue
  <1>2. Cardinality(Counted) \in 0..MaxChoice
    BY ChoicesAreFew DEF Counted
  <1>3. spent \in [1..Days -> Nat] <=> spent \in [1..Days -> 0..MaxChoice]
    BY <1>1, <1>2, BoundFacts
  <1> QED
    BY <1>3 DEF TypesButSpent, PageTypes, ProcessTypes, TicketTypes,
       CounterTypes, BrowserTypeOK

LEMMA BrowserIInvInit == BrowserInit => BrowserIInv
  <1> SUFFICES ASSUME BrowserInit PROVE BrowserIInv
    OBVIOUS
  <1>1. CounterIsTrue /\ QuotaHolds
    <2>1. Cardinality(Counted) \in Nat
      BY ChoicesAreFew DEF Counted
    <2>2. \A d \in 1..Days : spent[d] = 0 /\ passed[d] = 0 /\ excused[d] = 0
      BY DEF BrowserInit
    <2> QED
      BY <2>1, <2>2, BoundFacts DEF CounterIsTrue, QuotaHolds
  <1>2. PageTypes /\ ProcessTypes /\ TicketTypes
    <2>1. PageTypes
      BY DEF BrowserInit, PageTypes
    <2>2. 0 \in 0..PollLimit
      BY BoundFacts
    <2>3. ProcessTypes
      BY <2>2 DEF BrowserInit, ProcessTypes, Places
    <2>4. TicketTypes
      BY DEF BrowserInit, TicketTypes
    <2> QED
      BY <2>1, <2>3, <2>4
  <1>3. CounterTypes /\ troubles \in 0..MaxTroubles
    <2>1. 1 \in 1..Days /\ 0 \in 0..MaxTroubles
      BY BoundFacts
    <2>2. CounterTypes
      BY <2>1 DEF BrowserInit, CounterTypes
    <2>3. troubles = 0
      BY DEF BrowserInit
    <2> QED
      BY <2>1, <2>2, <2>3
  <1>4. BrowserTypeOK
    BY <1>1, <1>2, <1>3, TypesSplit DEF TypesButSpent
  <1>5. DirectIsDirect /\ TicketIsShown /\ ScanIsThere /\ FieldIsVouched /\ TicketOpensOnce
    <2>1. /\ field = NoFile
          /\ \A p \in Processes : place[p] = "none" /\ scans[p] = "none" /\ opened[p] = 0
      BY DEF BrowserInit
    <2> QED
      BY <2>1, ProcessFacts DEF DirectIsDirect, TicketIsShown, ScanIsThere,
         FieldIsVouched, TicketOpensOnce
  <1>6. TicketIsOne
    BY ProcessFacts DEF BrowserInit, TicketIsOne, Holds
  <1> QED
    BY <1>1, <1>4, <1>5, <1>6 DEF BrowserIInv

LEMMA BrowserIInvNext == BrowserIInv /\ [BrowserNext]_browserVars => BrowserIInv'
  <1> SUFFICES ASSUME BrowserIInv, [BrowserNext]_browserVars PROVE BrowserIInv'
    OBVIOUS
  <1>1. TypesButSpent
    BY TypesSplit DEF BrowserIInv
  <1>2. (CounterIsTrue /\ QuotaHolds)'
    BY <1>1, CounterNext DEF BrowserIInv
  <1>3. TypesButSpent'
    BY <1>1, PageTypesNext, ProcessTypesNext, TicketTypesNext,
       CounterTypesNext, TroublesNext DEF BrowserIInv, TypesButSpent
  <1>4. BrowserTypeOK'
    <2>1. (TypesButSpent <=> BrowserTypeOK)'
      BY <1>2, TypesSplit, PTL
    <2> QED
      BY <1>3, <2>1
  <1> QED
    BY <1>1, <1>2, <1>4, DirectNext, ShownNext, TicketNext, ScanNext,
       FieldNext, OnceNext DEF BrowserIInv, TypesButSpent

(* What the runs check of the upload is inductive with what is said above  *)
(* about who holds a ticket and which choices went to the counter.         *)
THEOREM BrowserInvariance == BrowserSpec => []BrowserIInv
  BY BrowserIInvInit, BrowserIInvNext, PTL DEF BrowserSpec

(* One ticket opens one upload, and no day sees more of them than its      *)
(* quota and its excuses, for every number of processes (TicketStore,      *)
(* DailyQuota.spend). *)
THEOREM TicketsAreScarce == BrowserSpec => []TicketInv
  BY BrowserInvariance, PTL DEF BrowserIInv, TicketInv

(* The form never vouches for a file that was not accepted, or not clean   *)
(* where it says "checked", however the handlers of the choices interleave *)
(* (frame.html, contract.py). *)
THEOREM FieldIsAlwaysVouched == BrowserSpec => []FieldIsVouched
  BY BrowserInvariance, PTL DEF BrowserIInv

-----------------------------------------------------------------------------
(* The windows of the rate *)

(* Quotients and products by the length of a window. *)
LEMMA ProductGrows ==
  \A a, b, c \in Nat : a <= b => a * c <= b * c
  OBVIOUS

LEMMA WindowFacts ==
  \A t \in Nat : /\ t \div Window \in Nat /\ t % Window \in Nat /\ t % Window < Window
                 /\ t = (t \div Window) * Window + (t % Window)
  BY RateAssumption

LEMMA SecondFacts ==
  /\ Second \in Nat /\ Second > 0 /\ Second <= Window
  /\ \A t \in Nat : /\ t \div Second \in Nat /\ t % Second \in Nat /\ t % Second < Second
                   /\ t = (t \div Second) * Second + (t % Second)
  BY RateAssumption

LEMMA WindowsInOrder ==
  \A s, t \in Nat : s <= t => s \div Window <= t \div Window
  <1> SUFFICES ASSUME NEW s \in Nat, NEW t \in Nat, s <= t, t \div Window < s \div Window PROVE FALSE
    BY WindowFacts
  <1> DEFINE p == s \div Window
             q == t \div Window
  <1>1. /\ p \in Nat /\ q \in Nat /\ Window \in Nat
        /\ p * Window <= t /\ t < q * Window + Window /\ q + 1 <= p
    BY WindowFacts, RateAssumption
  <1> HIDE DEF p, q
  <1>2. (q + 1) * Window <= p * Window
    BY <1>1, ProductGrows
  <1>3. (q + 1) * Window = q * Window + Window
    BY <1>1
  <1> QED
    BY <1>1, <1>2, <1>3

(* Who is of a subject, and what its limit is. *)
LEMMA SubjectFacts ==
  /\ \A c \in Clients : Subject(c) \in Subjects
  /\ \A s \in Subjects : Limit[s] \in Nat /\ Limit[s] > 0
  /\ Window \in Nat /\ Window > 0
  BY RateAssumption DEF Subjects

-----------------------------------------------------------------------------
(* The inductive invariant of the windows *)

(* The types, with those of what is not read when all is well. *)
RateTypes ==
  /\ now \in Ticks
  /\ counters \in [Subjects -> [Buckets -> [count : Nat, until : Nat]]]
  /\ calling \in [Clients -> BOOLEAN] /\ reading \in [Clients -> Ticks]
  /\ \A c \in Clients : reading[c] <= now
  /\ notBefore \in [Clients -> 0..(LastTick + Window)] /\ refusals \in [Clients -> Nat]
  /\ asked \in [Subjects -> [Buckets -> Nat]] /\ letIn \in [Subjects -> [Buckets -> Nat]]
  /\ recent \in [Subjects -> SUBSET [at : Ticks, late : BOOLEAN, number : Nat]]

(* A counter holds what was asked until two windows after its own began,   *)
(* and nobody asked in the future. *)
Lives(b) == now < (b + 2) * Window

CallsAreCounted ==
  \A s \in Subjects : \A b \in Buckets :
    /\ counters[s][b].count <= asked[s][b]
    /\ Lives(b) => /\ counters[s][b].count = asked[s][b]
                   /\ asked[s][b] > 0 => counters[s][b].until >= (b + 2) * Window
    /\ b > Bucket(now) => asked[s][b] = 0

(* While it lives no more were let in than the limit. *)
LetInWithinLimit ==
  \A s \in Subjects : \A b \in Buckets :
    letIn[s][b] <= asked[s][b] /\ (Lives(b) => letIn[s][b] <= Limit[s])

RecentIsFinite == \A s \in Subjects : IsFiniteSet(recent[s])

(* Who was counted in time has a number of its own in the window. *)
RecentAreNumbered ==
  \A s \in Subjects : \A a \in recent[s] :
    /\ a.at <= now /\ now - a.at < Window
    /\ ~a.late => a.number \in 1..asked[s][Bucket(a.at)]
    /\ \A d \in recent[s] :
         ~a.late /\ ~d.late /\ Bucket(a.at) = Bucket(d.at) /\ a.number = d.number => a = d

(* It saw all of the window before that were counted in time: they are not *)
(* many more than the limit together.                                      *)
RecentWithinLimit ==
  \A s \in Subjects : \A a \in recent[s] : ~a.late =>
    /\ a.number <= Limit[s]
    /\ \A d \in recent[s] : ~d.late /\ Bucket(d.at) + 1 = Bucket(a.at) =>
         d.number * (Window - Elapsed(a.at)) + a.number * Window <= Limit[s] * Window

AskedBefore(s, b) == IF b = 0 THEN 0 ELSE asked[s][b - 1]

Earned(c) ==
  LET s == Subject(c)
      b == Bucket(reading[c])
  IN  asked[s][b] + AskedBefore(s, b) > Limit[s]

RefusedForOwn == \A c \in Clients : refusals[c] > 0 /\ ~calling[c] => Earned(c)

(* Whoever waits that long tries once more in the same window, in its last *)
(* second and only if it was rounded down, and then twice in another one:  *)
(* the third refusal leaves no more than one call in the window of its     *)
(* own, or two and a wait beyond the window.                               *)
WaitedSince(c, b) ==
  LET own == asked[Subject(c)] IN
  /\ notBefore[c] + Second > (b + 1) * Window
  /\ \A d \in Buckets : d > b => own[d] = 0
  /\ refusals[c] > 1 =>
       \/ own[b] = 1
       \/ (own[b] = 2 \/ refusals[c] = 2) /\ notBefore[c] >= (b + 1) * Window
  /\ refusals[c] > 3 => own[b] = 2
  /\ refusals[c] <= 4

(* Who calls alone is counted in order. *)
AloneInOrder ==
  \A c \in Clients : Alone(c) =>
    \A d \in Buckets : d > Bucket(reading[c]) => asked[Subject(c)][d] = 0

Waits(c) == c \in Obedient /\ Alone(c) /\ Limit[Subject(c)] > 2

WaitIsEnough ==
  \A c \in Clients : Waits(c) /\ refusals[c] > 0 =>
    /\ calling[c] => reading[c] >= notBefore[c]
    /\ \E b \in Buckets : WaitedSince(c, b)

RateIInv ==
  /\ RateTypes /\ CallsAreCounted /\ LetInWithinLimit
  /\ RecentIsFinite /\ RecentAreNumbered /\ RecentWithinLimit
  /\ RefusedForOwn /\ AloneInOrder /\ WaitIsEnough

(* Every tick lies in a window that has a counter. *)
LEMMA BucketFacts ==
  /\ \A t \in Ticks : /\ Bucket(t) \in Buckets /\ Bucket(t) \in Nat /\ t \in Nat
                      /\ Elapsed(t) \in Nat /\ Elapsed(t) < Window
                      /\ t = Bucket(t) * Window + Elapsed(t)
  /\ \A s, t \in Ticks : s <= t => Bucket(s) <= Bucket(t)
  /\ \A b \in Buckets : b \in Nat /\ (b # 0 => b - 1 \in Buckets)
  <1>1. /\ \A t \in Ticks : t \in Nat /\ t <= LastTick
        /\ LastTick \in Nat /\ LastTick \div Window \in Nat
    BY RateAssumption, WindowFacts DEF Ticks
  <1>2. \A t \in Ticks : t \div Window \in Nat /\ t \div Window <= LastTick \div Window
    BY <1>1, WindowFacts, WindowsInOrder
  <1>3. \A t \in Ticks : Bucket(t) \in Buckets /\ Bucket(t) \in Nat /\ t \in Nat
    BY <1>1, <1>2 DEF Buckets, Bucket
  <1>4. \A t \in Ticks : Elapsed(t) \in Nat /\ Elapsed(t) < Window
                         /\ t = Bucket(t) * Window + Elapsed(t)
    BY <1>1, WindowFacts DEF Bucket, Elapsed
  <1>5. \A b \in Buckets : b \in Nat /\ (b # 0 => b - 1 \in Buckets)
    BY <1>1 DEF Buckets
  <1>6. \A s, t \in Ticks : s <= t => Bucket(s) <= Bucket(t)
    BY <1>1, WindowsInOrder DEF Bucket
  <1> QED
    BY <1>3, <1>4, <1>5, <1>6

(* A window lives as long as it is this one or the one before. *)
LEMMA ThisOneLives ==
  ASSUME RateTypes
  PROVE  /\ now \in Nat /\ now < (Bucket(now) + 1) * Window
         /\ \A b \in Nat : Bucket(now) <= b + 1 => Lives(b)
  <1>1. /\ now \in Nat /\ Bucket(now) \in Nat /\ Elapsed(now) \in Nat /\ Elapsed(now) < Window
        /\ now = Bucket(now) * Window + Elapsed(now) /\ Window \in Nat
    BY BucketFacts, RateAssumption DEF RateTypes
  <1>2. now < (Bucket(now) + 1) * Window
    <2>1. (Bucket(now) + 1) * Window = Bucket(now) * Window + Window /\ Bucket(now) * Window \in Nat
      BY <1>1
    <2> QED
      BY <1>1, <2>1
  <1>3. ASSUME NEW b \in Nat, Bucket(now) <= b + 1 PROVE Lives(b)
    <2>1. Bucket(now) + 1 <= b + 2 /\ Bucket(now) + 1 \in Nat /\ b + 2 \in Nat
      BY <1>1, <1>3
    <2>2. (Bucket(now) + 1) * Window <= (b + 2) * Window
      BY <1>1, <2>1, ProductGrows
    <2>3. (Bucket(now) + 1) * Window \in Nat /\ (b + 2) * Window \in Nat
      BY <1>1, <2>1
    <2> QED
      BY <1>1, <1>2, <2>2, <2>3 DEF Lives
  <1> QED
    BY <1>1, <1>2, <1>3

(* What an answer counts. *)
LEMMA AnswerCounts ==
  ASSUME RateTypes, NEW c \in Clients, Answer(c)
  PROVE  /\ now' = now /\ reading' = reading /\ calling[c] /\ calling' = [calling EXCEPT ![c] = FALSE]
         /\ Subject(c) \in Subjects /\ Bucket(reading[c]) \in Buckets
         /\ Bucket(reading[c]) \in Nat /\ Bucket(reading[c]) <= Bucket(now)
         /\ asked[Subject(c)][Bucket(reading[c])] \in Nat
         /\ asked'[Subject(c)][Bucket(reading[c])] = asked[Subject(c)][Bucket(reading[c])] + 1
         /\ asked' \in [Subjects -> [Buckets -> Nat]]
         /\ \A t \in Subjects : \A d \in Buckets :
              (t # Subject(c) \/ d # Bucket(reading[c])) => asked'[t][d] = asked[t][d]
  <1> DEFINE s == Subject(c)
             b == Bucket(reading[c])
             up == [asked[s] EXCEPT ![b] = asked[s][b] + 1]
  <1>1. now' = now /\ reading' = reading /\ calling[c] /\ calling' = [calling EXCEPT ![c] = FALSE]
    BY DEF Answer
  <1>2. /\ s \in Subjects /\ reading[c] \in Ticks /\ now \in Ticks /\ reading[c] <= now
        /\ b \in Buckets /\ b \in Nat /\ b <= Bucket(now)
    BY SubjectFacts, BucketFacts DEF RateTypes
  <1>3. asked' = [asked EXCEPT ![s] = up]
    BY DEF Answer
  <1>5. asked \in [Subjects -> [Buckets -> Nat]]
    BY DEF RateTypes
  <1> HIDE DEF s, b
  <1>6. asked[s] \in [Buckets -> Nat] /\ asked[s][b] \in Nat
    BY <1>2, <1>5
  <1>9. /\ up \in [Buckets -> Nat] /\ up[b] = asked[s][b] + 1
        /\ \A d \in Buckets \ {b} : up[d] = asked[s][d]
    BY <1>2, <1>6
  <1> HIDE DEF up
  <1>11. /\ asked' \in [Subjects -> [Buckets -> Nat]] /\ asked'[s] = up
         /\ \A t \in Subjects \ {s} : asked'[t] = asked[t]
    BY <1>2, <1>3, <1>5, <1>9
  <1>13. \A t \in Subjects : \A d \in Buckets : (t # s \/ d # b) => asked'[t][d] = asked[t][d]
    BY <1>9, <1>11
  <1>14. asked'[s][b] = asked[s][b] + 1
    BY <1>9, <1>11
  <1> QED
    BY <1>1, <1>2, <1>6, <1>11, <1>13, <1>14 DEF s, b

LEMMA AnswerCounters ==
  ASSUME RateTypes, NEW c \in Clients, Answer(c)
  PROVE  /\ counters[Subject(c)][Bucket(reading[c])].count \in Nat
         /\ counters'[Subject(c)][Bucket(reading[c])].count =
              counters[Subject(c)][Bucket(reading[c])].count + 1
         /\ counters'[Subject(c)][Bucket(reading[c])].until = now + 2 * Window
         /\ counters' \in [Subjects -> [Buckets -> [count : Nat, until : Nat]]]
         /\ \A t \in Subjects : \A d \in Buckets :
              (t # Subject(c) \/ d # Bucket(reading[c])) => counters'[t][d] = counters[t][d]
  <1> DEFINE s == Subject(c)
             b == Bucket(reading[c])
             more == [count |-> counters[s][b].count + 1, until |-> now + 2 * Window]
             upc == [counters[s] EXCEPT ![b] = more]
  <1>2. /\ s \in Subjects /\ b \in Buckets /\ now \in Nat /\ Window \in Nat
    BY SubjectFacts, BucketFacts DEF RateTypes
  <1>4. counters' = [counters EXCEPT ![s] = upc]
    BY DEF Answer
  <1>5. counters \in [Subjects -> [Buckets -> [count : Nat, until : Nat]]]
    BY DEF RateTypes
  <1> HIDE DEF s, b
  <1>7. /\ counters[s] \in [Buckets -> [count : Nat, until : Nat]]
        /\ counters[s][b] \in [count : Nat, until : Nat]
    BY <1>2, <1>5
  <1>8. /\ counters[s][b].count \in Nat /\ more \in [count : Nat, until : Nat]
        /\ more.count = counters[s][b].count + 1 /\ more.until = now + 2 * Window
    BY <1>2, <1>7
  <1> HIDE DEF more
  <1>10. /\ upc \in [Buckets -> [count : Nat, until : Nat]] /\ upc[b] = more
         /\ \A d \in Buckets \ {b} : upc[d] = counters[s][d]
    BY <1>2, <1>7, <1>8
  <1> HIDE DEF upc
  <1>12. /\ counters' \in [Subjects -> [Buckets -> [count : Nat, until : Nat]]] /\ counters'[s] = upc
         /\ \A t \in Subjects \ {s} : counters'[t] = counters[t]
    BY <1>2, <1>4, <1>5, <1>10
  <1>13. \A t \in Subjects : \A d \in Buckets :
           (t # s \/ d # b) => counters'[t][d] = counters[t][d]
    BY <1>10, <1>12
  <1>14. counters'[s][b] = more
    BY <1>10, <1>12
  <1> QED
    BY <1>8, <1>12, <1>13, <1>14 DEF s, b

(* No call is forgotten. *)
LEMMA AskedGrows ==
  ASSUME RateTypes, NEW c \in Clients, Answer(c)
  PROVE  \A s \in Subjects : \A b \in Buckets :
           asked[s][b] \in Nat /\ asked'[s][b] \in Nat /\ asked[s][b] <= asked'[s][b]
  <1> SUFFICES ASSUME NEW s \in Subjects, NEW b \in Buckets
               PROVE  asked[s][b] \in Nat /\ asked'[s][b] \in Nat /\ asked[s][b] <= asked'[s][b]
    OBVIOUS
  <1>1. asked[s][b] \in Nat /\ asked'[s][b] \in Nat
    BY AnswerCounts DEF RateTypes
  <1>2. CASE s = Subject(c) /\ b = Bucket(reading[c])
    BY <1>1, <1>2, AnswerCounts
  <1>3. CASE s # Subject(c) \/ b # Bucket(reading[c])
    BY <1>1, <1>3, AnswerCounts
  <1> QED
    BY <1>2, <1>3

(* How long one is to wait: no less than a second, and no more than that   *)
(* beyond the end of the window that was read. *)
LEMMA RetryFacts ==
  ASSUME NEW t \in Ticks
  PROVE  /\ RetryAfter(t) \in Nat /\ Second <= RetryAfter(t) /\ RetryAfter(t) <= Window
         /\ t + RetryAfter(t) + Second > (Bucket(t) + 1) * Window
  <1> DEFINE rest == Window - Elapsed(t)
  <1>1. /\ rest \in Nat /\ Elapsed(t) \in Nat /\ rest <= Window /\ rest > 0 /\ Window \in Nat
        /\ Bucket(t) \in Nat /\ t = Bucket(t) * Window + Elapsed(t) /\ t \in Nat
    BY BucketFacts, RateAssumption
  <1>2. WholeSeconds(t) = (rest \div Second) * Second
    BY DEF WholeSeconds
  <1> HIDE DEF rest
  <1>3. /\ WholeSeconds(t) \in Nat /\ WholeSeconds(t) <= rest /\ rest < WholeSeconds(t) + Second
        /\ Second \in Nat /\ Second > 0 /\ Second <= Window
    <2> DEFINE q == rest \div Second
               f == rest % Second
    <2>1. /\ q \in Nat /\ f \in Nat /\ f < Second /\ rest = q * Second + f
          /\ Second \in Nat /\ Second > 0 /\ Second <= Window
      BY <1>1, SecondFacts
    <2>2. WholeSeconds(t) = q * Second
      BY <1>2
    <2> HIDE DEF q, f
    <2> QED
      BY <1>1, <2>1, <2>2
  <1>4. /\ RetryAfter(t) \in Nat /\ Second <= RetryAfter(t) /\ RetryAfter(t) <= Window
        /\ rest < RetryAfter(t) + Second
    BY <1>1, <1>3 DEF RetryAfter
  <1>5. t + rest = (Bucket(t) + 1) * Window
    <2>1. (Bucket(t) + 1) * Window = Bucket(t) * Window + Window /\ Bucket(t) * Window \in Nat
      BY <1>1
    <2> QED
      BY <1>1, <2>1 DEF rest
  <1> QED
    BY <1>1, <1>3, <1>4, <1>5

(* What was observed is what was asked, or less where a counter is gone. *)
LEMMA ObservedFacts ==
  ASSUME RateTypes, CallsAreCounted, NEW c \in Clients,
         NEW s \in Subjects, NEW t \in Ticks, NEW b \in Buckets, b = Bucket(t), b <= Bucket(now)
  PROVE  /\ Observed(s, t) \in Nat /\ AskedBefore(s, b) \in Nat /\ asked[s][b] \in Nat
         /\ Observed(s, t) <= AskedBefore(s, b) * (Window - Elapsed(t)) + (asked[s][b] + 1) * Window
         /\ Lives(b) => Observed(s, t) >= (asked[s][b] + 1) * Window
         /\ b = Bucket(now) =>
              Observed(s, t) = AskedBefore(s, b) * (Window - Elapsed(t)) + (asked[s][b] + 1) * Window
  <1> DEFINE w == Window - Elapsed(t)
             n == counters[s][b].count
             p == Before(s, b)
             m == asked[s][b]
             q == AskedBefore(s, b)
  <1>1. /\ w \in Nat /\ Window \in Nat /\ b \in Nat /\ now \in Ticks
        /\ counters[s][b] \in [count : Nat, until : Nat] /\ n \in Nat /\ m \in Nat
    BY BucketFacts, RateAssumption DEF RateTypes
  <1>2. n <= m /\ (Lives(b) => n = m)
    BY DEF CallsAreCounted
  <1>3. p \in Nat /\ q \in Nat /\ p <= q /\ (b = Bucket(now) => p = q)
    <2>1. CASE b = 0
      BY <2>1 DEF Before, AskedBefore
    <2>2. CASE b # 0
      <3>1. b - 1 \in Buckets /\ b - 1 \in Nat
        BY <2>2, BucketFacts
      <3>2. p = counters[s][b - 1].count /\ q = asked[s][b - 1]
        BY <2>2 DEF Before, AskedBefore
      <3>3. counters[s][b - 1] \in [count : Nat, until : Nat] /\ asked[s][b - 1] \in Nat
        BY <3>1 DEF RateTypes
      <3>4. /\ counters[s][b - 1].count <= asked[s][b - 1]
            /\ Lives(b - 1) => counters[s][b - 1].count = asked[s][b - 1]
        BY <3>1 DEF CallsAreCounted
      <3>5. b = Bucket(now) => Lives(b - 1)
        BY <1>1, <3>1, ThisOneLives
      <3> QED
        BY <3>2, <3>3, <3>4, <3>5
    <2> QED
      BY <2>1, <2>2
  <1>4. Observed(s, t) = p * w + (n + 1) * Window
    BY DEF Observed
  <1>5. b = Bucket(now) => Lives(b)
    BY <1>1, ThisOneLives
  <1> HIDE DEF w, n, p, m, q
  <1>6. p * w <= q * w /\ (n + 1) * Window <= (m + 1) * Window
    BY <1>1, <1>2, <1>3, ProductGrows
  <1>7. /\ p * w \in Nat /\ q * w \in Nat /\ (n + 1) * Window \in Nat /\ (m + 1) * Window \in Nat
    BY <1>1, <1>3
  <1>8. Observed(s, t) \in Nat /\ Observed(s, t) <= q * w + (m + 1) * Window
    BY <1>4, <1>6, <1>7
  <1>9. Lives(b) => Observed(s, t) >= (m + 1) * Window
    BY <1>2, <1>4, <1>7
  <1>10. b = Bucket(now) => Observed(s, t) = q * w + (m + 1) * Window
    BY <1>2, <1>3, <1>4, <1>5
  <1> QED
    BY <1>1, <1>3, <1>8, <1>9, <1>10 DEF w, m, q

(* How an answer ends. *)
LEMMA AnswerEnds ==
  ASSUME RateTypes, NEW c \in Clients, Answer(c)
  PROVE  \/ /\ LetIn(c) /\ refusals' = [refusals EXCEPT ![c] = 0] /\ notBefore' = notBefore
            /\ Observed(Subject(c), reading[c]) <= Limit[Subject(c)] * Window
         \/ /\ Refuse(c) /\ refusals' = [refusals EXCEPT ![c] = @ + 1]
            /\ letIn' = letIn /\ recent' = recent
            /\ Observed(Subject(c), reading[c]) > Limit[Subject(c)] * Window
  BY DEF Answer, LetIn, Refuse

(* What the one that is let in adds. *)
LEMMA LetInAdds ==
  ASSUME RateTypes, NEW c \in Clients, Answer(c), LetIn(c)
  PROVE  /\ letIn' \in [Subjects -> [Buckets -> Nat]]
         /\ letIn'[Subject(c)][Bucket(reading[c])] = letIn[Subject(c)][Bucket(reading[c])] + 1
         /\ \A t \in Subjects : \A d \in Buckets :
              (t # Subject(c) \/ d # Bucket(reading[c])) => letIn'[t][d] = letIn[t][d]
  <1> DEFINE s == Subject(c)
             b == Bucket(reading[c])
             up == [letIn[s] EXCEPT ![b] = letIn[s][b] + 1]
  <1>1. s \in Subjects /\ b \in Buckets
    BY AnswerCounts
  <1>2. letIn' = [letIn EXCEPT ![s] = up]
    BY DEF LetIn
  <1>3. letIn \in [Subjects -> [Buckets -> Nat]]
    BY DEF RateTypes
  <1> HIDE DEF s, b
  <1>4. letIn[s] \in [Buckets -> Nat] /\ letIn[s][b] \in Nat
    BY <1>1, <1>3
  <1>5. /\ up \in [Buckets -> Nat] /\ up[b] = letIn[s][b] + 1
        /\ \A d \in Buckets \ {b} : up[d] = letIn[s][d]
    BY <1>1, <1>4
  <1> HIDE DEF up
  <1>6. /\ letIn' \in [Subjects -> [Buckets -> Nat]] /\ letIn'[s] = up
        /\ \A t \in Subjects \ {s} : letIn'[t] = letIn[t]
    BY <1>1, <1>2, <1>3, <1>5
  <1>7. \A t \in Subjects : \A d \in Buckets : (t # s \/ d # b) => letIn'[t][d] = letIn[t][d]
    BY <1>5, <1>6
  <1> QED
    BY <1>5, <1>6, <1>7 DEF s, b

(* The one that is let in is the only new one. *)
LEMMA Newcomer ==
  ASSUME RateTypes, NEW c \in Clients, Answer(c), NEW s \in Subjects, NEW a \in recent'[s]
  PROVE  \/ a \in recent[s]
         \/ /\ s = Subject(c) /\ LetIn(c)
            /\ a = [at |-> now, late |-> Late(reading[c]),
                    number |-> asked'[Subject(c)][Bucket(reading[c])]]
  <1>1. CASE recent' = recent
    BY <1>1
  <1>2. CASE LetIn(c)
    <2> DEFINE new == [at |-> now, late |-> Late(reading[c]),
                       number |-> asked'[Subject(c)][Bucket(reading[c])]]
    <2>1. recent' = [recent EXCEPT ![Subject(c)] = recent[Subject(c)] \cup {new}]
      BY <1>2 DEF LetIn
    <2> HIDE DEF new
    <2>2. recent'[s] = recent[s] \/ (s = Subject(c) /\ recent'[s] = recent[s] \cup {new})
      BY <2>1 DEF RateTypes
    <2>3. a \in recent[s] \/ (s = Subject(c) /\ a = new)
      BY <2>2
    <2> QED
      BY <1>2, <2>3 DEF new
  <1> QED
    BY <1>1, <1>2, AnswerEnds

(* The types of what was let in. *)
LEMMA RecentFacts ==
  ASSUME RateTypes, NEW s \in Subjects, NEW a \in recent[s]
  PROVE  /\ a \in [at : Ticks, late : BOOLEAN, number : Nat]
         /\ a.at \in Ticks /\ a.at \in Nat /\ a.late \in BOOLEAN /\ a.number \in Nat
         /\ Bucket(a.at) \in Buckets /\ Bucket(a.at) \in Nat
         /\ Elapsed(a.at) \in Nat /\ Elapsed(a.at) < Window
         /\ a.at = Bucket(a.at) * Window + Elapsed(a.at)
  <1>1. a \in [at : Ticks, late : BOOLEAN, number : Nat]
    BY DEF RateTypes
  <1> QED
    BY <1>1, BucketFacts

LEMMA RateTypesNext ==
  ASSUME RateTypes, NEW c \in Clients, Answer(c)
  PROVE  RateTypes'
  <1>1. /\ now' = now /\ reading' = reading /\ calling' = [calling EXCEPT ![c] = FALSE]
        /\ asked' \in [Subjects -> [Buckets -> Nat]]
        /\ counters' \in [Subjects -> [Buckets -> [count : Nat, until : Nat]]]
    BY AnswerCounts, AnswerCounters
  <1>2. letIn' \in [Subjects -> [Buckets -> Nat]]
    BY AnswerEnds, LetInAdds DEF RateTypes
  <1>3. recent' \in [Subjects -> SUBSET [at : Ticks, late : BOOLEAN, number : Nat]]
    <2>1. CASE LetIn(c)
      <3> DEFINE new == [at |-> now, late |-> Late(reading[c]),
                         number |-> asked'[Subject(c)][Bucket(reading[c])]]
      <3>1. asked'[Subject(c)][Bucket(reading[c])] \in Nat
        BY AnswerCounts
      <3>2. Late(reading[c]) \in BOOLEAN
        BY DEF Late
      <3>3. new \in [at : Ticks, late : BOOLEAN, number : Nat]
        BY <3>1, <3>2 DEF RateTypes
      <3>4. recent' = [recent EXCEPT ![Subject(c)] = recent[Subject(c)] \cup {new}]
        BY <2>1 DEF LetIn
      <3> HIDE DEF new
      <3>5. recent \in [Subjects -> SUBSET [at : Ticks, late : BOOLEAN, number : Nat]]
            /\ Subject(c) \in Subjects
        BY SubjectFacts DEF RateTypes
      <3>6. recent[Subject(c)] \cup {new} \in SUBSET [at : Ticks, late : BOOLEAN, number : Nat]
        BY <3>3, <3>5
      <3> QED
        BY <3>4, <3>5, <3>6
    <2> QED
      BY <2>1, AnswerEnds DEF RateTypes
  <1>4. notBefore' \in [Clients -> 0..(LastTick + Window)]
    <2>1. CASE Refuse(c)
      <3> DEFINE until == IF c \in Obedient THEN now + RetryAfter(reading[c]) ELSE 0
      <3>1. until \in 0..(LastTick + Window)
        <4>1. /\ now \in Nat /\ now <= LastTick /\ LastTick \in Nat /\ Window \in Nat
              /\ reading[c] \in Ticks
          BY RateAssumption DEF RateTypes, Ticks
        <4>2. RetryAfter(reading[c]) \in Nat /\ RetryAfter(reading[c]) <= Window
          BY <4>1, RetryFacts
        <4> QED
          BY <4>1, <4>2
      <3>2. notBefore' = [notBefore EXCEPT ![c] = until]
        BY <2>1 DEF Refuse
      <3> HIDE DEF until
      <3> QED
        BY <3>1, <3>2 DEF RateTypes
    <2> QED
      BY <2>1, AnswerEnds DEF RateTypes
  <1>5. refusals' \in [Clients -> Nat]
    <2>1. refusals \in [Clients -> Nat] /\ refusals[c] + 1 \in Nat
      BY DEF RateTypes
    <2> QED
      BY <2>1, AnswerEnds
  <1>6. calling' \in [Clients -> BOOLEAN]
    BY <1>1 DEF RateTypes
  <1> QED
    BY <1>1, <1>2, <1>3, <1>4, <1>5, <1>6 DEF RateTypes

(* Answer keeps each part of the invariant. *)
LEMMA CallsAreCountedNext ==
  ASSUME RateTypes, CallsAreCounted, NEW c \in Clients, Answer(c)
  PROVE  CallsAreCounted'
  <1> SUFFICES ASSUME NEW s \in Subjects, NEW b \in Buckets
               PROVE  /\ counters'[s][b].count <= asked'[s][b]
                      /\ Lives(b)' => /\ counters'[s][b].count = asked'[s][b]
                                      /\ asked'[s][b] > 0 => counters'[s][b].until >= (b + 2) * Window
                      /\ b > Bucket(now') => asked'[s][b] = 0
    BY DEF CallsAreCounted
  <1>1. now' = now /\ (Lives(b)' <=> Lives(b))
    BY AnswerCounts DEF Lives
  <1>2. /\ counters[s][b].count <= asked[s][b]
        /\ Lives(b) => /\ counters[s][b].count = asked[s][b]
                       /\ asked[s][b] > 0 => counters[s][b].until >= (b + 2) * Window
        /\ b > Bucket(now) => asked[s][b] = 0
    BY DEF CallsAreCounted
  <1>3. CASE s # Subject(c) \/ b # Bucket(reading[c])
    <2>1. asked'[s][b] = asked[s][b] /\ counters'[s][b] = counters[s][b]
      BY <1>3, AnswerCounts, AnswerCounters
    <2> QED
      BY <1>1, <1>2, <2>1
  <1>4. CASE s = Subject(c) /\ b = Bucket(reading[c])
    <2>1. /\ asked'[s][b] = asked[s][b] + 1 /\ asked[s][b] \in Nat
          /\ counters'[s][b].count = counters[s][b].count + 1 /\ counters[s][b].count \in Nat
          /\ counters'[s][b].until = now + 2 * Window
          /\ b <= Bucket(now) /\ b \in Nat
      BY <1>4, AnswerCounts, AnswerCounters
    <2>2. /\ now \in Nat /\ now \in Ticks /\ Window \in Nat /\ Bucket(now) \in Nat
      BY BucketFacts, RateAssumption DEF RateTypes
    <2>3. now >= b * Window
      <3>1. /\ reading[c] \in Ticks /\ reading[c] <= now /\ reading[c] \in Nat
            /\ Elapsed(reading[c]) \in Nat
            /\ reading[c] = Bucket(reading[c]) * Window + Elapsed(reading[c])
        BY BucketFacts DEF RateTypes
      <3>2. b * Window \in Nat /\ reading[c] = b * Window + Elapsed(reading[c])
        BY <1>4, <2>1, <2>2, <3>1
      <3> QED
        BY <2>2, <3>1, <3>2
    <2>4. (b + 2) * Window = b * Window + 2 * Window /\ b * Window \in Nat
      BY <2>1, <2>2
    <2>5. counters'[s][b].until >= (b + 2) * Window
      BY <2>1, <2>2, <2>3, <2>4
    <2>6. ~(b > Bucket(now'))
      BY <1>1, <2>1, <2>2
    <2> QED
      BY <1>1, <1>2, <2>1, <2>5, <2>6
  <1> QED
    BY <1>3, <1>4

(* Multiples of a window compare as their factors do. *)
LEMMA FactorsCompare ==
  \A n, m \in Nat : n * Window <= m * Window => n <= m
  <1> SUFFICES ASSUME NEW n \in Nat, NEW m \in Nat, n * Window <= m * Window, m < n PROVE FALSE
    OBVIOUS
  <1>1. Window \in Nat /\ Window > 0
    BY SubjectFacts
  <1>2. (m + 1) * Window <= n * Window
    BY <1>1, ProductGrows
  <1>3. (m + 1) * Window = m * Window + Window /\ m * Window \in Nat /\ n * Window \in Nat
    BY <1>1
  <1> QED
    BY <1>1, <1>2, <1>3

LEMMA LetInWithinLimitNext ==
  ASSUME RateTypes, CallsAreCounted, LetInWithinLimit, NEW c \in Clients, Answer(c)
  PROVE  LetInWithinLimit'
  <1> SUFFICES ASSUME NEW s \in Subjects, NEW b \in Buckets
               PROVE  letIn'[s][b] <= asked'[s][b] /\ (Lives(b)' => letIn'[s][b] <= Limit[s])
    BY DEF LetInWithinLimit
  <1>1. now' = now /\ (Lives(b)' <=> Lives(b))
    BY AnswerCounts DEF Lives
  <1>2. letIn[s][b] <= asked[s][b] /\ (Lives(b) => letIn[s][b] <= Limit[s])
    BY DEF LetInWithinLimit
  <1>3. asked[s][b] \in Nat /\ asked'[s][b] \in Nat /\ asked[s][b] <= asked'[s][b]
    BY AskedGrows
  <1>4. letIn[s][b] \in Nat /\ Limit[s] \in Nat /\ Window \in Nat
    BY SubjectFacts DEF RateTypes
  <1>5. CASE letIn'[s][b] = letIn[s][b]
    BY <1>1, <1>2, <1>3, <1>4, <1>5
  <1>6. CASE letIn'[s][b] # letIn[s][b]
    <2>1. /\ LetIn(c) /\ s = Subject(c) /\ b = Bucket(reading[c])
          /\ letIn'[s][b] = letIn[s][b] + 1
          /\ Observed(s, reading[c]) <= Limit[s] * Window
      BY <1>6, AnswerEnds, LetInAdds
    <2>2. asked'[s][b] = asked[s][b] + 1
      BY <2>1, AnswerCounts
    <2>3. /\ reading[c] \in Ticks /\ b <= Bucket(now)
      BY <2>1, AnswerCounts DEF RateTypes
    <2>4. /\ Observed(s, reading[c]) \in Nat
          /\ Lives(b) => Observed(s, reading[c]) >= (asked[s][b] + 1) * Window
      BY <2>1, <2>3, ObservedFacts
    <2>5. ASSUME Lives(b) PROVE letIn'[s][b] <= Limit[s]
      <3>1. (asked[s][b] + 1) * Window \in Nat /\ Limit[s] * Window \in Nat
        BY <1>3, <1>4
      <3>2. (asked[s][b] + 1) * Window <= Limit[s] * Window
        BY <2>1, <2>4, <2>5, <3>1
      <3>3. asked[s][b] + 1 \in Nat
        BY <1>3
      <3>4. asked[s][b] + 1 <= Limit[s]
        BY <1>4, <3>2, <3>3, FactorsCompare
      <3> QED
        BY <1>2, <1>3, <1>4, <2>1, <3>4
    <2> QED
      BY <1>1, <1>2, <1>3, <1>4, <2>1, <2>2, <2>5
  <1> QED
    BY <1>5, <1>6

LEMMA RecentIsFiniteNext ==
  ASSUME RateTypes, RecentIsFinite, NEW c \in Clients, Answer(c)
  PROVE  RecentIsFinite'
  <1> SUFFICES ASSUME NEW s \in Subjects PROVE IsFiniteSet(recent'[s])
    BY DEF RecentIsFinite
  <1>1. IsFiniteSet(recent[s])
    BY DEF RecentIsFinite
  <1>2. CASE recent' = recent
    BY <1>1, <1>2
  <1>3. CASE LetIn(c)
    <2> DEFINE new == [at |-> now, late |-> Late(reading[c]),
                       number |-> asked'[Subject(c)][Bucket(reading[c])]]
    <2>1. recent' = [recent EXCEPT ![Subject(c)] = recent[Subject(c)] \cup {new}]
      BY <1>3 DEF LetIn
    <2> HIDE DEF new
    <2>2. recent'[s] = recent[s] \/ recent'[s] = recent[s] \cup {new}
      BY <2>1 DEF RateTypes
    <2>3. IsFiniteSet(recent[s] \cup {new})
      BY <1>1, FS_AddElement
    <2> QED
      BY <1>1, <2>2, <2>3
  <1> QED
    BY <1>2, <1>3, AnswerEnds

LEMMA RecentAreNumberedNext ==
  ASSUME RateTypes, CallsAreCounted, RecentAreNumbered, NEW c \in Clients, Answer(c)
  PROVE  RecentAreNumbered'
  <1>1. now' = now /\ now \in Ticks /\ now \in Nat /\ Window \in Nat /\ Window > 0
    BY AnswerCounts, BucketFacts, SubjectFacts DEF RateTypes
  <1>2. ASSUME NEW s \in Subjects, NEW a \in recent'[s]
        PROVE  /\ a.at <= now /\ now - a.at < Window
               /\ ~a.late => a.number \in 1..asked'[s][Bucket(a.at)]
    <2>1. CASE a \in recent[s]
      <3>1. a.at <= now /\ now - a.at < Window /\ (~a.late => a.number \in 1..asked[s][Bucket(a.at)])
        BY <2>1 DEF RecentAreNumbered
      <3>2. Bucket(a.at) \in Buckets
        BY <2>1, RecentFacts
      <3>3. /\ asked[s][Bucket(a.at)] \in Nat /\ asked'[s][Bucket(a.at)] \in Nat
            /\ asked[s][Bucket(a.at)] <= asked'[s][Bucket(a.at)]
        BY <3>2, AskedGrows
      <3> QED
        BY <3>1, <3>3
    <2>2. CASE a \notin recent[s]
      <3>1. /\ s = Subject(c) /\ a.at = now /\ a.late = Late(reading[c])
            /\ a.number = asked'[s][Bucket(reading[c])]
        BY <2>2, Newcomer
      <3>2. ~a.late => Bucket(reading[c]) = Bucket(a.at)
        BY <3>1 DEF Late
      <3>3. /\ asked'[s][Bucket(reading[c])] = asked[s][Bucket(reading[c])] + 1
            /\ asked[s][Bucket(reading[c])] \in Nat
        BY <3>1, AnswerCounts
      <3>4. a.number \in 1..asked'[s][Bucket(reading[c])]
        BY <3>1, <3>3
      <3> QED
        BY <1>1, <3>1, <3>2, <3>4
    <2> QED
      BY <2>1, <2>2
  <1>3. ASSUME NEW s \in Subjects, NEW a \in recent'[s], NEW d \in recent'[s], ~a.late, ~d.late,
               Bucket(a.at) = Bucket(d.at), a.number = d.number
        PROVE  a = d
    <2>1. CASE a \in recent[s] /\ d \in recent[s]
      BY <1>3, <2>1 DEF RecentAreNumbered
    <2>2. ASSUME NEW x \in recent[s], NEW y, y \notin recent[s], y \in recent'[s], ~x.late, ~y.late,
                 Bucket(x.at) = Bucket(y.at), x.number = y.number
          PROVE  FALSE
      <3>1. /\ s = Subject(c) /\ y.at = now /\ y.late = Late(reading[c])
            /\ y.number = asked'[s][Bucket(reading[c])]
        BY <2>2, Newcomer
      <3>2. Bucket(reading[c]) = Bucket(y.at)
        BY <2>2, <3>1 DEF Late
      <3>3. x.number \in 1..asked[s][Bucket(reading[c])]
        BY <2>2, <3>2 DEF RecentAreNumbered
      <3>4. /\ asked'[s][Bucket(reading[c])] = asked[s][Bucket(reading[c])] + 1
            /\ asked[s][Bucket(reading[c])] \in Nat
        BY <3>1, AnswerCounts
      <3> QED
        BY <2>2, <3>1, <3>3, <3>4
    <2>3. CASE a \notin recent[s] /\ d \notin recent[s]
      <3>1. a = [at |-> now, late |-> Late(reading[c]),
                 number |-> asked'[Subject(c)][Bucket(reading[c])]]
        BY <2>3, Newcomer
      <3>2. d = [at |-> now, late |-> Late(reading[c]),
                 number |-> asked'[Subject(c)][Bucket(reading[c])]]
        BY <2>3, Newcomer
      <3> QED
        BY <3>1, <3>2
    <2>4. CASE a \in recent[s] /\ d \notin recent[s]
      BY <1>3, <2>2, <2>4
    <2>5. CASE a \notin recent[s] /\ d \in recent[s]
      BY <1>3, <2>2, <2>5
    <2> QED
      BY <2>1, <2>3, <2>4, <2>5
  <1> QED
    BY <1>1, <1>2, <1>3 DEF RecentAreNumbered

LEMMA RecentWithinLimitNext ==
  ASSUME RateTypes, CallsAreCounted, RecentAreNumbered, RecentWithinLimit,
         NEW c \in Clients, Answer(c)
  PROVE  RecentWithinLimit'
  <1> SUFFICES ASSUME NEW s \in Subjects, NEW a \in recent'[s], ~a.late
               PROVE  /\ a.number <= Limit[s]
                      /\ \A d \in recent'[s] : ~d.late /\ Bucket(d.at) + 1 = Bucket(a.at) =>
                           d.number * (Window - Elapsed(a.at)) + a.number * Window
                             <= Limit[s] * Window
    BY DEF RecentWithinLimit
  <1>1. now' = now /\ now \in Ticks /\ now \in Nat /\ Window \in Nat /\ Window > 0
        /\ Bucket(now) \in Nat
    BY AnswerCounts, BucketFacts, SubjectFacts DEF RateTypes
  <1>2. ASSUME NEW d \in recent'[s], ~d.late, Bucket(d.at) < Bucket(now)
        PROVE  d \in recent[s]
    <2>1. d \notin recent[s] => d.at = now
      BY Newcomer
    <2> QED
      BY <1>1, <1>2, <2>1
  <1>3. CASE a \in recent[s]
    <2>1. a.number <= Limit[s]
      BY <1>3 DEF RecentWithinLimit
    <2>2. ASSUME NEW d \in recent'[s], ~d.late, Bucket(d.at) + 1 = Bucket(a.at)
          PROVE  d.number * (Window - Elapsed(a.at)) + a.number * Window <= Limit[s] * Window
      <3>1. a.at \in Ticks /\ a.at <= now /\ Bucket(a.at) \in Nat
        BY <1>3, RecentFacts DEF RecentAreNumbered
      <3>2. Bucket(a.at) <= Bucket(now)
        BY <1>1, <3>1, BucketFacts
      <3>3. d \in recent[s]
        <4>1. d \notin recent[s] => d.at = now
          BY Newcomer
        <4>2. ASSUME d \notin recent[s] PROVE FALSE
          BY <1>1, <2>2, <3>1, <3>2, <4>1, <4>2
        <4> QED
          BY <4>2
      <3> QED
        BY <1>3, <2>2, <3>3 DEF RecentWithinLimit
    <2> QED
      BY <2>1, <2>2
  <1>4. CASE a \notin recent[s]
    <2> DEFINE b == Bucket(now)
               n == asked[s][b]
               p == AskedBefore(s, b)
               e == Elapsed(reading[c])
               L == Limit[s]
    <2>1. /\ s = Subject(c) /\ a.at = now /\ a.late = Late(reading[c])
          /\ a.number = asked'[s][Bucket(reading[c])]
      BY <1>4, Newcomer
    <2>2. Bucket(reading[c]) = b /\ Bucket(a.at) = b
      BY <2>1 DEF Late
    <2>3. /\ a.number = n + 1 /\ n \in Nat /\ b \in Buckets
          /\ reading[c] \in Ticks /\ reading[c] <= now
      BY <2>1, <2>2, AnswerCounts DEF RateTypes
    <2>4. /\ Observed(s, reading[c]) \in Nat /\ p \in Nat
          /\ Observed(s, reading[c]) = p * (Window - e) + (n + 1) * Window
      <3>1. b = Bucket(reading[c]) /\ b <= Bucket(now) /\ b = Bucket(now)
        BY <1>1, <2>2
      <3> HIDE DEF b
      <3> QED
        BY <2>3, <3>1, ObservedFacts
    <2>5. Observed(s, reading[c]) <= L * Window
      <3>1. recent' # recent
        BY <1>4
      <3> QED
        BY <2>1, <3>1, AnswerEnds
    <2>6. /\ e \in Nat /\ e < Window /\ Elapsed(a.at) \in Nat /\ Elapsed(a.at) < Window
          /\ e <= Elapsed(a.at)
      <3>1. /\ e \in Nat /\ e < Window /\ reading[c] = b * Window + e
            /\ Elapsed(now) \in Nat /\ Elapsed(now) < Window /\ now = b * Window + Elapsed(now)
        BY <1>1, <2>2, <2>3, BucketFacts
      <3>2. b * Window \in Nat
        BY <1>1
      <3> HIDE DEF b, e
      <3>3. e <= Elapsed(now)
        BY <1>1, <2>3, <3>1, <3>2
      <3> QED
        BY <2>1, <3>1, <3>3
    <2>7. L \in Nat /\ L * Window \in Nat
      BY <1>1, SubjectFacts
    <2>8. a.number <= L
      <3>1. p * (Window - e) \in Nat /\ (n + 1) * Window \in Nat
        BY <1>1, <2>3, <2>4, <2>6
      <3>2. (n + 1) * Window <= L * Window
        BY <2>4, <2>5, <2>7, <3>1
      <3>3. n + 1 \in Nat
        BY <2>3
      <3> QED
        BY <2>3, <2>7, <3>2, <3>3, FactorsCompare
    <2>9. ASSUME NEW d \in recent'[s], ~d.late, Bucket(d.at) + 1 = Bucket(a.at)
          PROVE  d.number * (Window - Elapsed(a.at)) + a.number * Window <= L * Window
      <3>1. d \in recent[s]
        <4>1. d \notin recent[s] => d.at = now
          BY Newcomer
        <4> QED
          BY <1>1, <2>2, <2>9, <4>1
      <3>2. /\ Bucket(d.at) \in Nat /\ d.number \in Nat /\ d.number \in 1..asked[s][Bucket(d.at)]
            /\ Bucket(d.at) \in Buckets
        BY <2>9, <3>1, RecentFacts DEF RecentAreNumbered
      <3>3. Bucket(d.at) = b - 1 /\ b # 0
        BY <1>1, <2>2, <2>9, <3>2
      <3>4. d.number <= p
        <4>1. p = asked[s][Bucket(d.at)]
          BY <3>3 DEF AskedBefore
        <4> QED
          BY <2>4, <3>2, <4>1
      <3>5. d.number * (Window - Elapsed(a.at)) <= p * (Window - e)
        <4> HIDE DEF p, e, b
        <4>1. /\ Window - Elapsed(a.at) \in Nat /\ Window - e \in Nat
              /\ Window - Elapsed(a.at) <= Window - e
          BY <1>1, <2>6
        <4>2. d.number * (Window - Elapsed(a.at)) <= p * (Window - Elapsed(a.at))
          BY <2>4, <3>2, <3>4, <4>1, ProductGrows
        <4>3. (Window - Elapsed(a.at)) * p <= (Window - e) * p
          BY <2>4, <4>1, ProductGrows
        <4>4. /\ (Window - Elapsed(a.at)) * p = p * (Window - Elapsed(a.at))
              /\ (Window - e) * p = p * (Window - e)
          BY <2>4, <4>1
        <4>5. /\ d.number * (Window - Elapsed(a.at)) \in Nat /\ p * (Window - Elapsed(a.at)) \in Nat
              /\ p * (Window - e) \in Nat
          BY <2>4, <3>2, <4>1
        <4> QED
          BY <4>2, <4>3, <4>4, <4>5
      <3>6. /\ d.number * (Window - Elapsed(a.at)) \in Nat /\ p * (Window - e) \in Nat
            /\ (n + 1) * Window \in Nat
        BY <1>1, <2>3, <2>4, <2>6, <3>2
      <3> QED
        BY <2>3, <2>4, <2>5, <2>7, <3>5, <3>6
    <2> QED
      BY <2>8, <2>9
  <1> QED
    BY <1>3, <1>4

(* What the window before weighs is no more than what was asked in it. *)
LEMMA WeightBound ==
  ASSUME NEW p \in Nat, NEW n \in Nat, NEW L \in Nat, NEW e \in Nat, e < Window,
         p * (Window - e) + n * Window > L * Window
  PROVE  n + p > L
  <1>1. Window \in Nat
    BY RateAssumption
  <1>2. ASSUME n + p <= L PROVE FALSE
    <2>1. (n + p) * Window <= L * Window
      <3>1. n + p \in Nat
        OBVIOUS
      <3> QED
        BY <1>1, <1>2, <3>1, ProductGrows, ZenonT(40)
    <2>2. (n + p) * Window = n * Window + p * Window
      BY <1>1
    <2>3. (Window - e) * p <= Window * p
      BY <1>1, ProductGrows
    <2>4. (Window - e) * p = p * (Window - e) /\ Window * p = p * Window
      BY <1>1
    <2>5. /\ n * Window \in Nat /\ p * Window \in Nat /\ L * Window \in Nat
          /\ p * (Window - e) \in Nat
      BY <1>1
    <2> QED
      BY <2>1, <2>2, <2>3, <2>4, <2>5
  <1> QED
    BY <1>2

LEMMA RefusedForOwnNext ==
  ASSUME RateTypes, CallsAreCounted, RefusedForOwn, NEW c \in Clients, Answer(c)
  PROVE  RefusedForOwn'
  <1> SUFFICES ASSUME NEW k \in Clients, refusals'[k] > 0, ~calling'[k]
               PROVE  Earned(k)'
    BY DEF RefusedForOwn
  <1> DEFINE s == Subject(k)
             b == Bucket(reading[k])
  <1>1. /\ reading' = reading /\ s \in Subjects /\ b \in Buckets /\ b \in Nat
        /\ calling' = [calling EXCEPT ![c] = FALSE]
    BY AnswerCounts, SubjectFacts, BucketFacts DEF RateTypes
  <1>2. /\ asked[s][b] \in Nat /\ asked'[s][b] \in Nat /\ asked[s][b] <= asked'[s][b]
    BY <1>1, AskedGrows
  <1>3. AskedBefore(s, b) \in Nat /\ AskedBefore(s, b)' \in Nat /\ AskedBefore(s, b) <= AskedBefore(s, b)'
    <2>1. b # 0 => b - 1 \in Buckets
      BY <1>1, BucketFacts
    <2> QED
      BY <1>1, <2>1, AskedGrows DEF AskedBefore
  <1>4. Limit[s] \in Nat
    BY <1>1, SubjectFacts
  <1>5. SUFFICES asked'[s][b] + AskedBefore(s, b)' > Limit[s]
    BY <1>1 DEF Earned
  <1>6. CASE k # c
    <2>1. refusals'[k] = refusals[k] /\ calling'[k] = calling[k]
      BY <1>1, <1>6, AnswerEnds DEF RateTypes
    <2>2. asked[s][b] + AskedBefore(s, b) > Limit[s]
      BY <2>1 DEF RefusedForOwn, Earned
    <2> QED
      BY <1>2, <1>3, <1>4, <2>2
  <1>7. CASE k = c
    <2>1. Observed(s, reading[k]) > Limit[s] * Window
      <3>1. refusals' # [refusals EXCEPT ![c] = 0]
        BY <1>7 DEF RateTypes
      <3> QED
        BY <1>7, <3>1, AnswerEnds
    <2> DEFINE e == Elapsed(reading[k])
    <2>2. /\ reading[k] \in Ticks /\ e \in Nat /\ e < Window /\ b <= Bucket(now)
          /\ Window \in Nat
      BY <1>7, AnswerCounts, BucketFacts, RateAssumption DEF RateTypes
    <2>3. /\ Observed(s, reading[k]) \in Nat
          /\ Observed(s, reading[k]) <= AskedBefore(s, b) * (Window - e) + (asked[s][b] + 1) * Window
      BY <1>1, <2>2, ObservedFacts
    <2>4. asked'[s][b] = asked[s][b] + 1
      BY <1>7, AnswerCounts
    <2> DEFINE p == AskedBefore(s, b)
               n == asked[s][b] + 1
    <2>5. n \in Nat /\ p \in Nat
      BY <1>2, <1>3
    <2>6. p * (Window - e) + n * Window > Limit[s] * Window
      <3>1. Observed(s, reading[k]) <= p * (Window - e) + n * Window
        BY <2>3
      <3> HIDE DEF s, b, p, n, e
      <3>2. p * (Window - e) \in Nat /\ n * Window \in Nat /\ Limit[s] * Window \in Nat
        BY <1>4, <2>2, <2>5
      <3> QED
        BY <2>1, <2>3, <3>1, <3>2
    <2> HIDE DEF s, b, e
    <2>7. n + p > Limit[s]
      <3> HIDE DEF p, n
      <3> QED
        BY <1>4, <2>2, <2>5, <2>6, WeightBound
    <2> QED
      BY <1>2, <1>3, <1>4, <2>4, <2>7
  <1> QED
    BY <1>6, <1>7

LEMMA AloneInOrderNext ==
  ASSUME RateTypes, AloneInOrder, NEW c \in Clients, Answer(c)
  PROVE  AloneInOrder'
  <1> SUFFICES ASSUME NEW k \in Clients, Alone(k), NEW d \in Buckets, d > Bucket(reading[k])
               PROVE  asked'[Subject(k)][d] = 0
    BY AnswerCounts DEF AloneInOrder, Alone
  <1>1. asked[Subject(k)][d] = 0 /\ Subject(k) \in Subjects
    BY SubjectFacts DEF AloneInOrder
  <1>2. Subject(k) # Subject(c) \/ d # Bucket(reading[c])
    <2>1. CASE k = c
      <3>1. Bucket(reading[k]) \in Nat /\ d \in Nat
        BY BucketFacts DEF RateTypes
      <3> QED
        BY <2>1, <3>1
    <2>2. CASE k # c
      BY <2>2 DEF Alone
    <2> QED
      BY <2>1, <2>2
  <1> QED
    BY <1>1, <1>2, AnswerCounts

(* Two calls in the window before do not have the first one refused. *)
LEMMA FirstIsServed ==
  ASSUME NEW p \in Nat, p <= 2, NEW L \in Nat, L > 2, NEW e \in Nat, e < Window
  PROVE  p * (Window - e) + 1 * Window <= L * Window
  <1>1. Window \in Nat /\ Window - e \in Nat /\ Window - e <= Window
    BY RateAssumption
  <1>2. p * (Window - e) <= 2 * (Window - e)
    BY <1>1, ProductGrows
  <1>3. 3 * Window <= L * Window
    BY <1>1, ProductGrows
  <1>4. p * (Window - e) \in Nat /\ L * Window \in Nat
    BY <1>1
  <1> QED
    BY <1>1, <1>2, <1>3, <1>4

(* How the answer refuses whoever waits. *)
LEMMA WaiterIsRefused ==
  ASSUME RateTypes, CallsAreCounted, NEW k \in Clients, Answer(k), Waits(k), refusals'[k] > 0,
         NEW r, r = reading[k], NEW s, s = Subject(k), NEW b, b = Bucket(r)
  PROVE  /\ r \in Nat /\ r \in Ticks /\ r <= now /\ now \in Nat
         /\ notBefore'[k] = now + RetryAfter(r) /\ refusals'[k] = refusals[k] + 1
         /\ refusals[k] \in Nat /\ Limit[s] \in Nat
         /\ AskedBefore(s, b) \in Nat
         /\ AskedBefore(s, b) * (Window - Elapsed(r)) + (asked[s][b] + 1) * Window > Limit[s] * Window
  <1>1. /\ r \in Ticks /\ r \in Nat /\ r <= now /\ now \in Nat /\ s \in Subjects /\ b \in Buckets
        /\ b \in Nat /\ b <= Bucket(now) /\ Limit[s] \in Nat /\ refusals[k] \in Nat
        /\ Elapsed(r) \in Nat /\ Elapsed(r) < Window /\ Window \in Nat
    BY AnswerCounts, SubjectFacts, BucketFacts DEF RateTypes
  <1>2. /\ Refuse(k) /\ refusals' = [refusals EXCEPT ![k] = @ + 1]
        /\ Observed(s, r) > Limit[s] * Window
    <2>1. refusals' # [refusals EXCEPT ![k] = 0]
      BY DEF RateTypes
    <2> QED
      BY <2>1, AnswerEnds
  <1>3. notBefore'[k] = now + RetryAfter(r) /\ refusals'[k] = refusals[k] + 1
    BY <1>2 DEF Refuse, Waits, RateTypes
  <1>4. /\ Observed(s, r) \in Nat /\ AskedBefore(s, b) \in Nat /\ asked[s][b] \in Nat
        /\ Observed(s, r) <= AskedBefore(s, b) * (Window - Elapsed(r)) + (asked[s][b] + 1) * Window
    BY <1>1, ObservedFacts
  <1> DEFINE p == AskedBefore(s, b)
             n == asked[s][b] + 1
  <1>5. p * (Window - Elapsed(r)) + n * Window > Limit[s] * Window
    <2>1. /\ p \in Nat /\ n \in Nat /\ Observed(s, r) <= p * (Window - Elapsed(r)) + n * Window
      BY <1>4
    <2> HIDE DEF p, n
    <2>2. p * (Window - Elapsed(r)) \in Nat /\ n * Window \in Nat /\ Limit[s] * Window \in Nat
      BY <1>1, <2>1
    <2> QED
      BY <1>2, <1>4, <2>1, <2>2
  <1> QED
    BY <1>1, <1>3, <1>4, <1>5

LEMMA WaitIsEnoughNext ==
  ASSUME RateTypes, CallsAreCounted, AloneInOrder, WaitIsEnough, NEW c \in Clients, Answer(c)
  PROVE  WaitIsEnough'
  <1> SUFFICES ASSUME NEW k \in Clients, Waits(k), refusals'[k] > 0
               PROVE  /\ calling'[k] => reading'[k] >= notBefore'[k]
                      /\ \E b \in Buckets : WaitedSince(k, b)'
    BY DEF WaitIsEnough, Waits, Alone
  <1>2. CASE k # c
    <2>1. refusals'[k] = refusals[k] /\ notBefore'[k] = notBefore[k]
      BY <1>2, AnswerEnds DEF RateTypes, Refuse
    <2>2. calling'[k] = calling[k] /\ reading'[k] = reading[k]
      BY <1>2, AnswerCounts DEF RateTypes
    <2>3. Subject(k) # Subject(c) /\ Subject(k) \in Subjects
      BY <1>2, SubjectFacts DEF Waits, Alone
    <2>4. \A d \in Buckets : asked'[Subject(k)][d] = asked[Subject(k)][d]
      BY <2>3, AnswerCounts
    <2>5. (calling[k] => reading[k] >= notBefore[k]) /\ \E b \in Buckets : WaitedSince(k, b)
      BY <2>1 DEF WaitIsEnough
    <2>6. PICK b \in Buckets : WaitedSince(k, b)
      BY <2>5
    <2>7. WaitedSince(k, b)'
      BY <2>1, <2>4, <2>6 DEF WaitedSince
    <2>8. \E d \in Buckets : WaitedSince(k, d)'
      BY <2>1, <2>4, <2>6 DEF WaitedSince
    <2> QED
      BY <2>1, <2>2, <2>5, <2>8
  <1>3. CASE k = c
    <2> DEFINE s == Subject(k)
               r == reading[k]
               B == Bucket(r)
               own == asked[s]
    <2>1. /\ r \in Nat /\ r \in Ticks /\ r <= now /\ now \in Nat
          /\ notBefore'[k] = now + RetryAfter(r) /\ refusals'[k] = refusals[k] + 1
          /\ refusals[k] \in Nat /\ Limit[s] \in Nat
          /\ AskedBefore(s, B) \in Nat
          /\ AskedBefore(s, B) * (Window - Elapsed(r)) + (own[B] + 1) * Window > Limit[s] * Window
      BY <1>3, WaiterIsRefused
    <2>2. /\ B \in Buckets /\ B \in Nat /\ Elapsed(r) \in Nat /\ Elapsed(r) < Window
          /\ r = B * Window + Elapsed(r) /\ Window \in Nat
          /\ own[B] \in Nat /\ asked'[s][B] = own[B] + 1
      BY <1>3, <2>1, AnswerCounts, BucketFacts, SubjectFacts
    <2>3. ASSUME NEW d \in Buckets, d > B PROVE own[d] = 0 /\ asked'[s][d] = 0
      <3>1. own[d] = 0
        BY <2>3 DEF AloneInOrder, Waits
      <3>2. d # B
        BY <2>2, <2>3
      <3>3. asked'[s][d] = own[d]
        BY <1>3, <3>2, AnswerCounts
      <3> QED
        BY <3>1, <3>3
    <2>4. /\ RetryAfter(r) \in Nat /\ Second <= RetryAfter(r)
          /\ r + RetryAfter(r) + Second > (B + 1) * Window
          /\ Second \in Nat /\ Second <= Window /\ (B + 1) * Window \in Nat
      BY <2>1, <2>2, RetryFacts, SecondFacts
    <2>5. notBefore'[k] + Second > (B + 1) * Window
      BY <2>1, <2>4
    <2>6. ~calling'[k]
      BY <1>3, AnswerCounts DEF RateTypes
    <2>7. SUFFICES /\ refusals'[k] > 1 =>
                        \/ asked'[s][B] = 1
                        \/ (asked'[s][B] = 2 \/ refusals'[k] = 2) /\ notBefore'[k] >= (B + 1) * Window
                   /\ refusals'[k] > 3 => asked'[s][B] = 2
                   /\ refusals'[k] <= 4
      BY <2>2, <2>3, <2>5, <2>6 DEF WaitedSince
    <2>8. CASE refusals[k] = 0
      BY <2>1, <2>8
    <2>9. CASE refusals[k] > 0
      <3>1. r >= notBefore[k] /\ notBefore[k] \in Nat /\ \E b \in Buckets : WaitedSince(k, b)
        BY <1>3, <2>9, AnswerCounts DEF WaitIsEnough, RateTypes
      <3>2. PICK b \in Buckets : WaitedSince(k, b)
        BY <3>1
      <3> DEFINE E == (b + 1) * Window
      <3>3. /\ notBefore[k] + Second > E
            /\ \A d \in Buckets : d > b => own[d] = 0
            /\ refusals[k] > 1 =>
                 \/ own[b] = 1
                 \/ (own[b] = 2 \/ refusals[k] = 2) /\ notBefore[k] >= E
            /\ refusals[k] > 3 => own[b] = 2
            /\ refusals[k] <= 4
        BY <3>2 DEF WaitedSince
      <3>4. b \in Nat /\ E \in Nat /\ E = b * Window + Window
        <4>1. b \in Nat
          BY BucketFacts
        <4> QED
          BY <2>2, <4>1
      <3> HIDE DEF E, s, r, B, own
      <3>5. b <= B
        <4>1. ASSUME B < b PROVE FALSE
          <5>1. (B + 1) * Window <= b * Window
            BY <2>2, <3>4, <4>1, ProductGrows
          <5>2. (B + 1) * Window = B * Window + Window /\ B * Window \in Nat /\ b * Window \in Nat
            BY <2>2, <3>4
          <5> QED
            BY <2>1, <2>2, <2>4, <3>1, <3>3, <3>4, <5>1, <5>2
        <4> QED
          BY <2>2, <3>4, <4>1
      <3>6. CASE b = B
        <4>1. r < E
          <5>1. E = B * Window + Window /\ B * Window \in Nat
            BY <2>2, <3>4, <3>6
          <5> QED
            BY <2>1, <2>2, <5>1
        <4>2. ~(notBefore[k] >= E)
          BY <2>1, <3>1, <3>4, <4>1
        <4>3. refusals[k] > 1 => own[B] = 1
          BY <3>3, <3>6, <4>2
        <4>4. notBefore'[k] >= (B + 1) * Window
          <5>1. r + RetryAfter(r) >= E
            BY <2>1, <2>4, <3>1, <3>3, <3>4
          <5> QED
            BY <2>1, <2>4, <3>4, <3>6, <5>1 DEF E
        <4>5. refusals'[k] = 2 \/ asked'[s][B] = 2
          BY <2>1, <2>2, <2>9, <4>3
        <4>6. refusals'[k] > 3 => asked'[s][B] = 2
          BY <4>5
        <4>7. refusals'[k] <= 4
          BY <2>1, <2>2, <3>3, <3>6, <4>3
        <4> QED
          BY <4>4, <4>5, <4>6, <4>7
      <3>7. CASE b < B
        <4>1. own[B] = 0 /\ asked'[s][B] = 1
          BY <2>2, <3>3, <3>7
        <4>2. ASSUME refusals[k] > 2 PROVE FALSE
          <5> DEFINE p == AskedBefore(s, B)
          <5>1. p \in Nat /\ p <= 2
            <6>1. B # 0 /\ B - 1 \in Buckets /\ p = own[B - 1]
              BY <2>2, <3>4, <3>7, BucketFacts DEF AskedBefore, own
            <6>2. CASE B - 1 = b
              <7>1. own[b] = 1 \/ own[b] = 2
                BY <2>1, <3>3, <4>2
              <7> QED
                BY <6>1, <6>2, <7>1
            <6>3. CASE B - 1 # b
              <7>1. B - 1 > b
                BY <2>2, <3>4, <3>7, <6>3
              <7>2. own[B - 1] = 0
                BY <3>3, <6>1, <7>1
              <7> QED
                BY <6>1, <7>2
            <6> QED
              BY <6>2, <6>3
          <5>2. p * (Window - Elapsed(r)) + 1 * Window > Limit[s] * Window
            BY <2>1, <4>1
          <5>3. Limit[s] > 2
            BY DEF Waits, s
          <5> HIDE DEF p
          <5>4. p * (Window - Elapsed(r)) + 1 * Window <= Limit[s] * Window
            BY <2>1, <2>2, <5>1, <5>3, FirstIsServed
          <5>5. p * (Window - Elapsed(r)) \in Nat /\ Limit[s] * Window \in Nat /\ Window \in Nat
            BY <2>1, <2>2, <5>1
          <5> QED
            BY <5>2, <5>4, <5>5
        <4>3. refusals'[k] <= 4 /\ ~(refusals'[k] > 3)
          BY <2>1, <4>2
        <4> QED
          BY <4>1, <4>3
      <3>8. b = B \/ b < B
        BY <2>2, <3>4, <3>5
      <3> QED
        BY <3>6, <3>7, <3>8, Zenon
    <2> QED
      BY <2>1, <2>8, <2>9
  <1> QED
    BY <1>2, <1>3

-----------------------------------------------------------------------------
(* Reading the clock *)

LEMMA CallKeeps ==
  ASSUME RateIInv, NEW c \in Clients, Call(c)
  PROVE  RateIInv'
  <1>1. RateTypes /\ CallsAreCounted /\ LetInWithinLimit /\ RecentAreNumbered /\ RecentWithinLimit
        /\ RefusedForOwn /\ AloneInOrder /\ WaitIsEnough
    BY DEF RateIInv
  <1>2. /\ now' = now /\ counters' = counters /\ asked' = asked /\ letIn' = letIn /\ recent' = recent
        /\ notBefore' = notBefore /\ refusals' = refusals
        /\ calling' = [calling EXCEPT ![c] = TRUE] /\ reading' = [reading EXCEPT ![c] = now]
        /\ (c \in Obedient => now >= notBefore[c])
    BY DEF Call
  <1>3. RateTypes'
    <2>1. now \in Ticks /\ now <= now
      BY <1>1, BucketFacts DEF RateTypes
    <2> QED
      BY <1>1, <1>2, <2>1 DEF RateTypes
  <1>8. RecentIsFinite'
    BY <1>2 DEF RateIInv, RecentIsFinite
  <1>4. CallsAreCounted' /\ LetInWithinLimit' /\ RecentAreNumbered' /\ RecentWithinLimit'
    BY <1>1, <1>2 DEF CallsAreCounted, LetInWithinLimit, RecentAreNumbered, RecentWithinLimit, Lives
  <1>5. RefusedForOwn'
    <2> SUFFICES ASSUME NEW k \in Clients, refusals[k] > 0, ~calling'[k] PROVE Earned(k)'
      BY <1>2 DEF RefusedForOwn
    <2>1. k # c /\ calling'[k] = calling[k] /\ reading'[k] = reading[k]
      BY <1>1, <1>2 DEF RateTypes
    <2> QED
      BY <1>1, <1>2, <2>1 DEF RefusedForOwn, Earned, AskedBefore
  <1>6. AloneInOrder'
    <2> SUFFICES ASSUME NEW k \in Clients, Alone(k), NEW d \in Buckets, d > Bucket(reading'[k])
                 PROVE  asked[Subject(k)][d] = 0
      BY <1>2 DEF AloneInOrder, Alone
    <2>1. reading[k] \in Ticks /\ reading'[k] \in Ticks /\ reading[k] <= reading'[k]
      <3>1. now \in Ticks /\ reading[k] \in Ticks /\ reading[k] <= now /\ now \in Nat /\ reading[k] \in Nat
        BY <1>1, BucketFacts DEF RateTypes
      <3> QED
        BY <1>1, <1>2, <3>1 DEF RateTypes
    <2>2. /\ Bucket(reading[k]) <= Bucket(reading'[k])
          /\ Bucket(reading[k]) \in Nat /\ Bucket(reading'[k]) \in Nat /\ d \in Nat
      BY <2>1, BucketFacts
    <2>3. d > Bucket(reading[k])
      BY <2>2
    <2> QED
      BY <1>1, <2>3 DEF AloneInOrder
  <1>7. WaitIsEnough'
    <2> SUFFICES ASSUME NEW k \in Clients, Waits(k), refusals[k] > 0
                 PROVE  /\ calling'[k] => reading'[k] >= notBefore[k]
                        /\ \E b \in Buckets : WaitedSince(k, b)'
      BY <1>2 DEF WaitIsEnough, Waits, Alone
    <2>1. (calling[k] => reading[k] >= notBefore[k]) /\ \E b \in Buckets : WaitedSince(k, b)
      BY <1>1 DEF WaitIsEnough
    <2>2. \E b \in Buckets : WaitedSince(k, b)'
      BY <1>2, <2>1 DEF WaitedSince
    <2>3. calling'[k] => reading'[k] >= notBefore[k]
      <3>1. CASE k = c
        BY <1>1, <1>2, <3>1 DEF RateTypes, Waits
      <3>2. CASE k # c
        BY <1>1, <1>2, <2>1, <3>2 DEF RateTypes
      <3> QED
        BY <3>1, <3>2
    <2> QED
      BY <2>2, <2>3
  <1> QED
    BY <1>3, <1>4, <1>5, <1>6, <1>7, <1>8 DEF RateIInv

(* The clock: what is past stays, and a window that is over is the one     *)
(* before or forgotten. *)
LEMMA TickKeeps ==
  ASSUME RateIInv, Tick
  PROVE  RateIInv'
  <1>1. RateTypes /\ CallsAreCounted /\ LetInWithinLimit /\ RecentAreNumbered /\ RecentWithinLimit
        /\ RefusedForOwn /\ AloneInOrder /\ WaitIsEnough
    BY DEF RateIInv
  <1>2. /\ now' = now + 1 /\ now < LastTick /\ calling' = calling /\ reading' = reading
        /\ notBefore' = notBefore /\ refusals' = refusals /\ asked' = asked /\ letIn' = letIn
        /\ counters' = [s \in Subjects |-> [b \in Buckets |->
             IF now' < counters[s][b].until THEN counters[s][b] ELSE Unset]]
        /\ recent' = [s \in Subjects |-> {a \in recent[s] : now' - a.at < Window}]
    BY DEF Tick
  <1>3. now \in Nat /\ now \in Ticks /\ now' \in Ticks /\ now <= now' /\ now' \in Nat
        /\ Bucket(now) \in Nat /\ Bucket(now') \in Nat /\ Bucket(now) <= Bucket(now')
        /\ Window \in Nat
    <2>1. now \in Nat /\ now \in Ticks /\ now' \in Ticks /\ now <= now' /\ now' \in Nat
      BY <1>1, <1>2, BucketFacts, RateAssumption DEF Ticks, RateTypes
    <2> QED
      BY <2>1, BucketFacts, RateAssumption
  <1>4. ASSUME NEW s \in Subjects, NEW b \in Buckets
        PROVE  /\ counters[s][b] \in [count : Nat, until : Nat]
               /\ \/ counters'[s][b] = counters[s][b] /\ now' < counters[s][b].until
                  \/ counters'[s][b] = Unset /\ ~(now' < counters[s][b].until)
    <2>1. counters[s][b] \in [count : Nat, until : Nat]
      BY <1>1 DEF RateTypes
    <2>2. counters'[s][b] = IF now' < counters[s][b].until THEN counters[s][b] ELSE Unset
      BY <1>2, Zenon
    <2>3. CASE now' < counters[s][b].until
      BY <2>1, <2>2, <2>3, Zenon
    <2>4. CASE ~(now' < counters[s][b].until)
      BY <2>1, <2>2, <2>4, Zenon
    <2> QED
      BY <2>3, <2>4
  <1>5. Unset \in [count : Nat, until : Nat] /\ Unset.count = 0
    BY DEF Unset
  <1>6. counters' \in [Subjects -> [Buckets -> [count : Nat, until : Nat]]]
    BY <1>2, <1>4, <1>5
  <1>7. \A s \in Subjects : recent'[s] \subseteq recent[s]
    BY <1>2
  <1>8. RateTypes'
    <2>1. \A c \in Clients : reading[c] <= now'
      <3> SUFFICES ASSUME NEW c \in Clients PROVE reading[c] <= now'
        OBVIOUS
      <3>1. reading[c] \in Nat /\ reading[c] <= now
        BY <1>1, BucketFacts DEF RateTypes
      <3> QED
        BY <1>3, <3>1
    <2>2. recent' \in [Subjects -> SUBSET [at : Ticks, late : BOOLEAN, number : Nat]]
      BY <1>1, <1>2, <1>7 DEF RateTypes
    <2> QED
      BY <1>1, <1>2, <1>3, <1>6, <2>1, <2>2 DEF RateTypes
  <1>9. ASSUME NEW b \in Buckets PROVE Lives(b)' => Lives(b)
    <2>1. b \in Nat /\ (b + 2) * Window \in Nat
      <3>1. b \in Nat /\ b + 2 \in Nat
        BY BucketFacts
      <3> QED
        BY <1>3, <3>1
    <2> QED
      BY <1>3, <2>1 DEF Lives
  <1>10. CallsAreCounted'
    <2> SUFFICES ASSUME NEW s \in Subjects, NEW b \in Buckets
                 PROVE  /\ counters'[s][b].count <= asked[s][b]
                        /\ Lives(b)' => /\ counters'[s][b].count = asked[s][b]
                                        /\ asked[s][b] > 0 => counters'[s][b].until >= (b + 2) * Window
                        /\ b > Bucket(now') => asked[s][b] = 0
      BY <1>2 DEF CallsAreCounted
    <2>1. /\ counters[s][b].count <= asked[s][b]
          /\ Lives(b) => /\ counters[s][b].count = asked[s][b]
                         /\ asked[s][b] > 0 => counters[s][b].until >= (b + 2) * Window
          /\ b > Bucket(now) => asked[s][b] = 0
      BY <1>1 DEF CallsAreCounted
    <2>2. /\ asked[s][b] \in Nat /\ b \in Nat /\ (b + 2) * Window \in Nat
          /\ counters[s][b].until \in Nat
      <3>1. asked[s][b] \in Nat /\ counters[s][b] \in [count : Nat, until : Nat]
        BY <1>1 DEF RateTypes
      <3>2. b \in Nat /\ b + 2 \in Nat
        BY BucketFacts
      <3> QED
        BY <1>3, <3>1, <3>2
    <2>3. b > Bucket(now') => asked[s][b] = 0
      BY <1>3, <2>1, <2>2
    <2>4. CASE counters'[s][b] = counters[s][b]
      BY <1>9, <2>1, <2>3, <2>4
    <2>5. CASE counters'[s][b] = Unset /\ ~(now' < counters[s][b].until)
      <3>1. Lives(b)' => asked[s][b] = 0
        <4>1. ASSUME Lives(b)', asked[s][b] > 0 PROVE FALSE
          <5>1. counters[s][b].until >= (b + 2) * Window
            BY <1>9, <2>1, <4>1
          <5>2. now' < (b + 2) * Window
            BY <4>1 DEF Lives
          <5> QED
            BY <1>3, <2>2, <2>5, <5>1, <5>2
        <4> QED
          BY <2>2, <4>1
      <3> QED
        BY <1>5, <2>2, <2>3, <2>5, <3>1
    <2> QED
      BY <1>4, <2>4, <2>5
  <1>11. LetInWithinLimit'
    BY <1>1, <1>2, <1>9 DEF LetInWithinLimit
  <1>12. RecentAreNumbered'
    <2> SUFFICES ASSUME NEW s \in Subjects, NEW a \in recent'[s]
                 PROVE  /\ a.at <= now' /\ now' - a.at < Window
                        /\ ~a.late => a.number \in 1..asked[s][Bucket(a.at)]
                        /\ \A d \in recent'[s] :
                             ~a.late /\ ~d.late /\ Bucket(a.at) = Bucket(d.at) /\ a.number = d.number
                               => a = d
      BY <1>2 DEF RecentAreNumbered
    <2>1. a \in recent[s] /\ now' - a.at < Window
      BY <1>2
    <2>2. /\ a.at <= now /\ (~a.late => a.number \in 1..asked[s][Bucket(a.at)])
          /\ \A d \in recent[s] :
               ~a.late /\ ~d.late /\ Bucket(a.at) = Bucket(d.at) /\ a.number = d.number => a = d
      BY <1>1, <2>1 DEF RecentAreNumbered
    <2>3. a.at \in Nat
      BY <1>1, <2>1, RecentFacts
    <2>4. a.at <= now'
      BY <1>3, <2>2, <2>3
    <2> QED
      BY <1>7, <2>1, <2>2, <2>4
  <1>13. RecentWithinLimit'
    BY <1>1, <1>7 DEF RecentWithinLimit
  <1>14. RefusedForOwn' /\ AloneInOrder'
    BY <1>1, <1>2 DEF RefusedForOwn, Earned, AskedBefore, AloneInOrder, Alone
  <1>15. WaitIsEnough'
    BY <1>1, <1>2 DEF WaitIsEnough, WaitedSince, Waits, Alone
  <1>16. RecentIsFinite'
    BY <1>7, FS_Subset DEF RateIInv, RecentIsFinite
  <1> QED
    BY <1>8, <1>10, <1>11, <1>12, <1>13, <1>14, <1>15, <1>16 DEF RateIInv

LEMMA RateStarts ==
  RateInit => RateIInv
  <1> SUFFICES ASSUME RateInit PROVE RateIInv
    OBVIOUS
  <1>1. /\ now = 0 /\ counters = [s \in Subjects |-> [b \in Buckets |-> Unset]]
        /\ calling = [c \in Clients |-> FALSE] /\ reading = [c \in Clients |-> 0]
        /\ notBefore = [c \in Clients |-> 0] /\ refusals = [c \in Clients |-> 0]
        /\ asked = [s \in Subjects |-> [b \in Buckets |-> 0]]
        /\ letIn = [s \in Subjects |-> [b \in Buckets |-> 0]]
        /\ recent = [s \in Subjects |-> {}]
    BY DEF RateInit
  <1>2. 0 \in Ticks /\ 0 \in 0..(LastTick + Window)
    BY RateAssumption DEF Ticks
  <1>3. Unset \in [count : Nat, until : Nat] /\ Unset.count = 0
    BY DEF Unset
  <1>4. RateTypes
    BY <1>1, <1>2, <1>3 DEF RateTypes
  <1>5. CallsAreCounted
    BY <1>1, <1>3 DEF CallsAreCounted
  <1>6. LetInWithinLimit
    BY <1>1, SubjectFacts DEF LetInWithinLimit
  <1>7. RecentAreNumbered /\ RecentWithinLimit
    BY <1>1 DEF RecentAreNumbered, RecentWithinLimit
  <1>8. RefusedForOwn /\ WaitIsEnough /\ AloneInOrder
    BY <1>1, SubjectFacts DEF RefusedForOwn, WaitIsEnough, AloneInOrder
  <1>9. RecentIsFinite
    BY <1>1, FS_EmptySet DEF RecentIsFinite
  <1> QED
    BY <1>4, <1>5, <1>6, <1>7, <1>8, <1>9 DEF RateIInv

(* What the runs check of the rate is inductive with what the counters     *)
(* hold, how whoever was let in is numbered and what he saw, and how far   *)
(* whoever waits has got.                                                  *)
THEOREM RateInvariant ==
  RateSpec => []RateIInv
  <1>1. RateIInv /\ [RateNext]_rateVars => RateIInv'
    <2> SUFFICES ASSUME RateIInv, [RateNext]_rateVars PROVE RateIInv'
      OBVIOUS
    <2>1. CASE Tick
      BY <2>1, TickKeeps
    <2>2. ASSUME NEW c \in Clients, Call(c) PROVE RateIInv'
      BY <2>2, CallKeeps
    <2>3. ASSUME NEW c \in Clients, Answer(c) PROVE RateIInv'
      <3>1. RateTypes /\ CallsAreCounted /\ LetInWithinLimit /\ RecentAreNumbered
            /\ RecentWithinLimit /\ RefusedForOwn /\ AloneInOrder /\ WaitIsEnough
        BY DEF RateIInv
      <3>2. RateTypes' /\ CallsAreCounted' /\ LetInWithinLimit'
        BY <2>3, <3>1, RateTypesNext, CallsAreCountedNext, LetInWithinLimitNext
      <3>3. RecentAreNumbered' /\ RecentWithinLimit'
        BY <2>3, <3>1, RecentAreNumberedNext, RecentWithinLimitNext
      <3>4. RefusedForOwn' /\ AloneInOrder' /\ WaitIsEnough'
        BY <2>3, <3>1, RefusedForOwnNext, AloneInOrderNext, WaitIsEnoughNext
      <3>5. RecentIsFinite'
        BY <2>3, <3>1, RecentIsFiniteNext DEF RateIInv
      <3> QED
        BY <3>2, <3>3, <3>4, <3>5 DEF RateIInv
    <2>4. CASE UNCHANGED rateVars
      <3>1. /\ RateTypes' /\ CallsAreCounted' /\ LetInWithinLimit'
        BY <2>4 DEF rateVars, RateIInv, RateTypes, CallsAreCounted, LetInWithinLimit, Lives
      <3>2. RecentAreNumbered' /\ RecentWithinLimit'
        BY <2>4 DEF rateVars, RateIInv, RecentAreNumbered, RecentWithinLimit
      <3>3. RefusedForOwn' /\ AloneInOrder' /\ WaitIsEnough'
        BY <2>4 DEF rateVars, RateIInv, RefusedForOwn, Earned, AskedBefore, AloneInOrder,
           WaitIsEnough, WaitedSince, Waits, Alone
      <3>4. RecentIsFinite'
        BY <2>4 DEF rateVars, RateIInv, RecentIsFinite
      <3> QED
        BY <3>1, <3>2, <3>3, <3>4 DEF RateIInv
    <2> QED
      BY <2>1, <2>2, <2>3, <2>4 DEF RateNext
  <1> QED
    BY <1>1, RateStarts, PTL DEF RateSpec

-----------------------------------------------------------------------------
(* What follows from the invariant *)

(* Whose numbers differ and end at m are no more than m. *)
LEMMA NumbersBound ==
  ASSUME NEW S, NEW m \in Nat, \A a \in S : a.number \in 1..m,
         \A a, c \in S : a.number = c.number => a = c
  PROVE  IsFiniteSet(S) /\ Cardinality(S) \in Nat /\ Cardinality(S) <= m
  <1> DEFINE number == [a \in S |-> a.number]
  <1>1. number \in Injection(S, 1..m)
    <2>1. number \in [S -> 1..m]
      OBVIOUS
    <2>2. \A a, c \in S : number[a] = number[c] => a = c
      OBVIOUS
    <2> QED
      BY <2>1, <2>2 DEF Injection, IsInjective
  <1>2. IsFiniteSet(1..m) /\ Cardinality(1..m) = m
    <2>1. 1 \in Int /\ m \in Int
      OBVIOUS
    <2> QED
      BY <2>1, FS_Interval
  <1> HIDE DEF number
  <1>3. IsFiniteSet(S) /\ Cardinality(S) <= Cardinality(1..m)
    BY <1>1, <1>2, FS_Injection
  <1> QED
    BY <1>2, <1>3, FS_CardinalityType

(* One of them has a number as high as there are of them. *)
LEMMA OneIsAsHigh ==
  ASSUME NEW S, NEW L \in Nat, \A a \in S : a.number \in 1..L,
         \A a, c \in S : a.number = c.number => a = c, S # {}
  PROVE  \E a \in S : a.number >= Cardinality(S)
  <1> DEFINE m == Cardinality(S)
  <1>1. IsFiniteSet(S) /\ m \in Nat
    BY NumbersBound
  <1>2. m # 0
    BY <1>1, FS_EmptySet
  <1> HIDE DEF m
  <1>3. ASSUME \A a \in S : ~(a.number >= m) PROVE FALSE
    <2>1. m - 1 \in Nat
      BY <1>1, <1>2
    <2>2. \A a \in S : a.number \in 1..(m - 1)
      BY <1>1, <1>3
    <2>3. m <= m - 1
      BY <2>1, <2>2, NumbersBound DEF m
    <2> QED
      BY <1>1, <2>3
  <1> QED
    BY <1>3 DEF m

(* x let in of the window before and m in this one, the last of them e     *)
(* ticks into it, in a stretch of d ticks. *)
LEMMA BurstBound ==
  ASSUME NEW x \in Nat, NEW m \in Nat, NEW p \in Nat, NEW L \in Nat, NEW e \in Nat, NEW d \in Nat,
         x <= p, x <= L, e < Window, e <= d, p * (Window - e) + m * Window <= L * Window
  PROVE  (x + m) * Window <= L * (Window + d)
  <1>1. Window \in Nat /\ Window - e \in Nat
    BY RateAssumption
  <1>2. x * (Window - e) <= p * (Window - e)
    BY <1>1, ProductGrows
  <1>3. x * e <= L * e /\ e * L <= d * L
    BY ProductGrows
  <1>4. /\ (x + m) * Window = x * Window + m * Window /\ L * (Window + d) = L * Window + L * d
        /\ x * (Window - e) = x * Window - x * e /\ L * e = e * L /\ L * d = d * L
    BY <1>1
  <1>5. /\ x * Window \in Nat /\ m * Window \in Nat /\ L * Window \in Nat /\ L * d \in Nat
        /\ x * e \in Nat /\ L * e \in Nat /\ p * (Window - e) \in Nat
    BY <1>1
  <1> QED
    BY <1>2, <1>3, <1>4, <1>5

(* Who is let in within a stretch shorter than a window and was counted in *)
(* time was let in in this window or the one before.  The highest of this  *)
(* window saw the highest of the one before, weighted by what a minute     *)
(* still held of it; the stretch began before that window was over.        *)
LEMMA SeamIsSafe ==
  ASSUME RateIInv, NEW s \in Subjects, NEW from \in 0..now, now - from < Window
  PROVE  Cardinality(RecentSince(s, from)) * Window <=
           Limit[s] * (Window + now - from)
             + Cardinality({a \in RecentSince(s, from) : a.late}) * Window
  <1> DEFINE S == RecentSince(s, from)
             B == Bucket(now)
             E == Elapsed(now)
             late == {a \in S : a.late}
             this == {a \in S : ~a.late /\ Bucket(a.at) = B}
             early == {a \in S : ~a.late /\ Bucket(a.at) # B}
             L == Limit[s]
             d == now - from
             x == Cardinality(early)
             m == Cardinality(this)
             f == Cardinality(late)
  <1>1. RateTypes /\ RecentIsFinite /\ RecentAreNumbered /\ RecentWithinLimit
    BY DEF RateIInv
  <1>2. /\ Window \in Nat /\ Window > 0 /\ L \in Nat /\ from \in Nat /\ now \in Nat /\ now \in Ticks
        /\ B \in Nat /\ E \in Nat /\ E < Window /\ now = B * Window + E /\ d \in Nat
    <2>1. Window \in Nat /\ Window > 0 /\ L \in Nat
      BY SubjectFacts
    <2>2. /\ now \in Ticks /\ now \in Nat /\ B \in Nat /\ E \in Nat /\ E < Window
          /\ now = B * Window + E
      BY <1>1, BucketFacts DEF RateTypes
    <2>3. from \in Nat /\ d \in Nat
      BY <2>2
    <2> QED
      BY <2>1, <2>2, <2>3
  <1>3. ASSUME NEW a \in S
        PROVE  /\ a \in recent[s] /\ from <= a.at /\ a.at \in Nat /\ a.number \in Nat
               /\ Bucket(a.at) \in Nat /\ Elapsed(a.at) \in Nat /\ Elapsed(a.at) < Window
               /\ a.at = Bucket(a.at) * Window + Elapsed(a.at)
               /\ a.at <= now /\ Bucket(a.at) <= B
               /\ ~a.late => a.number \in 1..L
    <2>1. a \in recent[s] /\ a.at >= from
      BY DEF RecentSince
    <2>2. /\ a.at \in Ticks /\ a.at \in Nat /\ a.number \in Nat /\ Bucket(a.at) \in Nat
          /\ Elapsed(a.at) \in Nat /\ Elapsed(a.at) < Window
          /\ a.at = Bucket(a.at) * Window + Elapsed(a.at)
      BY <1>1, <2>1, RecentFacts
    <2>3. a.at <= now /\ (~a.late => a.number \in 1..asked[s][Bucket(a.at)] /\ a.number <= L)
      BY <1>1, <2>1 DEF RecentAreNumbered, RecentWithinLimit
    <2>4. Bucket(a.at) <= B
      BY <1>2, <2>2, <2>3, BucketFacts
    <2>5. ~a.late => a.number \in 1..L
      <3>1. ~a.late => 1 <= a.number
        BY <2>2, <2>3
      <3> HIDE DEF L
      <3> QED
        BY <1>2, <2>2, <2>3, <3>1
    <2>6. from <= a.at
      BY <1>2, <2>1, <2>2
    <2> QED
      BY <2>1, <2>2, <2>3, <2>4, <2>5, <2>6
  <1>4. ASSUME NEW a \in S, NEW c \in S, ~a.late, ~c.late, Bucket(a.at) = Bucket(c.at),
               a.number = c.number
        PROVE  a = c
    BY <1>1, <1>3, <1>4 DEF RecentAreNumbered
  <1>5. ASSUME NEW a \in early
        PROVE  /\ Bucket(a.at) + 1 = B /\ E <= d
    <2> DEFINE b == Bucket(a.at)
               e == Elapsed(a.at)
    <2>1. /\ a \in S /\ b # B
      OBVIOUS
    <2>2. /\ from <= a.at /\ a.at \in Nat /\ b \in Nat /\ e \in Nat /\ e < Window
          /\ a.at = b * Window + e /\ b <= B
      BY <1>3, <2>1
    <2> HIDE DEF b, e, B, E
    <2>3. ASSUME b + 2 <= B PROVE FALSE
      <3>0. b + 2 \in Nat
        BY <2>2
      <3>1. (b + 2) * Window <= B * Window
        BY <1>2, <2>3, <3>0, ProductGrows
      <3>2. (b + 2) * Window = b * Window + Window + Window /\ b * Window \in Nat
            /\ B * Window \in Nat
        BY <1>2, <2>2
      <3> QED
        BY <1>2, <2>2, <3>1, <3>2
    <2>4. b + 1 = B
      BY <1>2, <2>1, <2>2, <2>3
    <2>5. E <= d
      <3>1. B * Window = b * Window + Window /\ b * Window \in Nat
        BY <1>2, <2>2, <2>4
      <3> QED
        BY <1>2, <2>2, <3>1
    <2> QED
      BY <2>4, <2>5 DEF b
  <1>6. /\ \A a \in early : a.number \in 1..L
        /\ \A a, c \in early : a.number = c.number => a = c
    <2>1. ASSUME NEW a \in early, NEW c \in early, a.number = c.number PROVE a = c
      <3>1. Bucket(a.at) = Bucket(c.at)
        BY <1>2, <1>3, <1>5
      <3> QED
        BY <1>4, <2>1, <3>1
    <2> QED
      BY <1>3, <2>1
  <1>7. /\ \A a \in this : a.number \in 1..L
        /\ \A a, c \in this : a.number = c.number => a = c
    BY <1>3, <1>4
  <1>8. IsFiniteSet(early) /\ x \in Nat /\ x <= L
    <2> HIDE DEF early, L
    <2> QED
      BY <1>2, <1>6, NumbersBound
  <1>9. IsFiniteSet(this) /\ m \in Nat /\ m <= L
    <2> HIDE DEF this, L
    <2> QED
      BY <1>2, <1>7, NumbersBound
  <1>10. IsFiniteSet(late) /\ f \in Nat
    <2>1. IsFiniteSet(recent[s]) /\ late \subseteq recent[s]
      BY <1>1, <1>3 DEF RecentIsFinite
    <2> HIDE DEF late
    <2> QED
      BY <2>1, FS_Subset, FS_CardinalityType
  <1>11. Cardinality(S) = x + m + f
    <2> DEFINE inTime == early \cup this
    <2>1. S = inTime \cup late /\ inTime \cap late = {} /\ early \cap this = {}
      OBVIOUS
    <2> HIDE DEF S, early, this, late
    <2>2. /\ Cardinality(inTime) = x + m - Cardinality(early \cap this)
          /\ IsFiniteSet(inTime)
      BY <1>8, <1>9, FS_Union
    <2>3. Cardinality(inTime \cup late) = Cardinality(inTime) + f - Cardinality(inTime \cap late)
      BY <1>10, <2>2, FS_Union
    <2>4. Cardinality(early \cap this) = 0 /\ Cardinality(inTime \cap late) = 0
      BY <2>1, FS_EmptySet
    <2> QED
      BY <1>8, <1>9, <1>10, <2>1, <2>2, <2>3, <2>4
  <1>12. (x + m) * Window <= L * (Window + d)
    <2>1. CASE early = {} \/ this = {}
      <3>1. x = 0 \/ m = 0
        BY <2>1, FS_EmptySet
      <3> HIDE DEF x, m, L, d
      <3>2. x + m <= L /\ x + m \in Nat
        BY <1>8, <1>9, <3>1
      <3>3. (x + m) * Window <= L * Window
        BY <1>2, <3>2, ProductGrows
      <3>4. L * (Window + d) = L * Window + L * d /\ L * d \in Nat /\ L * Window \in Nat
            /\ (x + m) * Window \in Nat
        BY <1>2, <3>2
      <3> QED
        BY <3>3, <3>4
    <2>2. CASE early # {} /\ this # {}
      <3>1. E <= d
        BY <1>5, <2>2
      <3>2. PICK a \in this : a.number >= m
        <4> HIDE DEF this, L
        <4> QED
          BY <1>2, <1>7, <2>2, OneIsAsHigh
      <3>3. PICK c \in early : c.number >= x
        <4> HIDE DEF early, L
        <4> QED
          BY <1>2, <1>6, <2>2, OneIsAsHigh
      <3> DEFINE e == Elapsed(a.at)
                 p == c.number
                 n == a.number
      <3>4. /\ e \in Nat /\ e < Window /\ a.at = B * Window + e /\ a.at <= now /\ a.at \in Nat
            /\ p \in Nat /\ n \in Nat
        BY <1>3
      <3>5. p * (Window - e) + n * Window <= L * Window
        <4>1. /\ a \in recent[s] /\ c \in recent[s] /\ ~a.late /\ ~c.late
              /\ Bucket(c.at) + 1 = Bucket(a.at)
          BY <1>3, <1>5
        <4> QED
          BY <1>1, <4>1 DEF RecentWithinLimit
      <3>6. x <= p /\ m <= n
        BY <1>8, <1>9, <3>2, <3>3, <3>4
      <3> HIDE DEF x, m, L, d, p, n, e, B, E
      <3>7. e <= d
        <4>1. B * Window \in Nat
          BY <1>2
        <4> QED
          BY <1>2, <3>1, <3>4, <4>1
      <3>8. m * Window <= n * Window
        BY <1>2, <1>9, <3>4, <3>6, ProductGrows
      <3>9. /\ p * (Window - e) \in Nat /\ n * Window \in Nat /\ m * Window \in Nat
            /\ L * Window \in Nat
        BY <1>2, <1>9, <3>4
      <3>10. p * (Window - e) + m * Window <= L * Window
        BY <3>5, <3>8, <3>9
      <3> QED
        BY <1>2, <1>8, <1>9, <3>4, <3>6, <3>7, <3>10, BurstBound
    <2> QED
      BY <2>1, <2>2
  <1>13. Cardinality(S) * Window <= L * (Window + now - from) + f * Window
    <2>1. Window + now - from = Window + d
      BY <1>2
    <2> HIDE DEF S, x, m, f, L, d
    <2>2. (x + m + f) * Window = (x + m) * Window + f * Window
      BY <1>2, <1>8, <1>9, <1>10
    <2>3. /\ (x + m) * Window \in Nat /\ f * Window \in Nat /\ L * (Window + d) \in Nat
      BY <1>2, <1>8, <1>9, <1>10
    <2> QED
      BY <1>11, <1>12, <2>1, <2>2, <2>3
  <1> QED
    BY <1>13

(* Where one window meets the next there is no double burst but by calls   *)
(* that were under way, which are no way around a window's limit either;   *)
(* and whoever is refused shares its counter with more calls than the      *)
(* limit.  For every length of a window, every limit, any number of        *)
(* clients and however long Redis takes (RateLimiter, throttle.py).        *)
THEOREM RateIsKept ==
  RateSpec => []RateInv
  <1>1. RateIInv => RateTypeOK
    <2> SUFFICES ASSUME RateIInv PROVE RateTypeOK
      OBVIOUS
    <2>1. RateTypes /\ RecentAreNumbered
      BY DEF RateIInv
    <2>2. reading \in [Clients -> 0..now]
      <3>1. \A c \in Clients : reading[c] \in 0..now
        <4> SUFFICES ASSUME NEW c \in Clients PROVE reading[c] \in 0..now
          OBVIOUS
        <4>1. reading[c] \in Nat /\ now \in Nat /\ reading[c] <= now
          BY <2>1, BucketFacts DEF RateTypes
        <4> QED
          BY <4>1
      <3> QED
        BY <2>1, <3>1 DEF RateTypes
    <2>3. ASSUME NEW s \in Subjects, NEW a \in recent[s] PROVE a.at \in 0..now /\ now - a.at < Window
      <3>1. a.at \in Nat /\ now \in Nat
        BY <2>1, RecentFacts, BucketFacts DEF RateTypes
      <3>2. a.at <= now /\ now - a.at < Window
        BY <2>1 DEF RecentAreNumbered
      <3> QED
        BY <3>1, <3>2
    <2> QED
      BY <2>1, <2>2, <2>3 DEF RateTypes, RateTypeOK
  <1>2. RateIInv => NoDoubleBurst
    BY SeamIsSafe DEF NoDoubleBurst
  <1>3. RateIInv => WindowKeepsLimit
    BY DEF RateIInv, LetInWithinLimit, WindowKeepsLimit, Lives
  <1>4. RateIInv => RefusalsAreEarned
    BY DEF RateIInv, RefusedForOwn, Earned, AskedBefore, RefusalsAreEarned
  <1>5. RateIInv => RateInv
    BY <1>1, <1>2, <1>3, <1>4 DEF RateInv
  <1> QED
    BY <1>5, RateInvariant, PTL

(* A client with a counter of its own who waits as long as Retry-After     *)
(* says is refused four times in a row at most, where the limit is above   *)
(* two (RateLimiter: a refused call counts, and the seconds are rounded    *)
(* down). *)
THEOREM ObedientIsHeard ==
  RateSpec => []ObedientIsServed
  <1>1. RateIInv => ObedientIsServed
    <2> SUFFICES ASSUME RateIInv, NEW c \in Obedient, c \in Clients, Alone(c), Limit[Subject(c)] > 2
                 PROVE  refusals[c] <= 4
      BY RateAssumption DEF ObedientIsServed
    <2>1. refusals[c] \in Nat
      BY DEF RateIInv, RateTypes
    <2>2. refusals[c] > 0 => refusals[c] <= 4
      BY DEF RateIInv, WaitIsEnough, WaitedSince, Waits
    <2> QED
      BY <2>1, <2>2
  <1> QED
    BY <1>1, RateInvariant, PTL
=============================================================================
