--------------------------- MODULE GatewayProofs ----------------------------
(***************************************************************************)
(* The invariants of the gateway, for any requests, tenants, contents,     *)
(* limits and lapses.                                                      *)
(***************************************************************************)
EXTENDS Gateway, TLAPS

LEMMA OfType ==
  \A r \in Requests : TenantOf[r] \in Tenants /\ ContentOf[r] \in Contents
  BY OfAssumption

-----------------------------------------------------------------------------
(* The parts of the inductive invariant.                                   *)

\* Every step keeps the types: what becomes the scan of a request is a claim
\* or the candidate.
LEMMA TypeStep ==
  ASSUME TypeOK, ScansFit, [Next]_vars
  PROVE  TypeOK'
  <1> USE OfType, NoneAssumption DEF TypeOK, HandlersTypeOK, RedisTypeOK,
        ScansFit, BeforePublish, Slots, Places, Ended, Named, redis, worked,
        request, At, Scans
  <1>1. ASSUME NEW r \in Requests, RequestStep(r) PROVE TypeOK'
    <2>1. CASE Miss(r)
      BY <2>1 DEF Miss, Goto
    <2>2. CASE Hit(r)
      BY <2>2 DEF Hit, GotoWith
    <2>3. CASE Rescan(r)
      BY <2>3 DEF Rescan, Lapse, Goto
    <2>4. CASE Claim(r)
      BY <2>4 DEF Claim, Claimed, GotoWith
    <2>5. CASE ClaimLost(r)
      BY <2>5 DEF ClaimLost, Claimed, Goto
    <2>6. CASE ClaimAgainLost(r)
      BY <2>6 DEF ClaimAgainLost, Claimed, Goto
    <2>7. CASE Get(r)
      BY <2>7 DEF Get, Claimed, GotoWith
    <2>8. CASE GetGone(r)
      BY <2>8 DEF GetGone, Claimed, Goto
    <2>9. CASE GetAgainGone(r)
      BY <2>9 DEF GetAgainGone, Claimed, GotoWith
    <2>10. CASE Clock(r)
      BY <2>10 DEF Clock
    <2>11. CASE Acquire(r)
      BY <2>11 DEF Acquire, Fresh, Slot
    <2>12. CASE Shed(r)
      BY <2>12 DEF Shed, Without, Goto
    <2>13. CASE Unclaim(r)
      BY <2>13 DEF Unclaim, Goto
    <2>14. CASE Publish(r)
      BY <2>14 DEF Publish, Goto
    <2>15. CASE PublishRaises(r)
      BY <2>15 DEF PublishRaises, Goto
    <2>16. CASE Own(r)
      BY <2>16 DEF Own, Goto
    <2>17. CASE Subscribe(r)
      BY <2>17 DEF Subscribe, Goto
    <2>18. CASE Answer(r)
      BY <2>18 DEF Answer, Leave, Goto
    <2>19. CASE TurnAway(r)
      BY <2>19 DEF TurnAway, Leave, Goto
    <2>20. CASE Wait(r)
      BY <2>20 DEF Wait, Goto
    <2> QED
      BY <1>1, <2>1, <2>2, <2>3, <2>4, <2>5, <2>6, <2>7, <2>8, <2>9, <2>10,
         <2>11, <2>12, <2>13, <2>14, <2>15, <2>16, <2>17, <2>18, <2>19, <2>20
         DEF RequestStep, Lookup
  <1>2. ASSUME NEW s \in Scans, WorkerStep(s) PROVE TypeOK'
    <2>1. CASE Scanned(s)
      BY <2>1 DEF Scanned
    <2>2. CASE Store(s)
      BY <2>2 DEF Store
    <2>3. CASE Signal(s)
      BY <2>3 DEF Signal, Listeners
    <2>4. CASE ReleaseSlot(s)
      BY <2>4 DEF ReleaseSlot, Without
    <2> QED
      BY <1>2, <2>1, <2>2, <2>3, <2>4 DEF WorkerStep
  <1>3. ASSUME NEW c \in Contents, ClaimExpires(c) PROVE TypeOK'
    BY <1>3 DEF ClaimExpires, Lapse
  <1>4. ASSUME NEW t \in Tenants, SlotAges(t) PROVE TypeOK'
    BY <1>4 DEF SlotAges, Lapse, Fresh
  <1>5. CASE UNCHANGED vars
    BY <1>5 DEF vars
  <1> QED
    BY <1>1, <1>2, <1>3, <1>4, <1>5 DEF Next

\* The places of a request tell whose scan it has.
LEMMA ScansStep ==
  ASSUME TypeOK, ScansFit, [Next]_vars
  PROVE  ScansFit'
  <1> USE DEF TypeOK, HandlersTypeOK, RedisTypeOK, ScansFit, BeforePublish,
        Named, redis, worked, request, At, Scans
  <1>1. ASSUME NEW r \in Requests, RequestStep(r) PROVE ScansFit'
    <2>1. CASE Miss(r)
      BY <2>1 DEF Miss, Goto
    <2>2. CASE Hit(r)
      BY <2>2 DEF Hit, GotoWith
    <2>3. CASE Rescan(r)
      BY <2>3 DEF Rescan, Lapse, Goto
    <2>4. CASE Claim(r)
      BY <2>4 DEF Claim, Claimed, GotoWith
    <2>5. CASE ClaimLost(r)
      BY <2>5 DEF ClaimLost, Claimed, Goto
    <2>6. CASE ClaimAgainLost(r)
      BY <2>6 DEF ClaimAgainLost, Claimed, Goto
    <2>7. CASE Get(r)
      BY <2>7 DEF Get, Claimed, GotoWith
    <2>8. CASE GetGone(r)
      BY <2>8 DEF GetGone, Claimed, Goto
    <2>9. CASE GetAgainGone(r)
      BY <2>9 DEF GetAgainGone, Claimed, GotoWith
    <2>10. CASE Clock(r)
      BY <2>10 DEF Clock
    <2>11. CASE Acquire(r)
      BY <2>11 DEF Acquire, Fresh, Slot
    <2>12. CASE Shed(r)
      BY <2>12 DEF Shed, Without, Goto
    <2>13. CASE Unclaim(r)
      BY <2>13 DEF Unclaim, Goto
    <2>14. CASE Publish(r)
      BY <2>14 DEF Publish, Goto
    <2>15. CASE PublishRaises(r)
      BY <2>15 DEF PublishRaises, Goto
    <2>16. CASE Own(r)
      BY <2>16 DEF Own, Goto
    <2>17. CASE Subscribe(r)
      BY <2>17 DEF Subscribe, Goto
    <2>18. CASE Answer(r)
      BY <2>18 DEF Answer, Leave, Goto
    <2>19. CASE TurnAway(r)
      BY <2>19 DEF TurnAway, Leave, Goto
    <2>20. CASE Wait(r)
      BY <2>20 DEF Wait, Goto
    <2> QED
      BY <1>1, <2>1, <2>2, <2>3, <2>4, <2>5, <2>6, <2>7, <2>8, <2>9, <2>10,
         <2>11, <2>12, <2>13, <2>14, <2>15, <2>16, <2>17, <2>18, <2>19, <2>20
         DEF RequestStep, Lookup
  <1>2. ASSUME NEW s \in Scans, WorkerStep(s) PROVE ScansFit'
    <2>1. CASE Scanned(s)
      BY <2>1 DEF Scanned
    <2>2. CASE Store(s)
      BY <2>2 DEF Store
    <2>3. CASE Signal(s)
      BY <2>3 DEF Signal, Listeners
    <2>4. CASE ReleaseSlot(s)
      BY <2>4 DEF ReleaseSlot, Without
    <2> QED
      BY <1>2, <2>1, <2>2, <2>3, <2>4 DEF WorkerStep
  <1>3. ASSUME NEW c \in Contents, ClaimExpires(c) PROVE ScansFit'
    BY <1>3 DEF ClaimExpires, Lapse
  <1>4. ASSUME NEW t \in Tenants, SlotAges(t) PROVE ScansFit'
    BY <1>4 DEF SlotAges, Lapse, Fresh
  <1>5. CASE UNCHANGED vars
    BY <1>5 DEF vars
  <1> QED
    BY <1>1, <1>2, <1>3, <1>4, <1>5 DEF Next

\* A subscription comes before the look at the status, a status before its
\* signal.
LEMMA SignalsStep ==
  ASSUME TypeOK, ScansFit, SignalsFit, [Next]_vars
  PROVE  SignalsFit'
  <1> USE DEF TypeOK, HandlersTypeOK, RedisTypeOK, ScansFit, BeforePublish,
        Named, SignalsFit, WakeupIsNotLost, redis, worked, request, At, Scans
  <1>1. ASSUME NEW r \in Requests, RequestStep(r) PROVE SignalsFit'
    <2>1. CASE Miss(r)
      BY <2>1 DEF Miss, Goto
    <2>2. CASE Hit(r)
      BY <2>2 DEF Hit, GotoWith
    <2>3. CASE Rescan(r)
      BY <2>3 DEF Rescan, Lapse, Goto
    <2>4. CASE Claim(r)
      BY <2>4 DEF Claim, Claimed, GotoWith
    <2>5. CASE ClaimLost(r)
      BY <2>5 DEF ClaimLost, Claimed, Goto
    <2>6. CASE ClaimAgainLost(r)
      BY <2>6 DEF ClaimAgainLost, Claimed, Goto
    <2>7. CASE Get(r)
      BY <2>7 DEF Get, Claimed, GotoWith
    <2>8. CASE GetGone(r)
      BY <2>8 DEF GetGone, Claimed, Goto
    <2>9. CASE GetAgainGone(r)
      BY <2>9 DEF GetAgainGone, Claimed, GotoWith
    <2>10. CASE Clock(r)
      BY <2>10 DEF Clock
    <2>11. CASE Acquire(r)
      BY <2>11 DEF Acquire, Fresh, Slot
    <2>12. CASE Shed(r)
      BY <2>12 DEF Shed, Without, Goto
    <2>13. CASE Unclaim(r)
      BY <2>13 DEF Unclaim, Goto
    <2>14. CASE Publish(r)
      BY <2>14 DEF Publish, Goto
    <2>15. CASE PublishRaises(r)
      BY <2>15 DEF PublishRaises, Goto
    <2>16. CASE Own(r)
      BY <2>16 DEF Own, Goto
    <2>17. CASE Subscribe(r)
      BY <2>17 DEF Subscribe, Goto
    <2>18. CASE Answer(r)
      BY <2>18 DEF Answer, Leave, Goto
    <2>19. CASE TurnAway(r)
      BY <2>19 DEF TurnAway, Leave, Goto
    <2>20. CASE Wait(r)
      BY <2>20 DEF Wait, Goto
    <2> QED
      BY <1>1, <2>1, <2>2, <2>3, <2>4, <2>5, <2>6, <2>7, <2>8, <2>9, <2>10,
         <2>11, <2>12, <2>13, <2>14, <2>15, <2>16, <2>17, <2>18, <2>19, <2>20
         DEF RequestStep, Lookup
  <1>2. ASSUME NEW s \in Scans, WorkerStep(s) PROVE SignalsFit'
    <2>1. CASE Scanned(s)
      BY <2>1 DEF Scanned
    <2>2. CASE Store(s)
      BY <2>2 DEF Store
    <2>3. CASE Signal(s)
      BY <2>3 DEF Signal, Listeners
    <2>4. CASE ReleaseSlot(s)
      BY <2>4 DEF ReleaseSlot, Without
    <2> QED
      BY <1>2, <2>1, <2>2, <2>3, <2>4 DEF WorkerStep
  <1>3. ASSUME NEW c \in Contents, ClaimExpires(c) PROVE SignalsFit'
    BY <1>3 DEF ClaimExpires, Lapse
  <1>4. ASSUME NEW t \in Tenants, SlotAges(t) PROVE SignalsFit'
    BY <1>4 DEF SlotAges, Lapse, Fresh
  <1>5. CASE UNCHANGED vars
    BY <1>5 DEF vars
  <1> QED
    BY <1>1, <1>2, <1>3, <1>4, <1>5 DEF Next

\* A slot is there before the job is, and gone before the refusal.
LEMMA SlotsStep ==
  ASSUME TypeOK, ScansFit, SlotsFit, [Next]_vars
  PROVE  SlotsFit'
  <1> USE OfType DEF TypeOK, HandlersTypeOK, RedisTypeOK, ScansFit,
        BeforePublish, Named, SlotsFit, RunningIsCounted, Slots, redis, worked,
        request, At, Scans
  <1>1. ASSUME NEW r \in Requests, RequestStep(r) PROVE SlotsFit'
    <2>1. CASE Miss(r)
      BY <2>1 DEF Miss, Goto
    <2>2. CASE Hit(r)
      BY <2>2 DEF Hit, GotoWith
    <2>3. CASE Rescan(r)
      BY <2>3 DEF Rescan, Lapse, Goto
    <2>4. CASE Claim(r)
      BY <2>4 DEF Claim, Claimed, GotoWith
    <2>5. CASE ClaimLost(r)
      BY <2>5 DEF ClaimLost, Claimed, Goto
    <2>6. CASE ClaimAgainLost(r)
      BY <2>6 DEF ClaimAgainLost, Claimed, Goto
    <2>7. CASE Get(r)
      BY <2>7 DEF Get, Claimed, GotoWith
    <2>8. CASE GetGone(r)
      BY <2>8 DEF GetGone, Claimed, Goto
    <2>9. CASE GetAgainGone(r)
      BY <2>9 DEF GetAgainGone, Claimed, GotoWith
    <2>10. CASE Clock(r)
      BY <2>10 DEF Clock
    <2>11. CASE Acquire(r)
      BY <2>11 DEF Acquire, Fresh, Slot
    <2>12. CASE Shed(r)
      BY <2>12 DEF Shed, Without, Goto
    <2>13. CASE Unclaim(r)
      BY <2>13 DEF Unclaim, Goto
    <2>14. CASE Publish(r)
      BY <2>14 DEF Publish, Goto
    <2>15. CASE PublishRaises(r)
      BY <2>15 DEF PublishRaises, Goto
    <2>16. CASE Own(r)
      BY <2>16 DEF Own, Goto
    <2>17. CASE Subscribe(r)
      BY <2>17 DEF Subscribe, Goto
    <2>18. CASE Answer(r)
      BY <2>18 DEF Answer, Leave, Goto
    <2>19. CASE TurnAway(r)
      BY <2>19 DEF TurnAway, Leave, Goto
    <2>20. CASE Wait(r)
      BY <2>20 DEF Wait, Goto
    <2> QED
      BY <1>1, <2>1, <2>2, <2>3, <2>4, <2>5, <2>6, <2>7, <2>8, <2>9, <2>10,
         <2>11, <2>12, <2>13, <2>14, <2>15, <2>16, <2>17, <2>18, <2>19, <2>20
         DEF RequestStep, Lookup
  <1>2. ASSUME NEW s \in Scans, WorkerStep(s) PROVE SlotsFit'
    <2>1. CASE Scanned(s)
      BY <2>1 DEF Scanned
    <2>2. CASE Store(s)
      BY <2>2 DEF Store
    <2>3. CASE Signal(s)
      BY <2>3 DEF Signal, Listeners
    <2>4. CASE ReleaseSlot(s)
      BY <2>4 DEF ReleaseSlot, Without
    <2> QED
      BY <1>2, <2>1, <2>2, <2>3, <2>4 DEF WorkerStep
  <1>3. ASSUME NEW c \in Contents, ClaimExpires(c) PROVE SlotsFit'
    BY <1>3 DEF ClaimExpires, Lapse
  <1>4. ASSUME NEW t \in Tenants, SlotAges(t) PROVE SlotsFit'
    BY <1>4 DEF SlotAges, Lapse, Fresh
  <1>5. CASE UNCHANGED vars
    BY <1>5 DEF vars
  <1> QED
    BY <1>1, <1>2, <1>3, <1>4, <1>5 DEF Next

\* What others find as a claim has a job, or a request that may still
\* publish it.
LEMMA ClaimsStep ==
  ASSUME TypeOK, ScansFit, ClaimsFit, [Next]_vars
  PROVE  ClaimsFit'
  <1> USE OfType, NoneAssumption DEF TypeOK, HandlersTypeOK, RedisTypeOK,
        ScansFit, ClaimsFit, Served, BeforePublish, Named, redis, worked,
        request, At, Scans
  <1>1. ASSUME NEW r \in Requests, RequestStep(r) PROVE ClaimsFit'
    <2>1. CASE Miss(r)
      BY <2>1 DEF Miss, Goto
    <2>2. CASE Hit(r)
      BY <2>2 DEF Hit, GotoWith
    <2>3. CASE Rescan(r)
      BY <2>3 DEF Rescan, Lapse, Goto
    <2>4. CASE Claim(r)
      BY <2>4 DEF Claim, Claimed, GotoWith
    <2>5. CASE ClaimLost(r)
      BY <2>5 DEF ClaimLost, Claimed, Goto
    <2>6. CASE ClaimAgainLost(r)
      BY <2>6 DEF ClaimAgainLost, Claimed, Goto
    <2>7. CASE Get(r)
      BY <2>7 DEF Get, Claimed, GotoWith
    <2>8. CASE GetGone(r)
      BY <2>8 DEF GetGone, Claimed, Goto
    <2>9. CASE GetAgainGone(r)
      BY <2>9 DEF GetAgainGone, Claimed, GotoWith
    <2>10. CASE Clock(r)
      BY <2>10 DEF Clock
    <2>11. CASE Acquire(r)
      BY <2>11 DEF Acquire, Fresh, Slot
    <2>12. CASE Shed(r)
      BY <2>12 DEF Shed, Without, Goto
    <2>13. CASE Unclaim(r)
      BY <2>13 DEF Unclaim, Goto
    <2>14. CASE Publish(r)
      BY <2>14 DEF Publish, Goto
    <2>15. CASE PublishRaises(r)
      BY <2>15 DEF PublishRaises, Goto
    <2>16. CASE Own(r)
      BY <2>16 DEF Own, Goto
    <2>17. CASE Subscribe(r)
      BY <2>17 DEF Subscribe, Goto
    <2>18. CASE Answer(r)
      BY <2>18 DEF Answer, Leave, Goto
    <2>19. CASE TurnAway(r)
      BY <2>19 DEF TurnAway, Leave, Goto
    <2>20. CASE Wait(r)
      BY <2>20 DEF Wait, Goto
    <2> QED
      BY <1>1, <2>1, <2>2, <2>3, <2>4, <2>5, <2>6, <2>7, <2>8, <2>9, <2>10,
         <2>11, <2>12, <2>13, <2>14, <2>15, <2>16, <2>17, <2>18, <2>19, <2>20
         DEF RequestStep, Lookup
  <1>2. ASSUME NEW s \in Scans, WorkerStep(s) PROVE ClaimsFit'
    <2>1. CASE Scanned(s)
      BY <2>1 DEF Scanned
    <2>2. CASE Store(s)
      BY <2>2 DEF Store
    <2>3. CASE Signal(s)
      BY <2>3 DEF Signal, Listeners
    <2>4. CASE ReleaseSlot(s)
      BY <2>4 DEF ReleaseSlot, Without
    <2> QED
      BY <1>2, <2>1, <2>2, <2>3, <2>4 DEF WorkerStep
  <1>3. ASSUME NEW c \in Contents, ClaimExpires(c) PROVE ClaimsFit'
    BY <1>3 DEF ClaimExpires, Lapse
  <1>4. ASSUME NEW t \in Tenants, SlotAges(t) PROVE ClaimsFit'
    BY <1>4 DEF SlotAges, Lapse, Fresh
  <1>5. CASE UNCHANGED vars
    BY <1>5 DEF vars
  <1> QED
    BY <1>1, <1>2, <1>3, <1>4, <1>5 DEF Next

-----------------------------------------------------------------------------
(* One claim, one job.                                                     *)

\* Nothing that was disturbed becomes undisturbed: refused requests stay so.
LEMMA Undisturbing ==
  ASSUME \A q \in Requests : At(q, "refused") => At(q, "refused")',
         lapses' = 0 => lapses = 0
  PROVE  \A c : Undisturbed(c)' => Undisturbed(c)
  BY DEF Undisturbed, Refused

\* Who claims finds no claim, so that nobody else of its content has started.
LEMMA ClaimKeeps ==
  ASSUME TypeOK, ClaimIsKept, NEW r \in Requests, Claim(r)
  PROVE  ClaimIsKept'
  <1>1. \A c : Undisturbed(c)' => Undisturbed(c)
    BY Undisturbing DEF Claim, GotoWith, At, TypeOK, HandlersTypeOK
  <1>2. \A q \in Requests \ {r} : Started(q)' => Started(q)
    BY DEF Claim, GotoWith, Started, TypeOK, HandlersTypeOK, worked
  <1>3. claim'[ContentOf[r]] = r
    BY OfType DEF Claim, TypeOK, RedisTypeOK
  <1>4. ASSUME NEW q \in Requests \ {r},
               Undisturbed(ContentOf[q])', Started(q)'
        PROVE  claim'[ContentOf[q]] = q
    <2>1. claim[ContentOf[q]] = q
      BY <1>1, <1>2, <1>4 DEF ClaimIsKept
    <2>2. ContentOf[q] # ContentOf[r]
      BY <2>1, NoneAssumption DEF Claim, Claimed
    <2> QED
      BY <2>1, <2>2, OfType DEF Claim, TypeOK, RedisTypeOK
  <1> QED
    BY <1>3, <1>4 DEF ClaimIsKept

\* Who goes on without a claim is disturbed already.
LEMMA GetAgainGoneKeeps ==
  ASSUME TypeOK, ClaimIsKept, GoneOnce, NEW r \in Requests, GetAgainGone(r)
  PROVE  ClaimIsKept'
  <1>1. \A c : Undisturbed(c)' => Undisturbed(c)
    BY Undisturbing DEF GetAgainGone, GotoWith, At, TypeOK, HandlersTypeOK
  <1>2. ~Undisturbed(ContentOf[r])
    BY DEF GetAgainGone, GoneOnce
  <1>3. \A q \in Requests \ {r} : Started(q)' => Started(q)
    BY DEF GetAgainGone, GotoWith, Started, TypeOK, HandlersTypeOK, worked
  <1> QED
    BY <1>1, <1>2, <1>3 DEF ClaimIsKept, GetAgainGone, redis

\* The claim that a refused request drops is its own, so that nobody else of
\* its content has started.
LEMMA UnclaimKeeps ==
  ASSUME TypeOK, ScansFit, ClaimIsKept, NEW r \in Requests, Unclaim(r)
  PROVE  ClaimIsKept'
  <1>1. /\ \A q \in Requests : At(q, "refused") => At(q, "refused")'
        /\ lapses' = lapses
    BY DEF Unclaim, Goto, At, TypeOK, HandlersTypeOK
  <1>2. \A c : Undisturbed(c)' => Undisturbed(c)
    BY <1>1, Undisturbing
  <1>3. ASSUME NEW q \in Requests, Undisturbed(ContentOf[q])', Started(q)'
        PROVE  claim'[ContentOf[q]] = q
    <2>1. q # r /\ Started(q)
      BY <1>3 DEF Unclaim, Goto, At, Started, BeforePublish, TypeOK,
                  HandlersTypeOK, ScansFit, Named, worked
    <2>2. Started(r)
      BY DEF Unclaim, At, Started, BeforePublish
    <2>3. Undisturbed(ContentOf[q])
      BY <1>2, <1>3
    <2>4. claim[ContentOf[q]] = q
      BY <2>1, <2>3 DEF ClaimIsKept
    <2>5. ContentOf[q] # ContentOf[r]
      BY <2>1, <2>2, <2>3, <2>4 DEF ClaimIsKept
    <2> QED
      BY <2>4, <2>5, OfType DEF Unclaim, TypeOK, RedisTypeOK
  <1> QED
    BY <1>3 DEF ClaimIsKept

\* A claim is set by one request at a time and dropped by the one that gives
\* up.
LEMMA KeptStep ==
  ASSUME TypeOK, ScansFit, ClaimIsKept, GoneOnce, [Next]_vars
  PROVE  ClaimIsKept'
  <1> USE OfType DEF TypeOK, HandlersTypeOK, RedisTypeOK, BeforePublish,
        ClaimIsKept, Started, Undisturbed, Refused, redis, worked, request, At,
        Scans
  <1>1. ASSUME NEW r \in Requests, RequestStep(r) PROVE ClaimIsKept'
    <2>1. CASE Miss(r)
      BY <2>1 DEF Miss, Goto
    <2>2. CASE Hit(r)
      BY <2>2 DEF Hit, GotoWith
    <2>3. CASE Rescan(r)
      BY <2>3 DEF Rescan, Lapse, Goto
    <2>4. CASE Claim(r)
      BY <2>4, ClaimKeeps
    <2>5. CASE ClaimLost(r)
      BY <2>5 DEF ClaimLost, Claimed, Goto
    <2>6. CASE ClaimAgainLost(r)
      BY <2>6 DEF ClaimAgainLost, Claimed, Goto
    <2>7. CASE Get(r)
      BY <2>7 DEF Get, Claimed, GotoWith
    <2>8. CASE GetGone(r)
      BY <2>8 DEF GetGone, Claimed, Goto
    <2>9. CASE GetAgainGone(r)
      BY <2>9, GetAgainGoneKeeps
    <2>10. CASE Clock(r)
      BY <2>10 DEF Clock
    <2>11. CASE Acquire(r)
      BY <2>11 DEF Acquire, Fresh, Slot
    <2>12. CASE Shed(r)
      BY <2>12 DEF Shed, Without, Goto
    <2>13. CASE Unclaim(r)
      BY <2>13, UnclaimKeeps
    <2>14. CASE Publish(r)
      BY <2>14 DEF Publish, Goto
    <2>15. CASE PublishRaises(r)
      BY <2>15 DEF PublishRaises, Goto
    <2>16. CASE Own(r)
      BY <2>16 DEF Own, Goto
    <2>17. CASE Subscribe(r)
      BY <2>17 DEF Subscribe, Goto
    <2>18. CASE Answer(r)
      BY <2>18 DEF Answer, Leave, Goto
    <2>19. CASE TurnAway(r)
      BY <2>19 DEF TurnAway, Leave, Goto
    <2>20. CASE Wait(r)
      BY <2>20 DEF Wait, Goto
    <2> QED
      BY <1>1, <2>1, <2>2, <2>3, <2>4, <2>5, <2>6, <2>7, <2>8, <2>9, <2>10,
         <2>11, <2>12, <2>13, <2>14, <2>15, <2>16, <2>17, <2>18, <2>19, <2>20
         DEF RequestStep, Lookup
  <1>2. ASSUME NEW s \in Scans, WorkerStep(s) PROVE ClaimIsKept'
    <2>1. CASE Scanned(s)
      BY <2>1 DEF Scanned
    <2>2. CASE Store(s)
      BY <2>2 DEF Store
    <2>3. CASE Signal(s)
      BY <2>3 DEF Signal, Listeners
    <2>4. CASE ReleaseSlot(s)
      BY <2>4 DEF ReleaseSlot, Without
    <2> QED
      BY <1>2, <2>1, <2>2, <2>3, <2>4 DEF WorkerStep
  <1>3. ASSUME NEW c \in Contents, ClaimExpires(c) PROVE ClaimIsKept'
    BY <1>3 DEF ClaimExpires, Lapse
  <1>4. ASSUME NEW t \in Tenants, SlotAges(t) PROVE ClaimIsKept'
    BY <1>4 DEF SlotAges, Lapse, Fresh
  <1>5. CASE UNCHANGED vars
    BY <1>5 DEF vars
  <1> QED
    BY <1>1, <1>2, <1>3, <1>4, <1>5 DEF Next

\* A claim that was there at one command and not at the next was dropped by a
\* request that is refused.
LEMMA GoneStep ==
  ASSUME TypeOK, ScansFit, ClaimIsKept, GoneOnce, [Next]_vars
  PROVE  GoneOnce'
  <1> USE OfType, NoneAssumption DEF TypeOK, HandlersTypeOK, RedisTypeOK,
        ScansFit, GoneOnce, RefusedBefore, Claimed, Undisturbed, Refused,
        redis, worked, request, At, Scans
  <1>1. ASSUME NEW r \in Requests, RequestStep(r) PROVE GoneOnce'
    <2>1. CASE Miss(r)
      BY <2>1 DEF Miss, Goto
    <2>2. CASE Hit(r)
      BY <2>2 DEF Hit, GotoWith
    <2>3. CASE Rescan(r)
      BY <2>3 DEF Rescan, Lapse, Goto
    <2>4. CASE Claim(r)
      BY <2>4 DEF Claim, GotoWith
    <2>5. CASE ClaimLost(r)
      BY <2>5 DEF ClaimLost, Goto
    <2>6. CASE ClaimAgainLost(r)
      BY <2>6 DEF ClaimAgainLost, Goto
    <2>7. CASE Get(r)
      BY <2>7 DEF Get, GotoWith
    <2>8. CASE GetGone(r)
      BY <2>8 DEF GetGone, Goto
    <2>9. CASE GetAgainGone(r)
      BY <2>9 DEF GetAgainGone, GotoWith
    <2>10. CASE Clock(r)
      BY <2>10 DEF Clock
    <2>11. CASE Acquire(r)
      BY <2>11 DEF Acquire, Fresh, Slot
    <2>12. CASE Shed(r)
      BY <2>12 DEF Shed, Without, Goto
    <2>13. CASE Unclaim(r)
      BY <2>13 DEF Unclaim, Goto
    <2>14. CASE Publish(r)
      BY <2>14 DEF Publish, Goto
    <2>15. CASE PublishRaises(r)
      BY <2>15 DEF PublishRaises, Goto
    <2>16. CASE Own(r)
      BY <2>16 DEF Own, Goto
    <2>17. CASE Subscribe(r)
      BY <2>17 DEF Subscribe, Goto
    <2>18. CASE Answer(r)
      BY <2>18 DEF Answer, Leave, Goto
    <2>19. CASE TurnAway(r)
      BY <2>19 DEF TurnAway, Leave, Goto
    <2>20. CASE Wait(r)
      BY <2>20 DEF Wait, Goto
    <2> QED
      BY <1>1, <2>1, <2>2, <2>3, <2>4, <2>5, <2>6, <2>7, <2>8, <2>9, <2>10,
         <2>11, <2>12, <2>13, <2>14, <2>15, <2>16, <2>17, <2>18, <2>19, <2>20
         DEF RequestStep, Lookup
  <1>2. ASSUME NEW s \in Scans, WorkerStep(s) PROVE GoneOnce'
    <2>1. CASE Scanned(s)
      BY <2>1 DEF Scanned
    <2>2. CASE Store(s)
      BY <2>2 DEF Store
    <2>3. CASE Signal(s)
      BY <2>3 DEF Signal, Listeners
    <2>4. CASE ReleaseSlot(s)
      BY <2>4 DEF ReleaseSlot, Without
    <2> QED
      BY <1>2, <2>1, <2>2, <2>3, <2>4 DEF WorkerStep
  <1>3. ASSUME NEW c \in Contents, ClaimExpires(c) PROVE GoneOnce'
    BY <1>3 DEF ClaimExpires, Lapse
  <1>4. ASSUME NEW t \in Tenants, SlotAges(t) PROVE GoneOnce'
    BY <1>4 DEF SlotAges, Lapse, Fresh
  <1>5. CASE UNCHANGED vars
    BY <1>5 DEF vars
  <1> QED
    BY <1>1, <1>2, <1>3, <1>4, <1>5 DEF Next

-----------------------------------------------------------------------------
(* The theorems.                                                           *)

LEMMA InitInv == Init => Inv
  <1> SUFFICES ASSUME Init PROVE Inv
    OBVIOUS
  <1> USE DEF Init, Scans, At
  <1>1. TypeOK
    BY LimitAssumption DEF TypeOK, HandlersTypeOK, RedisTypeOK, Places, Named
  <1>2. SignalsFit
    BY DEF SignalsFit, WakeupIsNotLost
  <1>3. ScansFit
    BY DEF ScansFit, BeforePublish
  <1>4. SlotsFit
    BY DEF SlotsFit, RunningIsCounted
  <1>5. ClaimsFit
    BY OfType, NoneAssumption DEF ClaimsFit, Named
  <1>6. ClaimIsKept
    BY DEF ClaimIsKept, Started, BeforePublish
  <1>7. GoneOnce
    BY DEF GoneOnce
  <1> QED
    BY <1>1, <1>2, <1>3, <1>4, <1>5, <1>6, <1>7 DEF Inv

LEMMA InvStep == Inv /\ [Next]_vars => Inv'
  BY TypeStep, SignalsStep, ScansStep, SlotsStep, ClaimsStep, KeptStep,
     GoneStep DEF Inv

\* Inv is inductive.
THEOREM Invariance == Spec => []Inv
  <1> QED
    BY InitInv, InvStep, PTL DEF Spec

\* Type correctness of the gateway.
THEOREM TypeCorrect == Spec => []TypeOK
  <1>1. Inv => TypeOK
    BY DEF Inv
  <1> QED
    BY <1>1, Invariance, PTL

\* However requests and workers interleave, a file has one job while its claim
\* neither lapses nor is refused twice.
THEOREM OneJobForAFile == Spec => []FileIsScannedOnce
  <1>1. Inv => FileIsScannedOnce
    <2> SUFFICES ASSUME Inv, NEW c \in Contents, Undisturbed(c),
                        NEW s1 \in Jobs(c), NEW s2 \in Jobs(c)
                 PROVE  s1 = s2
      BY DEF FileIsScannedOnce
    <2> QED
      BY DEF Inv, ClaimIsKept, Jobs, Started, Scans
  <1> QED
    BY <1>1, Invariance, PTL

\* No client sleeps through the signal of its scan, and a woken one
\* can read it.
THEOREM NoWakeupIsLost == Spec => [](WakeupIsNotLost /\ WokenReadsResult)
  <1>1. Inv => WakeupIsNotLost /\ WokenReadsResult
    BY DEF Inv, SignalsFit, WokenReadsResult, TypeOK, HandlersTypeOK,
           RedisTypeOK, Named, Scans
  <1> QED
    BY <1>1, Invariance, PTL

\* A scan that runs has its slot until it is too old; a refused one has neither
\* slot nor claim.
THEOREM SlotsAreKept == Spec => [](RunningIsCounted /\ RefusedLeavesNothing)
  <1>1. Inv => RunningIsCounted
    BY DEF Inv, SlotsFit
  <1>2. Inv => RefusedLeavesNothing
    BY OfType DEF Inv, SlotsFit, ClaimsFit, RefusedLeavesNothing, At, Scans
  <1> QED
    BY <1>1, <1>2, Invariance, PTL

\* Who is told to come back has a job to come back for, or a claimant that may
\* still publish it, was refused or failed.
THEOREM AcceptedIsServed == Spec => []AcceptedHasJob
  <1>1. Inv => AcceptedHasJob
    BY DEF Inv, ClaimsFit, Served, AcceptedHasJob, At, Named, TypeOK,
           HandlersTypeOK, Scans
  <1> QED
    BY <1>1, Invariance, PTL

=============================================================================
