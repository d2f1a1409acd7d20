----------------------------- MODULE EngineProofs -----------------------------
(***************************************************************************)
(* What the rules in force and the cache of verdicts keep to, for every    *)
(* number of threads, contents, views of a file and edits, and for all     *)
(* tenants, policies, weights, rules, requests, changes and faults.        *)
(*                                                                         *)
(* The rules.  A scan reads the set once, so what it has used so far is    *)
(* determined by its place (ScanIsOneWork).  That a stale set is noticed   *)
(* rests on the order in which the marks are taken: the loop has the stamp *)
(* before the content and the content before the set (LoopReadsInOrder),   *)
(* and the first thread, which has them the other way round, is followed   *)
(* by the ghost `born` (BirthIsWatched), with the lock around its three    *)
(* steps (LockIsHeld).                                                     *)
(*                                                                         *)
(* The cache.  What the antivirus says and what is from the file are told  *)
(* apart by the stage and by the code alike, in every half, request and    *)
(* scan (HalvesAreApart, ScanIsSplit); that is what lets a half be put     *)
(* together with any other.  That the sum is worth a full scan follows     *)
(* from what a scan has found at each of its steps, as pairs of a code and *)
(* its score (SoundScan), and what a half holds under the versions of its  *)
(* key (SoundHalves).                                                      *)
(***************************************************************************)
EXTENDS RuleSet, VerdictCache, TLAPS

-----------------------------------------------------------------------------
(* The rules in force *)

ScanPlaces == {"idle", "queued", "compiling", "failed", "stamping", "printing",
               "matching", "done"}
LockedPlaces == {"compiling", "stamping", "printing"}
Sets == (Contents \ Broken) \cup {NoSet}
Trials == (Candidates \ Broken) \cup {NoSet}

(* The types of what the edits and the stage leave behind. *)
StageTypes ==
  /\ disk \in Contents /\ candidateDisk \in Candidates
  /\ edits \in 0 .. MaxEdits /\ stamp \in 1 .. edits + 1
  /\ noted \in 0 .. stamp
  /\ rules \in Sets /\ label \in Contents
  /\ candidate \in Trials
  /\ lock \in Scanners \cup {"free"}

ScanTypes ==
  /\ scanPc \in [Scanners -> ScanPlaces]
  /\ own \in [Scanners -> Contents \cup {NoSet}]
  /\ part \in [Scanners -> 0 .. Parts]
  /\ DOMAIN beside = Scanners
  /\ DOMAIN used = Scanners /\ DOMAIN tried = Scanners

LoopTypes ==
  /\ seenStamp \in 0 .. stamp
  /\ newSet \in Sets /\ newCandidate \in Trials
  /\ loopPc \in {"compile", "swap"} => seenContent \in Contents

(* The lock is held by the thread that makes the first set, by nobody else. *)
LockIsHeld == \A s \in Scanners : scanPc[s] \in LockedPlaces <=> lock = s

(* What a scan has used is the set it began with, once it matched a part. *)
ScanIsOneWork ==
  \A s \in Scanners :
    /\ scanPc[s] = "matching" =>
         own[s] # NoSet /\ used[s] = IF part[s] = 0 THEN {} ELSE {own[s]}
    /\ scanPc[s] = "done" => used[s] = {own[s]} \ {NoSet}
    /\ scanPc[s] \in {"matching", "done"} => tried[s] \subseteq {beside[s]}

(* An edit that crosses the reading of the loop is later than its mark. *)
LoopReadsInOrder ==
  /\ loopPc = "compile" => disk = seenContent \/ seenStamp < stamp
  /\ loopPc = "swap" => newSet = Compiled(seenContent) \/ seenStamp < stamp

(* Between the first compilation and its marks, no edit went unseen. *)
BirthIsWatched ==
  born = "whole" =>
    \A s \in Scanners : scanPc[s] \in {"stamping", "printing"} => rules = Compiled(disk)

(* A set that is not what its label says has a mark of the past. *)
StaleHasOldMark ==
  born = "whole" /\ lock = "free" => rules = Compiled(label) \/ noted < stamp

RuleSetIInv ==
  /\ StageTypes /\ ScanTypes /\ LoopTypes
  /\ LockIsHeld /\ ScanIsOneWork
  /\ LoopReadsInOrder /\ BirthIsWatched /\ StaleHasOldMark

-----------------------------------------------------------------------------
(* Operators *)

(* A content that compiles makes a set. *)
LEMMA CompiledIsSet == \A c \in Contents \ Broken : Compiled(c) \in Sets
  BY DEF Compiled, Sets

(* And so does the candidate, or there is none. *)
LEMMA CandidateIsTrial == candidateDisk \in Candidates => CompiledCandidate \in Trials
  BY DEF CompiledCandidate, Trials

-----------------------------------------------------------------------------
(* The scans *)

(* A scan that starts has used nothing yet; the others go on. *)
LEMMA StartKeepsScans ==
  ASSUME ScanTypes, ScanIsOneWork, NEW s \in Scanners, NEW set \in Contents \cup {NoSet},
         NEW tryOut, Start(s, set, tryOut)
  PROVE  ScanTypes' /\ ScanIsOneWork'
  <1>1. ScanTypes'
    <2>1. /\ scanPc' \in [Scanners -> ScanPlaces] /\ own' \in [Scanners -> Contents \cup {NoSet}]
          /\ part' \in [Scanners -> 0 .. Parts]
      BY RuleSetAssumption DEF ScanTypes, Start, ScanPlaces
    <2>2. DOMAIN beside' = Scanners /\ DOMAIN used' = Scanners /\ DOMAIN tried' = Scanners
      BY DEF ScanTypes, Start
    <2> QED
      BY <2>1, <2>2 DEF ScanTypes
  <1>2. ASSUME NEW r \in Scanners, r # s
        PROVE  /\ scanPc'[r] = scanPc[r] /\ own'[r] = own[r] /\ part'[r] = part[r]
               /\ used'[r] = used[r] /\ tried'[r] = tried[r] /\ beside'[r] = beside[r]
    BY <1>2 DEF ScanTypes, Start
  <1>3. /\ scanPc'[s] = IF set = NoSet THEN "done" ELSE "matching"
        /\ own'[s] = set /\ part'[s] = 0 /\ used'[s] = {} /\ tried'[s] = {}
    BY DEF ScanTypes, Start
  <1>4. ASSUME NEW r \in Scanners
        PROVE  /\ scanPc'[r] = "matching" =>
                    own'[r] # NoSet /\ used'[r] = IF part'[r] = 0 THEN {} ELSE {own'[r]}
               /\ scanPc'[r] = "done" => used'[r] = {own'[r]} \ {NoSet}
               /\ scanPc'[r] \in {"matching", "done"} => tried'[r] \subseteq {beside'[r]}
    <2>1. CASE r = s
      BY <1>3, <2>1
    <2>2. CASE r # s
      BY <1>2, <2>2 DEF ScanIsOneWork
    <2> QED
      BY <2>1, <2>2
  <1> QED
    BY <1>1, <1>4 DEF ScanIsOneWork

(* A scan that goes to another place, neither into nor within its matching. *)
LEMMA MoveKeepsScans ==
  ASSUME ScanTypes, ScanIsOneWork, NEW s \in Scanners,
         NEW place \in ScanPlaces \ {"matching", "done"},
         scanPc' = [scanPc EXCEPT ![s] = place],
         UNCHANGED <<own, beside, part, used, tried>>
  PROVE  ScanTypes' /\ ScanIsOneWork'
  BY DEF ScanTypes, ScanIsOneWork

LEMMA MatchKeepsScans ==
  ASSUME ScanTypes, ScanIsOneWork, NEW s \in Scanners, Match(s)
  PROVE  ScanTypes' /\ ScanIsOneWork'
  <1>1. part[s] \in 0 .. Parts /\ part[s] < Parts /\ Parts \in Nat
    BY RuleSetAssumption DEF ScanTypes, Match
  <1>2. ScanTypes'
    <2>1. part' \in [Scanners -> 0 .. Parts]
      BY <1>1 DEF ScanTypes, Match
    <2>2. UNCHANGED <<scanPc, own, beside>> /\ DOMAIN used' = Scanners /\ DOMAIN tried' = Scanners
      BY DEF ScanTypes, Match
    <2> QED
      BY <2>1, <2>2 DEF ScanTypes
  <1>3. /\ scanPc[s] = "matching" /\ UNCHANGED <<scanPc, own, beside>>
        /\ part'[s] = part[s] + 1 /\ used'[s] = used[s] \cup {own[s]}
        /\ tried'[s] = tried[s] \cup ({beside[s]} \ {NoSet})
        /\ \A r \in Scanners \ {s} :
             part'[r] = part[r] /\ used'[r] = used[r] /\ tried'[r] = tried[r]
    BY DEF ScanTypes, Match
  <1>4. used'[s] = {own[s]} /\ own[s] # NoSet
    BY <1>3 DEF ScanIsOneWork
  <1>5. part'[s] # 0
    BY <1>1, <1>3
  <1>6. tried'[s] \subseteq {beside[s]}
    BY <1>3 DEF ScanIsOneWork
  <1> QED
    BY <1>2, <1>3, <1>4, <1>5, <1>6, ZenonT(40) DEF ScanIsOneWork

LEMMA SiftKeepsScans ==
  ASSUME ScanTypes, ScanIsOneWork, NEW s \in Scanners, Sift(s)
  PROVE  ScanTypes' /\ ScanIsOneWork'
  <1>1. /\ scanPc[s] = "matching" /\ part[s] > 0 /\ part[s] \in 0 .. Parts
        /\ UNCHANGED <<own, beside, part, used, tried>>
        /\ scanPc'[s] = "done" /\ \A r \in Scanners \ {s} : scanPc'[r] = scanPc[r]
        /\ scanPc' \in [Scanners -> ScanPlaces]
    BY DEF ScanTypes, Sift, ScanPlaces
  <1>2. part[s] # 0
    BY <1>1, RuleSetAssumption
  <1>3. used[s] = {own[s]} /\ own[s] # NoSet /\ tried[s] \subseteq {beside[s]}
    BY <1>1, <1>2 DEF ScanIsOneWork
  <1>4. ScanTypes'
    BY <1>1 DEF ScanTypes
  <1> QED
    BY <1>1, <1>3, <1>4 DEF ScanIsOneWork

LEMMA NextFileKeepsScans ==
  ASSUME ScanTypes, ScanIsOneWork, NEW s \in Scanners, NextFile(s)
  PROVE  ScanTypes' /\ ScanIsOneWork'
  <1>1. /\ scanPc' \in [Scanners -> ScanPlaces] /\ own' \in [Scanners -> Contents \cup {NoSet}]
        /\ part' \in [Scanners -> 0 .. Parts]
    BY RuleSetAssumption DEF ScanTypes, NextFile, ScanPlaces
  <1>2. DOMAIN beside' = Scanners /\ DOMAIN used' = Scanners /\ DOMAIN tried' = Scanners
    BY DEF ScanTypes, NextFile
  <1>3. /\ scanPc'[s] = "idle"
        /\ \A r \in Scanners \ {s} :
             /\ scanPc'[r] = scanPc[r] /\ own'[r] = own[r] /\ part'[r] = part[r]
             /\ used'[r] = used[r] /\ tried'[r] = tried[r] /\ beside'[r] = beside[r]
    BY DEF ScanTypes, NextFile
  <1> QED
    BY <1>1, <1>2, <1>3 DEF ScanTypes, ScanIsOneWork

LEMMA ScansNext ==
  ASSUME StageTypes, ScanTypes, ScanIsOneWork, [RuleSetNext]_ruleSetVars
  PROVE  ScanTypes' /\ ScanIsOneWork'
  <1>1. CASE UNCHANGED scans
    BY <1>1 DEF ScanTypes, ScanIsOneWork, scans
  <1>2. ASSUME NEW s \in Scanners, Scan(s) PROVE ScanTypes' /\ ScanIsOneWork'
    <2> DEFINE Kept == ScanTypes' /\ ScanIsOneWork'
    <2> HIDE DEF Kept
    <2>0. rules \in Contents \cup {NoSet}
      BY DEF StageTypes, Sets
    <2>1. Begin(s) \/ SecondLook(s) => Kept
      BY <2>0, StartKeepsScans DEF Begin, SecondLook, Kept
    <2>2. FirstPrint(s) => Kept
      BY <2>0, StartKeepsScans DEF FirstPrint, Kept
    <2>3. Queue(s) => Kept
      BY MoveKeepsScans DEF Queue, ScanPlaces, Kept
    <2>4. Claim(s) => Kept
      BY MoveKeepsScans DEF Claim, ScanPlaces, Kept
    <2>5. FirstCompile(s) => Kept
      BY MoveKeepsScans DEF FirstCompile, ScanPlaces, Kept
    <2>6. FirstCompileFails(s) => Kept
      BY MoveKeepsScans DEF FirstCompileFails, ScanPlaces, Kept
    <2>7. FirstStamp(s) => Kept
      BY MoveKeepsScans DEF FirstStamp, ScanPlaces, Kept
    <2>8. Match(s) \/ Sift(s) \/ NextFile(s) => Kept
      BY MatchKeepsScans, SiftKeepsScans, NextFileKeepsScans DEF Kept
    <2>9. Kept
      BY <1>2, <2>1, <2>2, <2>3, <2>4, <2>5, <2>6, <2>7, <2>8 DEF Scan
    <2> QED
      BY <2>9 DEF Kept
  <1>3. (\E s \in Scanners : Scan(s)) \/ UNCHANGED scans
    BY DEF RuleSetNext, ruleSetVars, Tick, Look, SameContent, NewContent, Compile,
           CompileFails, Swap, ApplyControl, ControlUnread, ReloadCandidate,
           PublishVersion, PublishVersionFails, Edit,
           EditCandidate, Switch
  <1> QED
    BY <1>1, <1>2, <1>3

-----------------------------------------------------------------------------
(* The stage and the loop *)

(* Nothing but an edit touches the directory, and an edit only adds. *)
LEMMA DirectoryMoves ==
  ASSUME StageTypes, [RuleSetNext]_ruleSetVars
  PROVE  /\ disk' \in Contents /\ candidateDisk' \in Candidates
         /\ edits' \in 0 .. MaxEdits /\ stamp' \in 1 .. edits' + 1
         /\ \/ stamp' = stamp /\ disk' = disk
            \/ stamp' = stamp + 1 /\ UNCHANGED <<stage, lock, scans, loop>>
         /\ stamp \in Nat /\ stamp' \in Nat /\ stamp <= stamp'
  <1>a. edits \in 0 .. MaxEdits /\ stamp \in 1 .. edits + 1 /\ MaxEdits \in Nat
    BY RuleSetAssumption DEF StageTypes
  <1>1. CASE Edit
    <2>1. edits < MaxEdits /\ edits' = edits + 1 /\ stamp' = stamp + 1
      BY <1>1 DEF Edit
    <2>2. /\ edits' \in 0 .. MaxEdits /\ stamp' \in 1 .. edits' + 1
          /\ stamp \in Nat /\ stamp' \in Nat /\ stamp <= stamp'
      BY <1>a, <2>1
    <2> QED
      BY <1>1, <2>2 DEF Edit, StageTypes
  <1>2. CASE EditCandidate
    <2>1. edits < MaxEdits /\ edits' = edits + 1 /\ stamp' = stamp
      BY <1>2 DEF EditCandidate
    <2>2. /\ edits' \in 0 .. MaxEdits /\ stamp' \in 1 .. edits' + 1
          /\ stamp \in Nat /\ stamp' \in Nat /\ stamp <= stamp'
      BY <1>a, <2>1
    <2> QED
      BY <1>2, <2>1, <2>2 DEF EditCandidate, StageTypes
  <1>3. CASE Switch
    <2>1. edits < MaxEdits /\ edits' = edits + 1 /\ stamp' = stamp
      BY <1>3 DEF Switch
    <2>2. /\ edits' \in 0 .. MaxEdits /\ stamp' \in 1 .. edits' + 1
          /\ stamp \in Nat /\ stamp' \in Nat /\ stamp <= stamp'
      BY <1>a, <2>1
    <2> QED
      BY <1>3, <2>1, <2>2 DEF Switch, StageTypes
  <1>4. CASE UNCHANGED directory
    BY <1>4, <1>a DEF directory, StageTypes
  <1>5. Edit \/ EditCandidate \/ Switch \/ UNCHANGED directory
    BY DEF RuleSetNext, ruleSetVars, Tick, Look, SameContent, NewContent, Compile,
           CompileFails, Swap, ApplyControl, ControlUnread, ReloadCandidate,
           PublishVersion, PublishVersionFails, Scan, Begin,
           Queue, SecondLook, Claim, FirstCompile, FirstCompileFails, FirstStamp,
           FirstPrint, Match, Sift, NextFile
  <1> QED
    BY <1>1, <1>2, <1>3, <1>4, <1>5

(* Who may change what of the stage. *)
LEMMA StageMoves ==
  ASSUME StageTypes, LoopTypes, [RuleSetNext]_ruleSetVars
  PROVE  /\ \/ rules' = rules
            \/ disk \notin Broken /\ rules' = Compiled(disk)
            \/ loopPc = "swap" /\ rules' = newSet
         /\ \/ label' = label \/ label' = disk
            \/ loopPc = "swap" /\ label' = seenContent
         /\ noted' = noted \/ noted' = stamp \/ noted' = seenStamp
         /\ candidate' = candidate \/ candidate' = CompiledCandidate
            \/ candidate' = newCandidate
         /\ lock' \in Scanners \cup {"free"}
  <1>1. CASE UNCHANGED <<stage, lock>>
    BY <1>1 DEF stage, StageTypes
  <1>2. CASE Tick
    BY <1>2 DEF Tick, Look, SameContent, NewContent, Compile, CompileFails, Swap,
                ApplyControl, ControlUnread, ReloadCandidate,
                PublishVersion, PublishVersionFails, stage, StageTypes
  <1>3. ASSUME NEW s \in Scanners, Claim(s) \/ InsideLock(s)
        PROVE  /\ rules' = rules \/ (disk \notin Broken /\ rules' = Compiled(disk))
               /\ label' = label \/ label' = disk
               /\ noted' = noted \/ noted' = stamp
               /\ candidate' = candidate \/ candidate' = CompiledCandidate
               /\ lock' \in Scanners \cup {"free"}
    BY <1>3 DEF Claim, InsideLock, FirstCompile, FirstCompileFails, FirstStamp, FirstPrint,
                stage, StageTypes
  <1>4. \/ UNCHANGED <<stage, lock>> \/ Tick
        \/ \E s \in Scanners : Claim(s) \/ InsideLock(s)
    BY DEF RuleSetNext, ruleSetVars, Scan, InsideLock, Begin, Queue, SecondLook,
           Match, Sift, NextFile, Edit, EditCandidate, Switch
  <1> QED
    BY <1>1, <1>2, <1>3, <1>4

LEMMA StageTypesNext ==
  ASSUME StageTypes, LoopTypes, [RuleSetNext]_ruleSetVars
  PROVE  StageTypes'
  <1>a. /\ stamp \in Nat /\ stamp' \in Nat /\ stamp <= stamp'
        /\ disk' \in Contents /\ candidateDisk' \in Candidates
        /\ edits' \in 0 .. MaxEdits /\ stamp' \in 1 .. edits' + 1
    BY DirectoryMoves
  <1>1. rules' \in Sets
    BY StageMoves, CompiledIsSet DEF StageTypes, LoopTypes
  <1>2. label' \in Contents
    BY StageMoves DEF StageTypes, LoopTypes
  <1>3. noted' \in 0 .. stamp'
    <2>1. noted \in 0 .. stamp /\ seenStamp \in 0 .. stamp
      BY DEF StageTypes, LoopTypes
    <2>2. noted' = noted \/ noted' = stamp \/ noted' = seenStamp
      BY StageMoves
    <2> QED
      BY <1>a, <2>1, <2>2
  <1>4. candidate' \in Trials
    BY StageMoves, CandidateIsTrial DEF StageTypes, LoopTypes
  <1>5. lock' \in Scanners \cup {"free"}
    BY StageMoves
  <1> QED
    BY <1>a, <1>1, <1>2, <1>3, <1>4, <1>5 DEF StageTypes

LEMMA LoopTypesNext ==
  ASSUME StageTypes, LoopTypes, [RuleSetNext]_ruleSetVars
  PROVE  LoopTypes'
  <1>a. stamp \in Nat /\ stamp' \in Nat /\ stamp <= stamp' /\ seenStamp \in 0 .. stamp
    BY DirectoryMoves DEF LoopTypes
  <1>1. seenStamp' = seenStamp \/ seenStamp' = stamp
    BY DEF RuleSetNext, ruleSetVars, loop, Tick, Look, SameContent, NewContent, Compile,
           CompileFails, Swap, ApplyControl, ControlUnread, ReloadCandidate,
           PublishVersion, PublishVersionFails, Scan, Begin,
           Queue, SecondLook, Claim, FirstCompile, FirstCompileFails, FirstStamp,
           FirstPrint, Match, Sift, NextFile, Edit, EditCandidate, Switch
  <1>2. seenStamp' \in 0 .. stamp'
    BY <1>a, <1>1
  <1>3. /\ newSet' \in Sets /\ newCandidate' \in Trials
        /\ loopPc' \in {"compile", "swap"} => seenContent' \in Contents
    <2>1. CASE Tick
      <3>1. CompiledCandidate \in Trials /\ (disk \notin Broken => Compiled(disk) \in Sets)
        BY CompiledIsSet, CandidateIsTrial DEF StageTypes
      <3> QED
        BY <2>1, <3>1 DEF Tick, Look, SameContent, NewContent, Compile, CompileFails, Swap,
             ApplyControl, ControlUnread, ReloadCandidate,
             PublishVersion, PublishVersionFails, GoTo, LoopTypes, StageTypes
    <2>2. CASE UNCHANGED loop
      BY <2>2 DEF loop, LoopTypes
    <2>3. Tick \/ UNCHANGED loop
      BY DEF RuleSetNext, ruleSetVars, Scan, Begin, Queue, SecondLook, Claim,
             FirstCompile, FirstCompileFails, FirstStamp, FirstPrint, Match, Sift,
             NextFile, Edit, EditCandidate, Switch
    <2> QED
      BY <2>1, <2>2, <2>3
  <1> QED
    BY <1>2, <1>3 DEF LoopTypes

(* The first thread takes the lock and gives it back. *)
LEMMA LockIsHeldNext ==
  ASSUME StageTypes, ScanTypes, LockIsHeld, [RuleSetNext]_ruleSetVars
  PROVE  LockIsHeld'
  <1>1. CASE UNCHANGED <<lock, scanPc>>
    BY <1>1 DEF LockIsHeld
  <1>2. ASSUME NEW s \in Scanners, NEW place \in ScanPlaces, lock' = lock,
               scanPc' = [scanPc EXCEPT ![s] = place],
               place \in LockedPlaces <=> scanPc[s] \in LockedPlaces
        PROVE  LockIsHeld'
    BY <1>2 DEF LockIsHeld, ScanTypes
  <1>3. ASSUME NEW s \in Scanners, NEW place \in ScanPlaces \ LockedPlaces,
               scanPc[s] \in LockedPlaces, lock' = "free",
               scanPc' = [scanPc EXCEPT ![s] = place]
        PROVE  LockIsHeld'
    BY <1>3, RuleSetAssumption DEF LockIsHeld, ScanTypes
  <1>4. ASSUME NEW s \in Scanners, Claim(s) PROVE LockIsHeld'
    BY <1>4, RuleSetAssumption DEF Claim, LockIsHeld, ScanTypes, LockedPlaces
  <1>5. ASSUME NEW s \in Scanners, Scan(s), ~Claim(s) PROVE LockIsHeld'
    <2> DEFINE Kept == LockIsHeld'
    <2> HIDE DEF Kept
    <2>1. Begin(s) \/ SecondLook(s) => Kept
      <3>1. ASSUME Begin(s) \/ SecondLook(s)
            PROVE  /\ lock' = lock /\ scanPc[s] \in {"idle", "queued"}
                   /\ \E place \in {"done", "matching"} :
                        scanPc' = [scanPc EXCEPT ![s] = place]
        BY <3>1 DEF Begin, SecondLook, Start
      <3> QED
        BY <1>2, <3>1 DEF Kept, ScanPlaces, LockedPlaces
    <2>2. FirstPrint(s) => Kept
      <3>1. ASSUME FirstPrint(s)
            PROVE  /\ lock' = "free" /\ scanPc[s] \in LockedPlaces
                   /\ \E place \in {"done", "matching"} :
                        scanPc' = [scanPc EXCEPT ![s] = place]
        BY <3>1 DEF FirstPrint, Start, LockedPlaces
      <3> QED
        BY <1>3, <3>1 DEF Kept, ScanPlaces, LockedPlaces
    <2>3. FirstCompileFails(s) => Kept
      BY <1>3 DEF FirstCompileFails, Kept, ScanPlaces, LockedPlaces
    <2>4. FirstCompile(s) => Kept
      BY <1>2 DEF FirstCompile, Kept, ScanPlaces, LockedPlaces
    <2>5. FirstStamp(s) => Kept
      BY <1>2 DEF FirstStamp, Kept, ScanPlaces, LockedPlaces
    <2>6. Queue(s) => Kept
      BY <1>2 DEF Queue, Kept, ScanPlaces, LockedPlaces
    <2>7. Sift(s) => Kept
      BY <1>2 DEF Sift, Kept, ScanPlaces, LockedPlaces
    <2>8. NextFile(s) => Kept
      BY <1>2 DEF NextFile, Kept, ScanPlaces, LockedPlaces
    <2>9. Match(s) => Kept
      BY <1>1 DEF Match, Kept
    <2>10. Kept
      BY <1>5, <2>1, <2>2, <2>3, <2>4, <2>5, <2>6, <2>7, <2>8, <2>9 DEF Scan
    <2> QED
      BY <2>10 DEF Kept
  <1>6. (\E s \in Scanners : Scan(s)) \/ UNCHANGED <<lock, scanPc>>
    BY DEF RuleSetNext, ruleSetVars, scans, Tick, Look, SameContent, NewContent, Compile,
           CompileFails, Swap, ApplyControl, ControlUnread, ReloadCandidate,
           PublishVersion, PublishVersionFails, Edit,
           EditCandidate, Switch
  <1> QED
    BY <1>1, <1>4, <1>5, <1>6

-----------------------------------------------------------------------------
(* The marks *)

(* The mark is taken before the content, the content before the set: what is
   edited in between has a later stamp. *)
LEMMA LoopReadsInOrderNext ==
  ASSUME StageTypes, LoopTypes, LoopReadsInOrder, [RuleSetNext]_ruleSetVars
  PROVE  LoopReadsInOrder'
  <1>a. stamp \in Nat /\ seenStamp \in 0 .. stamp
    BY DirectoryMoves DEF LoopTypes
  <1>1. CASE UNCHANGED loop /\ UNCHANGED <<disk, stamp>>
    BY <1>1 DEF loop, LoopReadsInOrder, Compiled
  <1>2. CASE Edit
    <2>1. UNCHANGED loop /\ seenStamp < stamp'
      BY <1>2, <1>a DEF Edit
    <2> QED
      BY <2>1 DEF loop, LoopReadsInOrder
  <1>3. CASE Tick
    <2>0. UNCHANGED <<disk, stamp>>
      BY <1>3 DEF Tick, Look, SameContent, NewContent, Compile, CompileFails, Swap,
                  ApplyControl, ControlUnread, ReloadCandidate,
                  PublishVersion, PublishVersionFails, directory
    <2>1. CASE NewContent
      BY <2>0, <2>1 DEF NewContent, GoTo, LoopReadsInOrder
    <2>2. CASE Compile
      BY <2>0, <2>2 DEF Compile, GoTo, LoopReadsInOrder, Compiled
    <2>3. CASE ~NewContent /\ ~Compile
      <3>1. loopPc' \notin {"compile", "swap"}
        BY <1>3, <2>3 DEF Tick, Look, SameContent, CompileFails, Swap, ApplyControl,
                          ControlUnread, ReloadCandidate,
                          PublishVersion, PublishVersionFails, GoTo
      <3> QED
        BY <3>1 DEF LoopReadsInOrder
    <2> QED
      BY <2>1, <2>2, <2>3
  <1>4. (UNCHANGED loop /\ UNCHANGED <<disk, stamp>>) \/ Edit \/ Tick
    BY DEF RuleSetNext, ruleSetVars, directory, Scan, Begin, Queue, SecondLook, Claim,
           FirstCompile, FirstCompileFails, FirstStamp, FirstPrint, Match, Sift,
           NextFile, EditCandidate, Switch
  <1> QED
    BY <1>1, <1>2, <1>3, <1>4

(* A thread that has compiled holds the lock until the marks are taken. *)
LEMMA BirthIsWatchedNext ==
  ASSUME StageTypes, ScanTypes, LockIsHeld, BirthIsWatched, [RuleSetNext]_ruleSetVars
  PROVE  BirthIsWatched'
  <1> SUFFICES ASSUME born' = "whole", NEW s \in Scanners,
                      scanPc'[s] \in {"stamping", "printing"}
               PROVE  rules' = Compiled(disk)'
    BY DEF BirthIsWatched
  <1>1. CASE FirstCompile(s)
    BY <1>1 DEF FirstCompile, directory, Compiled
  <1>2. CASE ~FirstCompile(s)
    <2>1. scanPc[s] \in {"stamping", "printing"}
      <3>1. ASSUME NEW r \in Scanners, Scan(r) PROVE scanPc[s] \in {"stamping", "printing"}
        <4>1. CASE r = s
          BY <1>2, <3>1, <4>1 DEF Scan, Begin, Queue, SecondLook, Claim, FirstCompileFails,
             FirstStamp, FirstPrint, Match, Sift, NextFile, Start, ScanTypes
        <4>2. CASE r # s
          <5>1. scanPc'[s] = scanPc[s]
            BY <3>1, <4>2 DEF Scan, Begin, Queue, SecondLook, Claim, FirstCompile,
               FirstCompileFails, FirstStamp, FirstPrint, Match, Sift, NextFile, Start,
               ScanTypes
          <5> QED
            BY <5>1
        <4> QED
          BY <4>1, <4>2
      <3>2. (\E r \in Scanners : Scan(r)) \/ UNCHANGED scanPc
        BY DEF RuleSetNext, ruleSetVars, scans, Tick, Look, SameContent, NewContent,
               Compile, CompileFails, Swap, ApplyControl, ControlUnread, ReloadCandidate,
               PublishVersion, PublishVersionFails,
               Edit, EditCandidate, Switch
      <3> QED
        BY <3>1, <3>2
    <2>2. lock = s /\ lock # "free"
      BY <2>1, RuleSetAssumption DEF LockIsHeld, LockedPlaces
    <2>3. \A r \in Scanners \ {s} : ~FirstCompile(r)
      BY <2>2 DEF FirstCompile, LockIsHeld, LockedPlaces
    <2>4. rules' = rules /\ (Edit \/ (disk' = disk /\ (born' = "whole" => born = "whole")))
      <3>1. CASE Tick
        BY <2>2, <3>1 DEF Tick, Look, SameContent, NewContent, Compile, CompileFails, Swap,
           ApplyControl, ControlUnread, ReloadCandidate,
           PublishVersion, PublishVersionFails, directory, stage
      <3>2. ASSUME NEW r \in Scanners, Scan(r), ~FirstCompile(r)
            PROVE  rules' = rules /\ disk' = disk /\ (born' = "whole" => born = "whole")
        BY <3>2 DEF Scan, Begin, Queue, SecondLook, Claim, FirstCompileFails, FirstStamp,
           FirstPrint, Match, Sift, NextFile, directory, stage
      <3>3. Edit => rules' = rules
        BY DEF Edit, stage
      <3>4. \/ EditCandidate \/ Switch \/ UNCHANGED ruleSetVars
            => rules' = rules /\ disk' = disk /\ born' = born
        BY DEF EditCandidate, Switch, stage, ruleSetVars, directory
      <3>5. \A r \in Scanners : ~FirstCompile(r)
        BY <1>2, <2>3
      <3> QED
        BY <3>1, <3>2, <3>3, <3>4, <3>5 DEF RuleSetNext
    <2>5. CASE Edit
      <3>1. disk' = disk /\ born = "whole"
        BY <2>1, <2>5 DEF Edit, TearsBirth
      <3> QED
        BY <2>1, <2>4, <3>1 DEF BirthIsWatched, Compiled
    <2>6. CASE disk' = disk /\ born = "whole"
      BY <2>1, <2>4, <2>6 DEF BirthIsWatched, Compiled
    <2> QED
      BY <2>4, <2>5, <2>6
  <1> QED
    BY <1>1, <1>2

(* A set that is not what its label says has a mark of the past: the loop put
   it there with an old mark, and a first set that was not crossed has the
   label of its content. *)
LEMMA StaleHasOldMarkNext ==
  ASSUME StageTypes, ScanTypes, LoopTypes, LockIsHeld, LoopReadsInOrder, BirthIsWatched,
         StaleHasOldMark, [RuleSetNext]_ruleSetVars
  PROVE  StaleHasOldMark'
  <1> SUFFICES ASSUME born' = "whole", lock' = "free"
               PROVE  rules' = Compiled(label)' \/ noted' < stamp'
    BY DEF StaleHasOldMark
  <1>a. stamp \in Nat /\ stamp' \in Nat /\ stamp <= stamp' /\ noted \in 0 .. stamp
    BY DirectoryMoves DEF StageTypes
  <1>1. CASE born = "whole" /\ lock = "free" /\ UNCHANGED <<rules, label, noted>>
    <2>1. rules = Compiled(label) \/ noted < stamp
      BY <1>1 DEF StaleHasOldMark
    <2>2. noted < stamp => noted' < stamp'
      BY <1>1, <1>a
    <2> QED
      BY <1>1, <2>1, <2>2 DEF Compiled
  <1>2. CASE SameContent
    <2>1. born = "whole" /\ rules = Compiled(label)
      BY <1>2 DEF SameContent
    <2> QED
      BY <1>2, <2>1 DEF SameContent, Compiled
  <1>3. CASE Swap
    BY <1>3 DEF Swap, LoopReadsInOrder, Compiled, directory
  <1>4. ASSUME NEW s \in Scanners, FirstPrint(s) PROVE rules' = Compiled(label)'
    <2>1. rules = Compiled(disk)
      BY <1>4 DEF FirstPrint, BirthIsWatched
    <2> QED
      BY <1>4, <2>1 DEF FirstPrint, Compiled
  <1>5. ASSUME NEW s \in Scanners, Scan(s), ~FirstPrint(s)
        PROVE  born = "whole" /\ lock = "free" /\ UNCHANGED <<rules, label, noted>>
    <2>1. ~FirstCompile(s) /\ ~FirstStamp(s)
      <3>1. ASSUME FirstCompile(s) \/ FirstStamp(s) PROVE FALSE
        <4>1. lock' = lock /\ scanPc[s] \in LockedPlaces
          BY <3>1 DEF FirstCompile, FirstStamp, LockedPlaces
        <4> QED
          BY <4>1, RuleSetAssumption DEF LockIsHeld
      <3> QED
        BY <3>1
    <2>2. ~Claim(s) /\ ~FirstCompileFails(s)
      BY RuleSetAssumption DEF Claim, FirstCompileFails
    <2> QED
      BY <1>5, <2>1, <2>2 DEF Scan, Begin, Queue, SecondLook, Match, Sift, NextFile, stage
  <1>6. CASE Tick /\ ~SameContent /\ ~Swap
    BY <1>1, <1>6 DEF Tick, Look, NewContent, Compile, CompileFails, ApplyControl,
       ControlUnread, ReloadCandidate, PublishVersion, PublishVersionFails, stage
  <1>7. CASE Edit \/ EditCandidate \/ Switch \/ UNCHANGED ruleSetVars
    BY <1>1, <1>7 DEF Edit, EditCandidate, Switch, ruleSetVars, stage
  <1> QED
    BY <1>1, <1>2, <1>3, <1>4, <1>5, <1>6, <1>7 DEF RuleSetNext

-----------------------------------------------------------------------------
(* Theorems *)

LEMMA RuleSetStarts == RuleSetInit => RuleSetIInv
  <1> SUFFICES ASSUME RuleSetInit PROVE RuleSetIInv
    OBVIOUS
  <1>1. StageTypes /\ LoopTypes
    <2>1. 1 \in 1 .. 0 + 1 /\ 0 \in 0 .. 1 /\ 0 \in 0 .. MaxEdits
      BY RuleSetAssumption
    <2>2. /\ disk \in Contents /\ label = disk /\ candidateDisk \in Candidates
          /\ stamp = 1 /\ edits = 0 /\ noted = 0 /\ seenStamp = 0
          /\ rules = NoSet /\ candidate = NoSet /\ lock = "free" /\ loopPc = "look"
          /\ newSet = NoSet /\ newCandidate = NoSet
      BY DEF RuleSetInit
    <2> QED
      BY <2>1, <2>2 DEF StageTypes, LoopTypes, Sets, Trials
  <1>2. ScanTypes /\ ScanIsOneWork
    <2>1. 0 \in 0 .. Parts
      BY RuleSetAssumption
    <2>2. /\ scanPc = [s \in Scanners |-> "idle"] /\ own = [s \in Scanners |-> NoSet]
          /\ part = [s \in Scanners |-> 0] /\ beside = [s \in Scanners |-> NoSet]
          /\ used = [s \in Scanners |-> {}] /\ tried = [s \in Scanners |-> {}]
      BY DEF RuleSetInit
    <2> QED
      BY <2>1, <2>2 DEF ScanTypes, ScanPlaces, ScanIsOneWork
  <1>3. LockIsHeld
    BY RuleSetAssumption DEF RuleSetInit, LockIsHeld, LockedPlaces
  <1>4. LoopReadsInOrder /\ BirthIsWatched /\ StaleHasOldMark
    BY DEF RuleSetInit, LoopReadsInOrder, BirthIsWatched, StaleHasOldMark
  <1> QED
    BY <1>1, <1>2, <1>3, <1>4 DEF RuleSetIInv

LEMMA RuleSetKeeps == RuleSetIInv /\ [RuleSetNext]_ruleSetVars => RuleSetIInv'
  BY StageTypesNext, LoopTypesNext, ScansNext, LockIsHeldNext, LoopReadsInOrderNext,
     BirthIsWatchedNext, StaleHasOldMarkNext DEF RuleSetIInv

(* What is compiled compiles, and each scan is the work of the one set and the
   one candidate it began with, however often they are replaced while it runs
   (yara_rules.py, run and reload_if_changed). *)
THEOREM RuleSetInvariance == RuleSetSpec => []RuleSetInv
  <1>1. RuleSetIInv => RuleSetInv
    <2> SUFFICES ASSUME RuleSetIInv PROVE RuleSetInv
      OBVIOUS
    <2>1. stamp \in 1 .. MaxEdits + 1
      <3>1. edits \in 0 .. MaxEdits /\ stamp \in 1 .. edits + 1 /\ MaxEdits \in Nat
        BY RuleSetAssumption DEF RuleSetIInv, StageTypes
      <3> QED
        BY <3>1
    <2>2. RuleSetTypeOK
      BY <2>1 DEF RuleSetIInv, StageTypes, ScanTypes, RuleSetTypeOK, Sets, Trials
    <2>3. ScanUsesOneSet
      BY DEF RuleSetIInv, ScanIsOneWork, ScanUsesOneSet
    <2> QED
      BY <2>2, <2>3 DEF RuleSetInv
  <1> QED
    BY RuleSetStarts, RuleSetKeeps, <1>1, PTL DEF RuleSetSpec

(* If what is in use is not what the label in the keys of the cache names, the
   next look of the loop sees it, unless an edit crossed the first compilation
   (yara_rules.py, reload_if_changed). *)
THEOREM StaleSetsAreNoticed == RuleSetSpec => []StaleSetIsNoticed
  <1>1. RuleSetIInv => StaleSetIsNoticed
    <2> SUFFICES ASSUME RuleSetIInv, born = "whole", lock = "free",
                        rules # Compiled(label)
                 PROVE  noted # stamp
      BY DEF StaleSetIsNoticed
    <2>1. noted < stamp
      BY DEF RuleSetIInv, StaleHasOldMark
    <2>2. stamp \in Nat /\ noted \in Nat
      BY RuleSetAssumption DEF RuleSetIInv, StageTypes
    <2> QED
      BY <2>1, <2>2
  <1> QED
    BY RuleSetStarts, RuleSetKeeps, <1>1, PTL DEF RuleSetSpec

-----------------------------------------------------------------------------
(* The cache of verdicts *)

(* The values of the variables. *)
AllCodes == FileCodes \cup RequestDerivedCodes \cup AvCodes
Scores == {RuleFor(WeightsFor[w], c) : w \in Tables, c \in AllCodes}
SomeFindings ==
  [stage : {"filetype", "structure", "clamav", "yara"}, code : AllCodes, score : Scores]
SomeFacts ==
  [findings : SUBSET SomeFindings, encrypted : {FALSE}, supported : {TRUE},
   failed : SUBSET {"clamav"}]
Halves ==
  [facts : SomeFacts, artifact : Nat, made : BOOLEAN, whole : BOOLEAN, steady : BOOLEAN,
   avFailed : BOOLEAN]
Claims == SUBSET RequestDerivedCodes
Labels == Versions \cup {Unknown}
Numbers == 1 .. Len(AskedBy)
Asked ==
  [step : {"none", "structural", "antivirus", "forwarded"}, number : Numbers, tenant : Tenants,
   claim : Claims, half : Halves, label : Labels]
Waiting ==
  [step : {"start"}, tenant : Tenants, claim : Claims, cached : Halves, label : Labels]
ScanSteps == {"parse", "clamav", "yara", "decide", "store structural", "store av"}
Running ==
  [step : ScanSteps, tenant : Tenants, claim : Claims, cached : Halves, weights : Tables,
   facts : SomeFacts, whole : BOOLEAN, artifact : Nat, verdict : Verdicts, lifted : BOOLEAN,
   label : Labels]

WorldTypes ==
  /\ onDisk \in Configurations /\ switch \in BOOLEAN
  /\ changes \in 0 .. MaxChanges /\ database \in 1 .. changes + 1
EngineTypes ==
  /\ loaded \in Configurations /\ disabled \in BOOLEAN /\ known \in Databases
  /\ shown \in Labels /\ shownDb \in Databases \cup {0} /\ steady \in BOOLEAN
  /\ reloader \in {"starting", "reload", "control", "publish", "dead"}
StoreTypes ==
  /\ structural \in [Versions \X Keys -> Halves] /\ antivirus \in [Databases -> Halves]
  /\ copies \subseteq Numbers
RequestTypes ==
  /\ request = [step |-> "none", number |-> 0] \/ request \in Asked
  /\ scan = NoScan \/ scan \in Waiting \cup Running
  /\ scan # NoScan => request \in Asked /\ request.step = "forwarded"

(* The halves have nothing in common: whatever the antivirus says is in one,
   and nothing of it, nor of the request, in the other. *)
OfTheFile(half) ==
  /\ half.facts.failed = {}
  /\ \A f \in half.facts.findings : f.stage # "clamav" /\ f.code \in FileCodes
HalvesAreApart ==
  /\ \A v \in Versions : \A k \in Keys : OfTheFile(structural[<<v, k>>])
  /\ request.step = "antivirus" => OfTheFile(request.half)
  /\ scan.step # "none" => OfTheFile(scan.cached)
  /\ \A d \in Databases : antivirus[d].avFailed <=> "clamav" \in antivirus[d].facts.failed

(* What a scan holds at each step. *)
FromFile(F) == {f \in F : f.stage # "clamav" /\ f.code \notin RequestDerivedCodes}
FromAv(F) == {f \in F : f.stage = "clamav"}

Scanning == scan.step \in ScanSteps
ScanIsSplit ==
  Scanning =>
    /\ \A f \in scan.facts.findings : f.stage = "clamav" <=> f.code \in AvCodes
    /\ scan.step \in {"parse", "clamav"} =>
         FromAv(scan.facts.findings) = {} /\ scan.facts.failed = {}
    /\ scan.step = "parse" => scan.facts.findings = {}
    /\ ~scan.cached.made => scan.weights[2] = scan.tenant
    /\ scan.cached.made =>
         /\ scan.step \notin {"parse", "yara"}
         /\ FromFile(scan.facts.findings) =
              IF scan.step \in {"clamav", "decide"} THEN {} ELSE scan.cached.facts.findings

(* What is about to be stored and answered: a blocked file has no copy, and a
   full scan makes one of a file that is trusted. *)
DecisionFits ==
  scan.step \in {"store structural", "store av"} =>
    /\ scan.verdict = "malicious" => scan.artifact = 0
    /\ scan.lifted /\ ~scan.cached.made => scan.artifact # 0

CacheIInv ==
  /\ WorldTypes /\ EngineTypes /\ StoreTypes /\ RequestTypes
  /\ HalvesAreApart /\ ScanIsSplit /\ DecisionFits
  /\ CachedFailureIsNotClean /\ BlockedHasNoCopy /\ TrustedGetsACopy

(* Whose weights: what the keys of the cache leave out.  A tenant named as the
   key of those without scores of their own has none, and the score of a
   signature is the same for all, for the half of the antivirus goes by the
   database alone. *)
AvCode == "AV_SIGNATURE_MATCH"
WeightsAreApart ==
  /\ "default" \in Tenants => DOMAIN OverridesOf["default"] = {}
  /\ \A v, w \in Tables : RuleFor(WeightsFor[v], AvCode) = RuleFor(WeightsFor[w], AvCode)

(* Findings as codes and scores, and those a version and a database give. *)
Pairs(F) == {<<f.code, f.score>> : f \in F}
Weighed(codes, w) == {<<c, RuleFor(WeightsFor[w], c)>> : c \in codes}
FoundIn(v) == Structure \cup (MatchedBy[v.config] \ (IF v.off THEN {Switchable} ELSE {}))
SignedIn(d) == IF d >= KnownFrom THEN {AvCode} ELSE {}

(* A half of complete scans under one version holds what a full scan finds
   under that version, for every tenant of the key. *)
Sound(half, v, k) ==
  half.whole /\ half.steady =>
    \A t \in Tenants : WeightsKey(t) = k =>
      Pairs(half.facts.findings) = Weighed(FoundIn(v), <<v.config, t>>)
AvSound(half, d) ==
  half.whole /\ half.steady /\ ~half.avFailed =>
    /\ half.facts.failed = {}
    /\ \A w \in Tables : Pairs(half.facts.findings) = Weighed(SignedIn(d), w)

SoundHalves ==
  /\ \A v \in Versions : \A k \in Keys : Sound(structural[<<v, k>>], v, k)
  /\ \A d \in Databases : AvSound(antivirus[d], d)
  /\ request.step = "antivirus" =>
       request.label \in Versions /\ Sound(request.half, request.label, WeightsKey(request.tenant))
  /\ scan.step # "none" /\ scan.cached.made =>
       scan.label \in Versions /\ Sound(scan.cached, scan.label, WeightsKey(scan.tenant))

(* What a full scan that nothing disturbed has seen of the file by a step. *)
SeenAt(step) ==
  CASE step = "parse" -> {}
    [] step \in {"clamav", "yara"} -> Structure
    [] OTHER -> FoundIn(Version)

SoundScan ==
  Scanning /\ steady =>
    /\ known = database /\ scan.weights[1] = loaded
    /\ scan.whole /\ ~scan.cached.made =>
         Pairs(FromFile(scan.facts.findings)) = Weighed(SeenAt(scan.step), scan.weights)
    /\ scan.whole /\ scan.step \notin {"parse", "clamav"} /\ scan.facts.failed = {} =>
         Pairs(FromAv(scan.facts.findings)) = Weighed(SignedIn(known), scan.weights)

SoundIInv ==
  WeightsAreApart /\ CacheIInv /\ SoundHalves /\ SoundScan /\ CachedAnswerIsFullVerdict

-----------------------------------------------------------------------------
(* Constants *)

LEMMA CodesApart ==
  /\ FileCodes \cap AvCodes = {} /\ FileCodes \cap RequestDerivedCodes = {}
  /\ AvCodes \cap RequestDerivedCodes = {}
  /\ Structure \subseteq FileCodes /\ \A n \in Configurations : MatchedBy[n] \subseteq FileCodes
  /\ AvCode \in AvCodes /\ "STAGE_FAILED" \in AvCodes
  BY VerdictCacheAssumption DEF FileCodes, AvCodes, RequestDerivedCodes, AvCode

LEMMA CountFacts ==
  /\ MaxChanges \in Nat /\ Configurations = 1 .. MaxChanges + 1 /\ 1 \in Configurations
  /\ Databases = 1 .. MaxChanges + 1 /\ 1 \in Databases /\ 0 \notin Configurations
  /\ Len(AskedBy) \in Nat /\ \A n \in Numbers : AskedBy[n] \subseteq Tenants /\ n \in Nat /\ n # 0
  <1>1. /\ MaxChanges \in Nat /\ Configurations = 1 .. MaxChanges + 1
        /\ AskedBy \in Seq(SUBSET Tenants)
    BY VerdictCacheAssumption
  <1>2. Len(AskedBy) \in Nat /\ \A n \in 1 .. Len(AskedBy) : AskedBy[n] \in SUBSET Tenants
    BY <1>1
  <1> QED
    BY <1>1, <1>2 DEF Databases, Numbers

LEMMA LabelFacts ==
  /\ Unknown \notin Versions /\ Versions \subseteq Labels /\ Unknown \in Labels
  /\ \A n \in Configurations, b \in BOOLEAN : [config |-> n, off |-> b] \in Versions
  BY CountFacts DEF Unknown, Versions, Labels

LEMMA KeyFacts ==
  \A t \in Tenants : WeightsKey(t) \in Keys
  BY DEF Keys

LEMMA NoHalfFacts ==
  /\ NoHalf \in Halves /\ OfTheFile(NoHalf) /\ NoHalf.made = FALSE /\ NoHalf.facts.findings = {}
  /\ NoFacts \in SomeFacts /\ NoFacts.findings = {} /\ NoFacts.failed = {}
  /\ NoFacts.encrypted = FALSE /\ NoFacts.supported = TRUE
  /\ NoHalf.avFailed = FALSE /\ NoHalf.facts.failed = {} /\ NoHalf.facts = NoFacts
  BY DEF NoHalf, Halves, OfTheFile, NoFacts, SomeFacts

LEMMA VerdictKinds ==
  \A facts, policy : VerdictOf(facts, policy) \in Verdicts
  <1> SUFFICES ASSUME NEW facts, NEW policy PROVE VerdictOf(facts, policy) \in Verdicts
    OBVIOUS
  <1>1. VerdictOnFailure(policy) \in {"clean", "malicious", "suspicious"}
    BY DEF VerdictOnFailure
  <1>2. ApplyFailure("clean", policy) \in {"clean", "malicious", "suspicious"}
    BY <1>1 DEF ApplyFailure
  <1> DEFINE degraded == ApplyFailure("clean", policy)
  <1>3. VerdictOf(facts, policy) \in
          {"malicious", "encrypted", "unsupported", "suspicious", degraded, "clean"}
    BY DEF VerdictOf, VerdictAndScore
  <1> HIDE DEF degraded
  <1> QED
    BY <1>2, <1>3 DEF Verdicts, degraded

(* A part that failed is not passed over, but by who fails open. *)
LEMMA FailedIsNotClean ==
  ASSUME NEW facts, NEW policy, "clamav" \in facts.failed, policy.failMode # "fail-open"
  PROVE  VerdictOf(facts, policy) # "clean"
  <1>1. VerdictOnFailure(policy) \in {"malicious", "suspicious"}
    BY DEF VerdictOnFailure
  <1>2. ApplyFailure("clean", policy) \in {"malicious", "suspicious"}
    BY <1>1 DEF ApplyFailure
  <1>3. CoverageIncomplete(facts)
    BY DEF CoverageIncomplete, EssentialStages
  <1> DEFINE degraded == ApplyFailure("clean", policy)
  <1>4. VerdictOf(facts, policy) \in
          {"malicious", "encrypted", "unsupported", "suspicious", degraded}
    BY <1>3 DEF VerdictOf, VerdictAndScore
  <1> HIDE DEF degraded
  <1> QED
    BY <1>2, <1>4 DEF degraded

-----------------------------------------------------------------------------
(* Findings *)

LEMMA FoundFacts ==
  ASSUME NEW facts \in SomeFacts, NEW codes \in SUBSET AllCodes, scan.weights \in Tables,
         NEW teller \in {"filetype", "structure", "clamav", "yara"}
  PROVE  /\ Found(facts, teller, codes) \in SomeFacts
         /\ Found(facts, teller, codes).failed = facts.failed
         /\ Found(facts, teller, codes).findings =
              facts.findings \cup {Finding(teller, c, RuleFor(WeightsFor[scan.weights], c)) :
                                     c \in codes \ Codes(facts.findings)}
  <1> DEFINE new == {Finding(teller, c, RuleFor(WeightsFor[scan.weights], c)) :
                       c \in codes \ Codes(facts.findings)}
  <1>1. \A c \in AllCodes : RuleFor(WeightsFor[scan.weights], c) \in Scores
    BY DEF Scores
  <1>2. new \subseteq SomeFindings
    BY <1>1 DEF SomeFindings, Finding
  <1>3. Found(facts, teller, codes) = [facts EXCEPT !.findings = facts.findings \cup new]
    BY DEF Found
  <1> HIDE DEF new
  <1>4. /\ Found(facts, teller, codes) \in SomeFacts
        /\ Found(facts, teller, codes).failed = facts.failed
        /\ Found(facts, teller, codes).findings = facts.findings \cup new
    BY <1>2, <1>3 DEF SomeFacts
  <1> QED
    BY <1>4 DEF new

LEMMA MergeFacts ==
  ASSUME NEW a \in SomeFacts, NEW b \in SomeFacts
  PROVE  /\ Merge(a, b) \in SomeFacts
         /\ Merge(a, b).failed = a.failed \cup b.failed
         /\ Merge(a, b).encrypted = FALSE /\ Merge(a, b).supported = TRUE
         /\ Merge(a, b).findings =
              a.findings \cup {f \in b.findings : f.code \notin Codes(a.findings)}
  <1>1. /\ a.findings \subseteq SomeFindings /\ b.findings \subseteq SomeFindings
        /\ a.failed \subseteq {"clamav"} /\ b.failed \subseteq {"clamav"}
        /\ a.encrypted = FALSE /\ b.encrypted = FALSE /\ a.supported = TRUE /\ b.supported = TRUE
    BY DEF SomeFacts
  <1>2. Merge(a, b) = [findings |-> Join(a.findings, b.findings), encrypted |-> FALSE,
                       supported |-> TRUE, failed |-> a.failed \cup b.failed]
    BY <1>1 DEF Merge
  <1>3. Join(a.findings, b.findings) =
          a.findings \cup {f \in b.findings : f.code \notin Codes(a.findings)}
    BY DEF Join
  <1>4. Join(a.findings, b.findings) \subseteq SomeFindings
    BY <1>1, <1>3
  <1> QED
    BY <1>1, <1>2, <1>3, <1>4 DEF SomeFacts

LEMMA PartFacts ==
  ASSUME NEW facts \in SomeFacts
  PROVE  /\ StructuralPart(facts) \in SomeFacts /\ StructuralPart(facts).failed = {}
         /\ StructuralPart(facts).findings = FromFile(facts.findings)
         /\ AvPart(facts) \in SomeFacts /\ AvPart(facts).failed = facts.failed
         /\ AvPart(facts).findings = FromAv(facts.findings)
  <1>1. /\ facts.findings \subseteq SomeFindings /\ facts.failed \subseteq {"clamav"}
    BY DEF SomeFacts
  <1>2. /\ FromFile(facts.findings) \subseteq SomeFindings
        /\ FromAv(facts.findings) \subseteq SomeFindings
    BY <1>1 DEF FromFile, FromAv
  <1>3. StructuralPart(facts) =
          [facts EXCEPT !.findings = FromFile(facts.findings), !.failed = facts.failed \ {"clamav"}]
    BY DEF StructuralPart, FromFile
  <1>4. AvPart(facts) = [NoFacts EXCEPT !.findings = FromAv(facts.findings),
                                        !.failed = facts.failed \cap {"clamav"}]
    BY DEF AvPart, FromAv
  <1>5. facts.failed \ {"clamav"} = {} /\ facts.failed \cap {"clamav"} = facts.failed
    BY <1>1
  <1> HIDE DEF StructuralPart, AvPart
  <1>6. /\ StructuralPart(facts) \in SomeFacts /\ StructuralPart(facts).failed = {}
        /\ StructuralPart(facts).findings = FromFile(facts.findings)
    BY <1>2, <1>3, <1>5 DEF SomeFacts
  <1>7. /\ AvPart(facts) \in SomeFacts /\ AvPart(facts).failed = facts.failed
        /\ AvPart(facts).findings = FromAv(facts.findings)
    BY <1>1, <1>2, <1>4, <1>5 DEF SomeFacts, NoFacts
  <1> QED
    BY <1>6, <1>7

(* A stage ends: an early end leaves stages out. *)
LEMMA AfterFacts ==
  ASSUME scan \in Running, NEW facts \in SomeFacts, NEW next \in {"clamav", "yara", "decide"}
  PROVE  LET after == After(facts, next) IN
         /\ after \in Running /\ after.facts = facts /\ after.step \in {next, "decide"}
         /\ after.tenant = scan.tenant /\ after.claim = scan.claim /\ after.cached = scan.cached
         /\ after.weights = scan.weights /\ after.label = scan.label
         /\ after.whole => scan.whole /\ after.step = next
         /\ scan.cached.made => after.step = next
  <1> DEFINE early == ~scan.cached.made /\ ShouldStopEarly(facts, OwnPolicy)
             step == IF early THEN "decide" ELSE next
             whole == scan.whole /\ ~(early /\ next # "decide")
             after == After(facts, next)
  <1>1. after = [scan EXCEPT !.facts = facts, !.step = step, !.whole = whole]
    BY DEF After
  <1>2. /\ step \in {next, "decide"} /\ step \in ScanSteps
        /\ scan.cached.made => step = next
        /\ whole => scan.whole /\ step = next
    BY DEF ScanSteps
  <1>3. whole \in BOOLEAN
    OBVIOUS
  <1> HIDE DEF early, step, whole, after
  <1>4. /\ after \in Running /\ after.facts = facts /\ after.step = step /\ after.whole = whole
        /\ after.tenant = scan.tenant /\ after.claim = scan.claim /\ after.cached = scan.cached
        /\ after.weights = scan.weights /\ after.label = scan.label
    BY <1>1, <1>2, <1>3 DEF Running
  <1>5. /\ after \in Running /\ after.facts = facts /\ after.step \in {next, "decide"}
        /\ after.tenant = scan.tenant /\ after.claim = scan.claim /\ after.cached = scan.cached
        /\ after.weights = scan.weights /\ after.label = scan.label
        /\ after.whole => scan.whole /\ after.step = next
        /\ scan.cached.made => after.step = next
    BY <1>2, <1>4
  <1> QED
    BY <1>5 DEF after

-----------------------------------------------------------------------------
(* The invariant, step by step *)

AnswerFits == CachedFailureIsNotClean /\ BlockedHasNoCopy /\ TrustedGetsACopy

LEMMA CacheStarts == CacheInit => CacheIInv
  <1> SUFFICES ASSUME CacheInit PROVE CacheIInv
    OBVIOUS
  <1>1. /\ onDisk = 1 /\ switch = FALSE /\ database = 1
        /\ loaded = 1 /\ disabled = FALSE /\ known = 1
        /\ shown = Version /\ shownDb = 1 /\ reloader = "reload" /\ copies = {} /\ steady = TRUE
        /\ changes = 0 /\ request = [step |-> "none", number |-> 0] /\ scan = NoScan
        /\ answer = NoAnswer
        /\ structural = [entry \in Versions \X Keys |-> NoHalf]
        /\ antivirus = [d \in Databases |-> NoHalf]
    BY DEF CacheInit
  <1>2. Version \in Labels
    BY <1>1, CountFacts, LabelFacts DEF Version
  <1>3. WorldTypes /\ EngineTypes
    <2>1. changes \in 0 .. MaxChanges /\ database \in 1 .. changes + 1
      BY <1>1, CountFacts
    <2>2. WorldTypes
      BY <1>1, <2>1, CountFacts DEF WorldTypes
    <2>3. EngineTypes
      BY <1>1, <1>2, CountFacts DEF EngineTypes
    <2> QED
      BY <2>2, <2>3
  <1>4. StoreTypes
    BY <1>1, NoHalfFacts DEF StoreTypes
  <1>5. RequestTypes
    BY <1>1 DEF RequestTypes
  <1>6. HalvesAreApart
    <2>1. \A v \in Versions : \A k \in Keys : structural[<<v, k>>] = NoHalf
      BY <1>1
    <2>2. \A d \in Databases : antivirus[d] = NoHalf
      BY <1>1
    <2>3. request.step = "none" /\ scan.step = "none"
      BY <1>1 DEF NoScan
    <2> QED
      BY <2>1, <2>2, <2>3, NoHalfFacts DEF HalvesAreApart
  <1>7. ScanIsSplit /\ DecisionFits
    BY <1>1 DEF NoScan, ScanIsSplit, Scanning, ScanSteps, DecisionFits
  <1>8. CachedFailureIsNotClean /\ BlockedHasNoCopy /\ TrustedGetsACopy
    BY <1>1 DEF NoAnswer, CachedFailureIsNotClean, BlockedHasNoCopy, TrustedGetsACopy
  <1> QED
    BY <1>3, <1>4, <1>5, <1>6, <1>7, <1>8 DEF CacheIInv

(* What is said of request, scan, halves and answer holds while they stay. *)
LEMMA StaysApart ==
  ASSUME CacheIInv, structural' = structural, antivirus' = antivirus, request' = request,
         scan' = scan
  PROVE  RequestTypes' /\ HalvesAreApart' /\ ScanIsSplit' /\ DecisionFits'
  <1>1. RequestTypes' /\ HalvesAreApart'
    BY DEF CacheIInv, RequestTypes, HalvesAreApart
  <1>2. ScanIsSplit' /\ DecisionFits'
    BY DEF CacheIInv, ScanIsSplit, Scanning, DecisionFits
  <1> QED
    BY <1>1, <1>2

LEMMA AnswerStays ==
  ASSUME CacheIInv, answer' = answer
  PROVE  AnswerFits'
  BY DEF CacheIInv, AnswerFits, CachedFailureIsNotClean, BlockedHasNoCopy, TrustedGetsACopy

LEMMA WorldNext ==
  ASSUME CacheIInv, EditConfig \/ FlipSwitch \/ UpdateDatabase \/ Trust \/ ArtifactExpires
  PROVE  CacheIInv'
  <1>1. /\ structural' = structural /\ antivirus' = antivirus /\ request' = request /\ scan' = scan
        /\ answer' = answer /\ loaded' = loaded /\ disabled' = disabled /\ known' = known
        /\ shown' = shown /\ shownDb' = shownDb /\ reloader' = reloader
        /\ changes < MaxChanges /\ changes' = changes + 1
    BY DEF EditConfig, FlipSwitch, UpdateDatabase, Trust, ArtifactExpires, Change, engine,
       published, stores, levels, world
  <1>2. WorldTypes /\ EngineTypes /\ StoreTypes
    BY DEF CacheIInv
  <1>3. WorldTypes'
    <2>1. changes' \in 0 .. MaxChanges
      BY <1>1, <1>2, CountFacts DEF WorldTypes
    <2>2. onDisk' \in Configurations /\ switch' \in BOOLEAN
      BY <1>2 DEF WorldTypes, EditConfig, FlipSwitch, UpdateDatabase, Trust, ArtifactExpires, world
    <2>3. database' = database \/ database' = database + 1
      BY DEF EditConfig, FlipSwitch, UpdateDatabase, Trust, ArtifactExpires, world
    <2>4. database' \in 1 .. changes' + 1
      BY <1>1, <1>2, <2>3, CountFacts DEF WorldTypes
    <2> QED
      BY <2>1, <2>2, <2>4 DEF WorldTypes
  <1>4. EngineTypes'
    <2>1. steady' \in BOOLEAN
      BY <1>2 DEF EngineTypes, EditConfig, FlipSwitch, UpdateDatabase, Trust, ArtifactExpires
    <2> QED
      BY <1>1, <1>2, <2>1 DEF EngineTypes
  <1>5. StoreTypes'
    <2>1. copies' \subseteq copies
      BY DEF EditConfig, FlipSwitch, UpdateDatabase, Trust, ArtifactExpires, stores
    <2> QED
      BY <1>1, <1>2, <2>1 DEF StoreTypes
  <1> QED
    BY <1>1, <1>3, <1>4, <1>5, StaysApart, AnswerStays DEF CacheIInv, AnswerFits

(* A database is one of those that may be published. *)
LEMMA DatabaseFacts ==
  ASSUME WorldTypes, EngineTypes
  PROVE  database \in Databases /\ Version \in Versions /\ Version \in Labels /\ 0 \notin Databases
  <1>1. database \in Databases /\ 0 \notin Databases
    BY CountFacts DEF WorldTypes
  <1>2. Version \in Versions
    BY LabelFacts DEF Version, EngineTypes
  <1> QED
    BY <1>1, <1>2, LabelFacts

LEMMA LoopNext ==
  ASSUME CacheIInv, LoopStep
  PROVE  CacheIInv'
  <1>1. /\ structural' = structural /\ antivirus' = antivirus /\ request' = request /\ scan' = scan
        /\ answer' = answer /\ onDisk' = onDisk /\ switch' = switch /\ database' = database
        /\ copies' = copies /\ changes' = changes
    BY DEF LoopStep, Reload, Control, Publish, PublishFails, VersionsExpire, engine,
       published, stores, levels, world
  <1>2. WorldTypes /\ EngineTypes /\ StoreTypes
    BY DEF CacheIInv
  <1>3. WorldTypes' /\ StoreTypes'
    BY <1>1, <1>2 DEF WorldTypes, StoreTypes
  <1>4. EngineTypes'
    <2>1. loaded' \in Configurations /\ known' \in Databases
      BY <1>2, DatabaseFacts DEF LoopStep, Reload, Control, Publish, PublishFails, VersionsExpire,
         engine, EngineTypes, WorldTypes
    <2>2. disabled' \in BOOLEAN
      BY <1>2 DEF LoopStep, Reload, Control, Publish, PublishFails, VersionsExpire,
         engine, EngineTypes, WorldTypes
    <2>3. steady' \in BOOLEAN
      BY <1>2 DEF LoopStep, Reload, Control, Publish, PublishFails, VersionsExpire, EngineTypes
    <2>4. shown' \in Labels /\ shownDb' \in Databases \cup {0}
      BY <1>2, DatabaseFacts, LabelFacts DEF LoopStep, Reload, Control, Publish, PublishFails,
         VersionsExpire, published, EngineTypes
    <2>5. reloader' \in {"starting", "reload", "control", "publish", "dead"}
      BY <1>2 DEF LoopStep, Reload, Control, Publish, PublishFails, VersionsExpire, EngineTypes
    <2> QED
      BY <2>1, <2>2, <2>3, <2>4, <2>5 DEF EngineTypes
  <1> QED
    BY <1>1, <1>3, <1>4, StaysApart, AnswerStays DEF CacheIInv, AnswerFits

(* The gateway leaves the world, the engine and the stores alone. *)
LEMMA GatewayKeeps ==
  ASSUME CacheIInv, Ask \/ Lookup
  PROVE  /\ WorldTypes' /\ EngineTypes' /\ StoreTypes'
         /\ structural' = structural /\ antivirus' = antivirus
         /\ onDisk' = onDisk /\ database' = database /\ loaded' = loaded
         /\ disabled' = disabled /\ known' = known /\ steady' = steady
  <1>1. /\ structural' = structural /\ antivirus' = antivirus
        /\ onDisk' = onDisk /\ switch' = switch /\ database' = database /\ loaded' = loaded
        /\ disabled' = disabled /\ known' = known /\ steady' = steady /\ copies' = copies
        /\ shown' = shown /\ shownDb' = shownDb /\ reloader' = reloader /\ changes' = changes
    BY DEF Ask, Lookup, LookStructural, AvHalfMissing, AnswerFromCache, LiftFromCache, AnswerWith,
       LiftByFullPass, engine, published, stores, levels, world
  <1>2. WorldTypes /\ EngineTypes /\ StoreTypes
    BY DEF CacheIInv
  <1>3. WorldTypes' /\ EngineTypes'
    BY <1>1, <1>2 DEF WorldTypes, EngineTypes
  <1>4. StoreTypes'
    BY <1>1, <1>2 DEF StoreTypes
  <1> QED
    BY <1>1, <1>3, <1>4

LEMMA AskNext ==
  ASSUME CacheIInv, Ask
  PROVE  CacheIInv'
  <1>1. scan = NoScan /\ scan' = scan /\ answer' = NoAnswer /\ request.number < Len(AskedBy)
    BY DEF Ask
  <1>2. PICK tenant \in AskedBy[request.number + 1] : \E claim \in ClaimsOf[tenant] :
          request' = [step |-> "structural", number |-> request.number + 1, tenant |-> tenant,
                      claim |-> claim, half |-> NoHalf, label |-> Unknown]
    BY DEF Ask
  <1>3. PICK claim \in ClaimsOf[tenant] :
          request' = [step |-> "structural", number |-> request.number + 1, tenant |-> tenant,
                      claim |-> claim, half |-> NoHalf, label |-> Unknown]
    BY <1>2
  <1>4. request.number + 1 \in Numbers
    <2>1. request.number \in Nat
      BY CountFacts DEF CacheIInv, RequestTypes, Asked, Numbers
    <2> QED
      BY <1>1, <2>1, CountFacts DEF Numbers
  <1>5. tenant \in Tenants /\ claim \in Claims
    BY <1>2, <1>3, <1>4, CountFacts, VerdictCacheAssumption DEF Claims
  <1>6. request' \in Asked /\ request'.step = "structural"
    BY <1>3, <1>4, <1>5, NoHalfFacts, LabelFacts DEF Asked
  <1>7. RequestTypes'
    BY <1>1, <1>6 DEF RequestTypes
  <1>8. HalvesAreApart'
    BY <1>1, <1>6, GatewayKeeps DEF CacheIInv, HalvesAreApart
  <1>9. ScanIsSplit' /\ DecisionFits'
    BY <1>1 DEF CacheIInv, ScanIsSplit, Scanning, DecisionFits
  <1>10. AnswerFits'
    BY <1>1 DEF NoAnswer, AnswerFits, CachedFailureIsNotClean, BlockedHasNoCopy, TrustedGetsACopy
  <1> QED
    BY <1>7, <1>8, <1>9, <1>10, GatewayKeeps DEF CacheIInv, AnswerFits

(* A job that is handed to the worker. *)
LEMMA HandedOver ==
  ASSUME CacheIInv, request \in Asked, NEW half \in Halves, OfTheFile(half),
         request' = Forwarded, scan' = Job(half)
  PROVE  /\ RequestTypes' /\ ScanIsSplit' /\ DecisionFits'
         /\ request'.step = "forwarded" /\ scan'.step = "start" /\ OfTheFile(scan'.cached)
         /\ scan'.cached = half /\ scan'.label = request.label /\ scan'.tenant = request.tenant
  <1>1. request' \in Asked /\ request'.step = "forwarded"
    BY DEF Forwarded, Asked
  <1>2. /\ scan' \in Waiting /\ scan'.step = "start" /\ scan'.cached = half
        /\ scan'.label = request.label /\ scan'.tenant = request.tenant
    BY DEF Job, Waiting, Asked
  <1>3. RequestTypes'
    BY <1>1, <1>2 DEF RequestTypes
  <1>4. ScanIsSplit' /\ DecisionFits'
    BY <1>2 DEF ScanIsSplit, Scanning, ScanSteps, DecisionFits
  <1>5. OfTheFile(scan'.cached)
    BY <1>2
  <1> QED
    BY <1>1, <1>2, <1>3, <1>4, <1>5

LEMMA LookupKeepsIdle ==
  ASSUME CacheIInv, request.step \in {"structural", "antivirus"}
  PROVE  scan = NoScan /\ scan.step = "none" /\ request \in Asked
  BY DEF CacheIInv, RequestTypes, NoScan

(* The half that was looked up. *)
LookedUp == IF shown = Unknown THEN NoHalf ELSE structural[<<shown, WeightsKey(request.tenant)>>]

LEMMA LookedUpFacts ==
  ASSUME CacheIInv, request \in Asked
  PROVE  /\ LookedUp \in Halves /\ OfTheFile(LookedUp)
         /\ LookedUp.made => shown \in Versions
                             /\ LookedUp = structural[<<shown, WeightsKey(request.tenant)>>]
  <1>1. WeightsKey(request.tenant) \in Keys
    BY KeyFacts DEF Asked
  <1>2. shown # Unknown => shown \in Versions
    BY DEF CacheIInv, EngineTypes, Labels
  <1>3. CASE shown = Unknown
    BY <1>3, NoHalfFacts DEF LookedUp
  <1>4. CASE shown # Unknown
    <2>1. LookedUp = structural[<<shown, WeightsKey(request.tenant)>>]
      BY <1>4 DEF LookedUp
    <2>2. structural[<<shown, WeightsKey(request.tenant)>>] \in Halves
      BY <1>1, <1>2, <1>4 DEF CacheIInv, StoreTypes
    <2>3. OfTheFile(structural[<<shown, WeightsKey(request.tenant)>>])
      BY <1>1, <1>2, <1>4 DEF CacheIInv, HalvesAreApart
    <2> QED
      BY <1>2, <1>4, <2>1, <2>2, <2>3
  <1> QED
    BY <1>3, <1>4

LEMMA LookNext ==
  ASSUME CacheIInv, LookStructural
  PROVE  CacheIInv'
  <1>1. request \in Asked /\ scan = NoScan /\ answer' = answer /\ scan.step = "none"
    BY LookupKeepsIdle DEF LookStructural
  <1>2. LookedUp \in Halves /\ OfTheFile(LookedUp) /\ (LookedUp.made => shown \in Versions)
    BY <1>1, LookedUpFacts
  <1>3. shown \in Labels
    BY DEF CacheIInv, EngineTypes
  <1>4. \/ /\ request' = [request EXCEPT !.step = "antivirus", !.half = LookedUp, !.label = shown]
           /\ scan' = scan
        \/ request' = Forwarded /\ scan' = Job(NoHalf)
    BY DEF LookStructural, LookedUp
  <1>5. CASE /\ request' = [request EXCEPT !.step = "antivirus", !.half = LookedUp, !.label = shown]
             /\ scan' = scan
    <2>1. request' \in Asked /\ request'.half = LookedUp
      BY <1>1, <1>2, <1>3, <1>5 DEF Asked
    <2>2. RequestTypes'
      BY <1>1, <1>5, <2>1 DEF RequestTypes
    <2>3. HalvesAreApart'
      BY <1>1, <1>2, <1>5, <2>1, GatewayKeeps DEF CacheIInv, HalvesAreApart, Lookup
    <2>4. ScanIsSplit' /\ DecisionFits'
      BY <1>5 DEF CacheIInv, ScanIsSplit, Scanning, DecisionFits
    <2> QED
      BY <1>1, <2>2, <2>3, <2>4, GatewayKeeps, AnswerStays DEF CacheIInv, AnswerFits, Lookup
  <1>6. CASE request' = Forwarded /\ scan' = Job(NoHalf)
    <2>1. /\ RequestTypes' /\ ScanIsSplit' /\ DecisionFits'
          /\ request'.step = "forwarded" /\ scan'.step = "start" /\ OfTheFile(scan'.cached)
      BY <1>1, <1>6, HandedOver, NoHalfFacts
    <2>2. HalvesAreApart'
      BY <2>1, GatewayKeeps DEF CacheIInv, HalvesAreApart, Lookup
    <2> QED
      BY <1>1, <2>1, <2>2, GatewayKeeps, AnswerStays DEF CacheIInv, AnswerFits, Lookup
  <1> QED
    BY <1>4, <1>5, <1>6

LEMMA PassNext ==
  ASSUME CacheIInv, AvHalfMissing \/ LiftByFullPass
  PROVE  CacheIInv'
  <1>1. request \in Asked /\ answer' = answer /\ request.step = "antivirus" /\ request' = Forwarded
    BY LookupKeepsIdle DEF AvHalfMissing, LiftByFullPass
  <1>2. scan' = Job(request.half) \/ scan' = Job(NoHalf)
    BY DEF AvHalfMissing, LiftByFullPass
  <1>3. request.half \in Halves /\ OfTheFile(request.half)
    BY <1>1 DEF CacheIInv, HalvesAreApart, Asked
  <1>4. /\ RequestTypes' /\ ScanIsSplit' /\ DecisionFits'
        /\ request'.step = "forwarded" /\ scan'.step = "start" /\ OfTheFile(scan'.cached)
    BY <1>1, <1>2, <1>3, HandedOver, NoHalfFacts
  <1>5. HalvesAreApart'
    BY <1>4, GatewayKeeps DEF CacheIInv, HalvesAreApart, Lookup
  <1> QED
    BY <1>1, <1>4, <1>5, GatewayKeeps, AnswerStays DEF CacheIInv, AnswerFits, Lookup

LEMMA AnswerNext ==
  ASSUME CacheIInv, AnswerFromCache \/ LiftFromCache
  PROVE  CacheIInv'
  <1>1. request \in Asked /\ scan = NoScan /\ request.step = "antivirus" /\ CachedAv.made
        /\ scan.step = "none"
    BY LookupKeepsIdle DEF AnswerFromCache, LiftFromCache
  <1>2. PICK verdict \in {AssembledVerdict, "suspicious"} : \E artifact, lifted :
          /\ AnswerWith(verdict, artifact, lifted)
          /\ verdict = "malicious" => artifact = 0
          /\ lifted => artifact # 0
    BY DEF AnswerFromCache, LiftFromCache
  <1>3. PICK artifact, lifted :
          /\ AnswerWith(verdict, artifact, lifted)
          /\ verdict = "malicious" => artifact = 0
          /\ lifted => artifact # 0
    BY <1>2
  <1>4. /\ answer'.from = "cache" /\ answer'.verdict = verdict /\ answer'.artifact = artifact
        /\ answer'.lifted = lifted /\ answer'.avFailed = CachedAv.avFailed
        /\ answer'.tenant = request.tenant
        /\ request' = [request EXCEPT !.step = "none"] /\ scan' = scan
    BY <1>3 DEF AnswerWith, Answer
  <1>5. request' \in Asked /\ request'.step = "none"
    BY <1>1, <1>4 DEF Asked
  <1>6. RequestTypes'
    BY <1>1, <1>4, <1>5 DEF RequestTypes
  <1>7. HalvesAreApart'
    BY <1>1, <1>4, <1>5, GatewayKeeps DEF CacheIInv, HalvesAreApart, Lookup
  <1>8. ScanIsSplit' /\ DecisionFits'
    BY <1>4 DEF CacheIInv, ScanIsSplit, Scanning, DecisionFits
  <1>9. ASSUME CachedAv.avFailed, PolicyOf[request.tenant].failMode # "fail-open"
        PROVE  verdict # "clean"
    <2>1. shownDb \in Databases /\ CachedAv = antivirus[shownDb]
      BY <1>1, NoHalfFacts DEF CachedAv, CacheIInv, EngineTypes
    <2>2. CachedAv \in Halves /\ "clamav" \in CachedAv.facts.failed
      BY <1>9, <2>1 DEF CacheIInv, StoreTypes, HalvesAreApart
    <2>3. Assembled.failed = request.half.facts.failed \cup CachedAv.facts.failed
      BY DEF Assembled, Merge
    <2>4. AssembledVerdict # "clean"
      BY <1>9, <2>2, <2>3, FailedIsNotClean DEF AssembledVerdict
    <2> QED
      BY <1>2, <2>4
  <1>10. AnswerFits'
    BY <1>3, <1>4, <1>9 DEF AnswerFits, CachedFailureIsNotClean, BlockedHasNoCopy, TrustedGetsACopy
  <1> QED
    BY <1>6, <1>7, <1>8, <1>10, GatewayKeeps DEF CacheIInv, AnswerFits, Lookup

(* Nor does the worker while it scans, but for the faults and the copies. *)
LEMMA StageKeeps ==
  ASSUME CacheIInv, Parse \/ Clamav \/ ClamavFails \/ Yara \/ StartScan
  PROVE  /\ WorldTypes' /\ StoreTypes' /\ AnswerFits'
         /\ structural' = structural /\ antivirus' = antivirus /\ request' = request
         /\ onDisk' = onDisk /\ database' = database /\ loaded' = loaded
         /\ disabled' = disabled /\ known' = known
         /\ steady' \in BOOLEAN => EngineTypes'
  <1>1. /\ structural' = structural /\ antivirus' = antivirus
        /\ onDisk' = onDisk /\ switch' = switch /\ database' = database /\ loaded' = loaded
        /\ disabled' = disabled /\ known' = known /\ copies' = copies /\ request' = request
        /\ shown' = shown /\ shownDb' = shownDb /\ reloader' = reloader /\ changes' = changes
        /\ answer' = answer
    BY DEF Parse, Clamav, ClamavFails, Yara, StartScan, RestOfWorker, engine, published, stores,
       levels, world
  <1>2. WorldTypes /\ EngineTypes /\ StoreTypes
    BY DEF CacheIInv
  <1>3. WorldTypes' /\ (steady' \in BOOLEAN => EngineTypes')
    BY <1>1, <1>2 DEF WorldTypes, EngineTypes
  <1>4. StoreTypes'
    BY <1>1, <1>2 DEF StoreTypes
  <1> QED
    BY <1>1, <1>3, <1>4, AnswerStays

LEMMA ScanningFacts ==
  ASSUME CacheIInv, scan.step # "none"
  PROVE  /\ scan # NoScan /\ request \in Asked /\ request.step = "forwarded"
         /\ scan.step = "start" => scan \in Waiting
         /\ scan.step # "start" => scan \in Running
         /\ scan.cached \in Halves /\ OfTheFile(scan.cached) /\ scan.tenant \in Tenants
         /\ scan.claim \in Claims /\ scan.label \in Labels
  <1>1. scan # NoScan /\ scan \in Waiting \cup Running
    BY DEF CacheIInv, RequestTypes, NoScan
  <1>2. request \in Asked /\ request.step = "forwarded"
    BY <1>1 DEF CacheIInv, RequestTypes
  <1>3. scan.step = "start" => scan \in Waiting
    BY <1>1 DEF Running, ScanSteps
  <1>4. scan.step # "start" => scan \in Running
    BY <1>1 DEF Waiting
  <1>5. /\ scan.cached \in Halves /\ scan.tenant \in Tenants /\ scan.claim \in Claims
        /\ scan.label \in Labels
    BY <1>1 DEF Waiting, Running
  <1>6. OfTheFile(scan.cached)
    BY DEF CacheIInv, HalvesAreApart
  <1> QED
    BY <1>1, <1>2, <1>3, <1>4, <1>5, <1>6

LEMMA StartNext ==
  ASSUME CacheIInv, StartScan
  PROVE  CacheIInv'
  <1>1. /\ scan.step = "start" /\ scan \in Waiting /\ scan.tenant \in Tenants
        /\ request \in Asked /\ request.step = "forwarded"
        /\ scan.cached \in Halves /\ OfTheFile(scan.cached) /\ scan.claim \in Claims
        /\ scan.label \in Labels
    BY ScanningFacts DEF StartScan, Here
  <1> DEFINE cached == IF AvOnlyScan THEN scan.cached ELSE NoHalf
             first == IF AvOnlyScan THEN "clamav" ELSE "parse"
             weights == <<loaded, IF AvOnlyScan THEN "common" ELSE scan.tenant>>
  <1>2. scan' = [step |-> first, tenant |-> scan.tenant, claim |-> scan.claim, cached |-> cached,
                 weights |-> weights, facts |-> NoFacts, whole |-> TRUE, artifact |-> 0,
                 verdict |-> "error", lifted |-> FALSE, label |-> scan.label]
    BY DEF StartScan
  <1>3. /\ cached \in Halves /\ OfTheFile(cached) /\ first \in ScanSteps
        /\ cached.made => AvOnlyScan
    BY <1>1, NoHalfFacts DEF ScanSteps
  <1>4. weights \in Tables /\ (~AvOnlyScan => weights[2] = scan.tenant)
    BY <1>1 DEF CacheIInv, EngineTypes, Tables
  <1>5. /\ ~cached.made => weights[2] = scan.tenant
        /\ cached.made => first = "clamav"
        /\ first \in {"clamav", "parse"}
    <2>1. AvOnlyScan => scan.cached.made
      BY DEF AvOnlyScan
    <2> QED
      BY <1>3, <1>4, <2>1
  <1> HIDE DEF cached, first, weights
  <1>6. scan' \in Running /\ scan'.facts = NoFacts /\ scan'.cached = cached /\ scan'.step = first
        /\ scan'.weights = weights /\ scan'.tenant = scan.tenant
    BY <1>1, <1>2, <1>3, <1>4, NoHalfFacts DEF Running, Verdicts
  <1>7. RequestTypes'
    BY <1>1, <1>6, StageKeeps DEF RequestTypes
  <1>8. HalvesAreApart'
    BY <1>1, <1>3, <1>6, StageKeeps DEF CacheIInv, HalvesAreApart
  <1>9. ScanIsSplit'
    BY <1>5, <1>6, NoHalfFacts DEF ScanIsSplit, FromAv, FromFile
  <1>10. DecisionFits'
    BY <1>5, <1>6 DEF DecisionFits
  <1>11. steady' \in BOOLEAN
    BY DEF StartScan
  <1> QED
    BY <1>7, <1>8, <1>9, <1>10, <1>11, StageKeeps DEF CacheIInv, AnswerFits

(* What a stage leaves behind is what it found, and what was there before. *)
LEMMA StageNext ==
  ASSUME CacheIInv, scan \in Running, Parse \/ Clamav \/ ClamavFails \/ Yara,
         NEW facts \in SomeFacts, NEW next \in {"clamav", "yara", "decide"},
         scan' = After(facts, next),
         \A f \in facts.findings : f.stage = "clamav" <=> f.code \in AvCodes,
         next = "clamav" => FromAv(facts.findings) = {} /\ facts.failed = {}
                            /\ scan.step = "parse",
         scan.cached.made => next = "decide" /\ FromFile(facts.findings) = {},
         scan.step = "parse" => next = "clamav"
  PROVE  CacheIInv'
  <1>1. /\ scan' \in Running /\ scan'.facts = facts /\ scan'.step \in {next, "decide"}
        /\ scan'.tenant = scan.tenant /\ scan'.claim = scan.claim /\ scan'.cached = scan.cached
        /\ scan'.weights = scan.weights /\ scan'.label = scan.label
        /\ scan.cached.made => scan'.step = next
    BY AfterFacts
  <1>2. scan.step # "none" /\ scan.step # "start" /\ Scanning
    BY DEF Running, ScanSteps, Scanning
  <1>3. RequestTypes'
    BY <1>1, <1>2, StageKeeps, ScanningFacts DEF RequestTypes
  <1>4. HalvesAreApart'
    BY <1>1, <1>2, StageKeeps, ScanningFacts DEF CacheIInv, HalvesAreApart
  <1>5. ScanIsSplit'
    <2>1. \A f \in scan'.facts.findings : f.stage = "clamav" <=> f.code \in AvCodes
      BY <1>1
    <2>2. scan'.step \in {"parse", "clamav"} =>
            FromAv(scan'.facts.findings) = {} /\ scan'.facts.failed = {}
      BY <1>1
    <2>3. scan'.step # "parse"
      BY <1>1
    <2>4. ~scan'.cached.made => scan'.weights[2] = scan'.tenant
      BY <1>1, <1>2 DEF CacheIInv, ScanIsSplit
    <2>5. scan'.cached.made => scan'.step = "decide" /\ FromFile(scan'.facts.findings) = {}
      BY <1>1
    <2> QED
      BY <2>1, <2>2, <2>3, <2>4, <2>5 DEF ScanIsSplit
  <1>6. DecisionFits'
    BY <1>1 DEF DecisionFits
  <1>7. steady' \in BOOLEAN
    BY DEF CacheIInv, EngineTypes, Parse, Clamav, ClamavFails, Yara, RestOfWorker
  <1> QED
    BY <1>3, <1>4, <1>5, <1>6, <1>7, StageKeeps DEF CacheIInv, AnswerFits

(* The codes of what was found. *)
LEMMA FoundCodes ==
  ASSUME NEW facts \in SomeFacts, NEW codes \in SUBSET AllCodes, scan.weights \in Tables,
         NEW teller \in {"filetype", "structure", "clamav", "yara"}
  PROVE  \A f \in Found(facts, teller, codes).findings :
           f \in facts.findings \/ (f.stage = teller /\ f.code \in codes)
  <1>1. Found(facts, teller, codes).findings =
          facts.findings \cup {Finding(teller, c, RuleFor(WeightsFor[scan.weights], c)) :
                                 c \in codes \ Codes(facts.findings)}
    BY FoundFacts
  <1> SUFFICES ASSUME NEW f \in Found(facts, teller, codes).findings, f \notin facts.findings
               PROVE  f.stage = teller /\ f.code \in codes
    OBVIOUS
  <1>2. PICK c \in codes : f = Finding(teller, c, RuleFor(WeightsFor[scan.weights], c))
    BY <1>1
  <1> QED
    BY <1>2 DEF Finding

LEMMA FileCodesAreCodes ==
  ASSUME NEW c \in FileCodes
  PROVE  c \in AllCodes /\ c \notin AvCodes /\ c \notin RequestDerivedCodes
  BY CodesApart DEF AllCodes

LEMMA ParseNext ==
  ASSUME CacheIInv, Parse
  PROVE  CacheIInv'
  <1>1. /\ scan.step = "parse" /\ scan \in Running /\ scan.weights \in Tables
        /\ scan.facts \in SomeFacts /\ scan.claim \in Claims
    BY ScanningFacts DEF Parse, Here, Running
  <1>2. /\ scan.facts.findings = {} /\ scan.facts.failed = {} /\ ~scan.cached.made
    BY <1>1 DEF CacheIInv, ScanIsSplit, Scanning, ScanSteps, Running, Halves
  <1> DEFINE told == Found(scan.facts, "filetype", scan.claim)
             facts == Found(told, "structure", Structure)
  <1>3. /\ scan.claim \in SUBSET AllCodes /\ Structure \in SUBSET AllCodes
        /\ \A c \in scan.claim : c \notin AvCodes
        /\ \A c \in Structure : c \notin AvCodes
    BY <1>1, CodesApart, FileCodesAreCodes DEF AllCodes, Claims
  <1>4. told \in SomeFacts /\ told.failed = {}
    BY <1>1, <1>2, <1>3, FoundFacts
  <1>5. \A f \in told.findings : f.stage = "filetype" /\ f.code \in scan.claim
    BY <1>1, <1>2, <1>3, FoundCodes
  <1> HIDE DEF told
  <1>6. facts \in SomeFacts /\ facts.failed = {}
    BY <1>1, <1>3, <1>4, FoundFacts
  <1>7. \A f \in facts.findings : f.stage # "clamav" /\ f.code \notin AvCodes
    <2>1. \A f \in facts.findings :
            f \in told.findings \/ (f.stage = "structure" /\ f.code \in Structure)
      BY <1>1, <1>3, <1>4, FoundCodes
    <2> QED
      BY <1>3, <1>5, <2>1
  <1>8. scan' = After(facts, "clamav")
    BY DEF Parse, told
  <1> HIDE DEF facts
  <1>9. FromAv(facts.findings) = {}
    BY <1>7 DEF FromAv
  <1> QED
    BY <1>1, <1>2, <1>6, <1>7, <1>8, <1>9, StageNext

(* Whatever the antivirus says comes behind what is from the file. *)
LEMMA AvNext ==
  ASSUME CacheIInv, scan.step = "clamav", Clamav \/ ClamavFails,
         NEW codes \in SUBSET AvCodes, NEW facts \in SomeFacts,
         facts.findings = Found(scan.facts, "clamav", codes).findings,
         scan' = After(facts, IF scan.cached.made THEN "decide" ELSE "yara")
  PROVE  CacheIInv'
  <1>1. scan \in Running /\ scan.weights \in Tables /\ scan.facts \in SomeFacts
    BY ScanningFacts DEF Running
  <1>2. /\ \A f \in scan.facts.findings : f.stage = "clamav" <=> f.code \in AvCodes
        /\ scan.cached.made => FromFile(scan.facts.findings) = {}
    BY <1>1 DEF CacheIInv, ScanIsSplit, Scanning, ScanSteps
  <1>3. \A f \in facts.findings :
          f \in scan.facts.findings \/ (f.stage = "clamav" /\ f.code \in codes)
    BY <1>1, FoundCodes DEF AllCodes
  <1>4. \A f \in facts.findings : f.stage = "clamav" <=> f.code \in AvCodes
    BY <1>2, <1>3
  <1>5. scan.cached.made => FromFile(facts.findings) = {}
    BY <1>2, <1>3 DEF FromFile
  <1> QED
    BY <1>1, <1>4, <1>5, StageNext

LEMMA ClamavNext ==
  ASSUME CacheIInv, Clamav \/ ClamavFails
  PROVE  CacheIInv'
  <1>1. scan.step = "clamav"
    BY DEF Clamav, ClamavFails, Here
  <1>2. scan.weights \in Tables /\ scan.facts \in SomeFacts
    BY <1>1, ScanningFacts DEF Running
  <1>3. CASE Clamav
    <2>1. Signature \in SUBSET AvCodes
      BY CodesApart DEF Signature, AvCode
    <2>2. Found(scan.facts, "clamav", Signature) \in SomeFacts
      BY <1>2, <2>1, FoundFacts DEF AllCodes
    <2>3. scan' = After(Found(scan.facts, "clamav", Signature),
                        IF scan.cached.made THEN "decide" ELSE "yara")
      BY <1>3 DEF Clamav
    <2> QED
      BY <1>1, <1>3, <2>1, <2>2, <2>3, AvNext
  <1>4. CASE ClamavFails
    <2> DEFINE found == Found(scan.facts, "clamav", {"STAGE_FAILED"})
               facts == [found EXCEPT !.failed = {"clamav"}]
    <2>1. {"STAGE_FAILED"} \in SUBSET AvCodes
      BY CodesApart
    <2>2. found \in SomeFacts
      BY <1>2, <2>1, FoundFacts DEF AllCodes
    <2>3. scan' = After(facts, IF scan.cached.made THEN "decide" ELSE "yara")
      BY <1>4 DEF ClamavFails
    <2> HIDE DEF found
    <2>4. facts \in SomeFacts /\ facts.findings = found.findings
      BY <2>2 DEF SomeFacts
    <2> HIDE DEF facts
    <2>5. facts.findings = Found(scan.facts, "clamav", {"STAGE_FAILED"}).findings
      BY <2>4 DEF found
    <2> QED
      BY <1>1, <1>4, <2>1, <2>3, <2>4, <2>5, AvNext
  <1> QED
    BY <1>3, <1>4

LEMMA YaraNext ==
  ASSUME CacheIInv, Yara
  PROVE  CacheIInv'
  <1>1. /\ scan.step = "yara" /\ scan \in Running /\ scan.weights \in Tables
        /\ scan.facts \in SomeFacts
    BY ScanningFacts DEF Yara, Here, Running
  <1>2. /\ \A f \in scan.facts.findings : f.stage = "clamav" <=> f.code \in AvCodes
        /\ ~scan.cached.made
    BY <1>1 DEF CacheIInv, ScanIsSplit, Scanning, ScanSteps, Running, Halves
  <1>3. Matches \subseteq FileCodes
    BY CodesApart DEF Matches, CacheIInv, EngineTypes
  <1>4. Matches \in SUBSET AllCodes /\ \A c \in Matches : c \notin AvCodes
    BY <1>3, FileCodesAreCodes
  <1> DEFINE facts == Found(scan.facts, "yara", Matches)
  <1>5. facts \in SomeFacts
    BY <1>1, <1>4, FoundFacts
  <1>6. \A f \in facts.findings :
          f \in scan.facts.findings \/ (f.stage = "yara" /\ f.code \in Matches)
    BY <1>1, <1>4, FoundCodes
  <1>7. \A f \in facts.findings : f.stage = "clamav" <=> f.code \in AvCodes
    BY <1>2, <1>4, <1>6
  <1>8. scan' = After(facts, "decide")
    BY DEF Yara
  <1> HIDE DEF facts
  <1> QED
    BY <1>1, <1>2, <1>5, <1>7, <1>8, StageNext


(* What the verdict is of. *)
LEMMA TotalFacts ==
  ASSUME CacheIInv, scan.step = "decide"
  PROVE  /\ Total \in SomeFacts
         /\ scan.cached.made => FromFile(Total.findings) = scan.cached.facts.findings
         /\ \A f \in Total.findings : f.stage = "clamav" <=> f.code \in AvCodes
  <1>1. /\ scan \in Running /\ scan.facts \in SomeFacts /\ scan.cached \in Halves
        /\ scan.cached.facts \in SomeFacts /\ OfTheFile(scan.cached)
    BY ScanningFacts DEF Running, Halves
  <1>2. /\ \A f \in scan.facts.findings : f.stage = "clamav" <=> f.code \in AvCodes
        /\ scan.cached.made => FromFile(scan.facts.findings) = {}
    BY DEF CacheIInv, ScanIsSplit, Scanning, ScanSteps
  <1>3. CASE ~scan.cached.made
    BY <1>1, <1>2, <1>3 DEF Total
  <1>4. CASE scan.cached.made
    <2>1. Total = Merge(scan.cached.facts, scan.facts)
      BY <1>4 DEF Total
    <2>2. /\ Total \in SomeFacts
          /\ Total.findings = scan.cached.facts.findings
               \cup {f \in scan.facts.findings : f.code \notin Codes(scan.cached.facts.findings)}
      BY <1>1, <2>1, MergeFacts
    <2>3. \A f \in scan.cached.facts.findings :
            f.stage # "clamav" /\ f.code \notin AvCodes /\ f.code \notin RequestDerivedCodes
      BY <1>1, FileCodesAreCodes DEF OfTheFile
    <2>4. \A f \in Total.findings : f.stage = "clamav" <=> f.code \in AvCodes
      BY <1>2, <2>2, <2>3
    <2>5. FromFile(Total.findings) = scan.cached.facts.findings
      BY <1>2, <1>4, <2>2, <2>3 DEF FromFile
    <2> QED
      BY <2>2, <2>4, <2>5
  <1> QED
    BY <1>3, <1>4

LEMMA DecidedFacts ==
  ASSUME CacheIInv, Decide
  PROVE  /\ scan.step = "decide" /\ scan \in Running /\ Total \in SomeFacts
         /\ scan' \in Running /\ scan'.step = "store structural" /\ scan'.facts = Total
         /\ scan'.cached = scan.cached /\ scan'.weights = scan.weights
         /\ scan'.tenant = scan.tenant /\ scan'.label = scan.label /\ scan'.whole = scan.whole
         /\ scan'.verdict = "malicious" => scan'.artifact = 0
         /\ scan'.lifted /\ ~scan.cached.made => scan'.artifact # 0
         /\ request.number \in Numbers /\ request \in Asked /\ request.step = "forwarded"
  <1>1. /\ scan.step = "decide" /\ scan \in Running /\ Total \in SomeFacts /\ request \in Asked
        /\ request.step = "forwarded" /\ scan.cached \in Halves
    BY ScanningFacts, TotalFacts DEF Decide, Here
  <1>2. request.number \in Numbers /\ request.number \in Nat /\ request.number # 0
    BY <1>1, CountFacts DEF Asked
  <1> DEFINE verdict == VerdictOf(Total, OwnPolicy)
             lifted == verdict = "malicious" /\ Trusted(scan.tenant)
             final == IF lifted THEN "suspicious" ELSE verdict
             builds == ~scan.cached.made /\ final \notin UnscannableVerdicts \cup {"malicious"}
             artifact == IF builds THEN request.number
                         ELSE IF final = "malicious" THEN 0 ELSE scan.cached.artifact
  <1>3. scan' = [scan EXCEPT !.step = "store structural", !.verdict = final, !.lifted = lifted,
                             !.facts = Total, !.artifact = artifact]
    BY DEF Decide, Decided
  <1>4. verdict \in Verdicts
    BY VerdictKinds
  <1> HIDE DEF verdict
  <1>5. /\ final \in Verdicts /\ lifted \in BOOLEAN
        /\ lifted => final = "suspicious"
    BY <1>4 DEF Verdicts
  <1>6. scan.cached.artifact \in Nat
    BY <1>1 DEF Halves
  <1>7. /\ artifact \in Nat
        /\ final = "malicious" => artifact = 0
        /\ final = "suspicious" /\ ~scan.cached.made => artifact # 0
    BY <1>2, <1>6 DEF UnscannableVerdicts
  <1> HIDE DEF final, lifted, artifact
  <1>8. /\ scan' \in Running /\ scan'.step = "store structural" /\ scan'.facts = Total
        /\ scan'.cached = scan.cached /\ scan'.weights = scan.weights
        /\ scan'.tenant = scan.tenant /\ scan'.label = scan.label /\ scan'.whole = scan.whole
        /\ scan'.verdict = final /\ scan'.artifact = artifact /\ scan'.lifted = lifted
    BY <1>1, <1>3, <1>5, <1>7 DEF Running, ScanSteps
  <1> QED
    BY <1>1, <1>2, <1>5, <1>7, <1>8

LEMMA DecideNext ==
  ASSUME CacheIInv, Decide
  PROVE  CacheIInv'
  <1>1. /\ structural' = structural /\ antivirus' = antivirus
        /\ onDisk' = onDisk /\ switch' = switch /\ database' = database /\ loaded' = loaded
        /\ disabled' = disabled /\ known' = known /\ request' = request
        /\ shown' = shown /\ shownDb' = shownDb /\ reloader' = reloader /\ changes' = changes
        /\ answer' = answer /\ steady' = steady
        /\ copies' \subseteq copies \cup {request.number}
    BY DEF Decide, engine, published, levels, world
  <1>2. WorldTypes' /\ EngineTypes'
    BY <1>1 DEF CacheIInv, WorldTypes, EngineTypes
  <1>3. StoreTypes'
    BY <1>1, DecidedFacts DEF CacheIInv, StoreTypes
  <1>4. scan'.step \notin {"none", "parse", "clamav", "decide"} /\ scan'.step # "yara"
    BY DecidedFacts
  <1>5. RequestTypes'
    BY <1>1, DecidedFacts DEF RequestTypes, NoScan
  <1>6. HalvesAreApart'
    BY <1>1, DecidedFacts, ScanningFacts DEF CacheIInv, HalvesAreApart
  <1>7. ScanIsSplit'
    <2>1. ~scan.cached.made => scan.weights[2] = scan.tenant
      BY DecidedFacts DEF CacheIInv, ScanIsSplit, Scanning, ScanSteps
    <2>2. /\ scan.cached.made => FromFile(Total.findings) = scan.cached.facts.findings
          /\ \A f \in Total.findings : f.stage = "clamav" <=> f.code \in AvCodes
      BY DecidedFacts, TotalFacts
    <2> QED
      BY <1>4, <2>1, <2>2, DecidedFacts DEF ScanIsSplit
  <1>8. DecisionFits'
    BY DecidedFacts DEF DecisionFits
  <1> QED
    BY <1>1, <1>2, <1>3, <1>5, <1>6, <1>7, <1>8, AnswerStays DEF CacheIInv, AnswerFits

(* The half that is kept. *)
StoredHalf ==
  [facts |-> StructuralPart(scan.facts), artifact |-> scan.artifact, made |-> TRUE,
   whole |-> scan.whole /\ (scan.cached.made => scan.cached.whole),
   steady |-> steady /\ (scan.cached.made => scan.cached.steady /\ scan.label = Version),
   avFailed |-> FALSE]

LEMMA StoredHalfFacts ==
  ASSUME CacheIInv, scan.step = "store structural"
  PROVE  /\ scan \in Running /\ StoredHalf \in Halves /\ OfTheFile(StoredHalf)
         /\ StoredHalf.facts.findings = FromFile(scan.facts.findings)
  <1>1. scan \in Running /\ scan.facts \in SomeFacts /\ scan.cached \in Halves
    BY ScanningFacts DEF Running
  <1>2. /\ StructuralPart(scan.facts) \in SomeFacts /\ StructuralPart(scan.facts).failed = {}
        /\ StructuralPart(scan.facts).findings = FromFile(scan.facts.findings)
    BY <1>1, PartFacts
  <1>3. \A f \in scan.facts.findings :
          f.code \in AllCodes /\ (f.stage = "clamav" <=> f.code \in AvCodes)
    BY <1>1 DEF CacheIInv, ScanIsSplit, Scanning, ScanSteps, SomeFacts, SomeFindings
  <1>4. \A f \in FromFile(scan.facts.findings) : f.stage # "clamav" /\ f.code \in FileCodes
    BY <1>3 DEF FromFile, AllCodes
  <1>5. scan.artifact \in Nat /\ scan.whole \in BOOLEAN
    BY <1>1 DEF Running
  <1>6. StoredHalf \in Halves /\ StoredHalf.facts = StructuralPart(scan.facts)
    <2> DEFINE whole == scan.whole /\ (scan.cached.made => scan.cached.whole)
               kept == steady /\ (scan.cached.made => scan.cached.steady /\ scan.label = Version)
    <2>1. whole \in BOOLEAN
      OBVIOUS
    <2>2. kept \in BOOLEAN
      OBVIOUS
    <2>3. StoredHalf = [facts |-> StructuralPart(scan.facts), artifact |-> scan.artifact,
                        made |-> TRUE, whole |-> whole, steady |-> kept, avFailed |-> FALSE]
      BY DEF StoredHalf
    <2> HIDE DEF whole, kept
    <2> QED
      BY <1>2, <1>5, <2>1, <2>2, <2>3 DEF Halves
  <1> QED
    BY <1>1, <1>2, <1>4, <1>6 DEF OfTheFile

LEMMA StoreNext ==
  ASSUME CacheIInv, StoreStructural
  PROVE  CacheIInv'
  <1>1. /\ antivirus' = antivirus /\ copies' = copies
        /\ onDisk' = onDisk /\ switch' = switch /\ database' = database /\ loaded' = loaded
        /\ disabled' = disabled /\ known' = known /\ request' = request
        /\ shown' = shown /\ shownDb' = shownDb /\ reloader' = reloader /\ changes' = changes
        /\ answer' = answer /\ steady' = steady /\ scan.step = "store structural"
        /\ scan' = [scan EXCEPT !.step = "store av"]
        /\ structural' = [structural EXCEPT ![<<Version, WeightsKey(scan.tenant)>>] = StoredHalf]
    BY DEF StoreStructural, Here, engine, published, world, StoredHalf
  <1>2. WorldTypes' /\ EngineTypes'
    BY <1>1 DEF CacheIInv, WorldTypes, EngineTypes
  <1>3. scan \in Running /\ StoredHalf \in Halves /\ OfTheFile(StoredHalf)
    BY <1>1, StoredHalfFacts
  <1>4. StoreTypes'
    BY <1>1, <1>3 DEF CacheIInv, StoreTypes
  <1>5. /\ scan' \in Running /\ scan'.step = "store av" /\ scan'.facts = scan.facts
        /\ scan'.cached = scan.cached /\ scan'.weights = scan.weights /\ scan'.tenant = scan.tenant
        /\ scan'.verdict = scan.verdict /\ scan'.artifact = scan.artifact
        /\ scan'.lifted = scan.lifted
    BY <1>1, <1>3 DEF Running, ScanSteps
  <1>6. RequestTypes'
    BY <1>1, <1>5, ScanningFacts DEF RequestTypes, NoScan
  <1>7. HalvesAreApart'
    <2>1. \A v \in Versions : \A k \in Keys :
            structural'[<<v, k>>] = structural[<<v, k>>] \/ structural'[<<v, k>>] = StoredHalf
      BY <1>1 DEF CacheIInv, StoreTypes
    <2>2. \A v \in Versions : \A k \in Keys : OfTheFile(structural'[<<v, k>>])
      BY <1>3, <2>1 DEF CacheIInv, HalvesAreApart
    <2>3. OfTheFile(scan'.cached) /\ request.step # "antivirus"
      BY <1>1, <1>5, ScanningFacts
    <2>4. \A d \in Databases : antivirus'[d].avFailed <=> "clamav" \in antivirus'[d].facts.failed
      BY <1>1 DEF CacheIInv, HalvesAreApart
    <2>5. \A v \in Versions : \A k \in Keys : OfTheFile(structural[<<v, k>>])'
      BY <2>2 DEF OfTheFile
    <2> QED
      BY <1>1, <2>3, <2>4, <2>5 DEF HalvesAreApart
  <1>8. ScanIsSplit'
    BY <1>1, <1>5 DEF CacheIInv, ScanIsSplit, Scanning, ScanSteps
  <1>9. DecisionFits'
    BY <1>1, <1>5 DEF CacheIInv, DecisionFits
  <1> QED
    BY <1>1, <1>2, <1>4, <1>6, <1>7, <1>8, <1>9, AnswerStays DEF CacheIInv, AnswerFits

LEMMA InOrNot == ASSUME NEW S, NEW e PROVE (e \in S) \in BOOLEAN
  OBVIOUS

StoredAv ==
  [facts |-> AvPart(scan.facts), artifact |-> 0, made |-> TRUE,
   whole |-> scan.whole, steady |-> steady, avFailed |-> "clamav" \in scan.facts.failed]

LEMMA StoredAvFacts ==
  ASSUME CacheIInv, scan.step = "store av"
  PROVE  /\ scan \in Running /\ StoredAv \in Halves /\ known \in Databases
         /\ StoredAv.avFailed <=> "clamav" \in StoredAv.facts.failed
         /\ StoredAv.facts.failed = scan.facts.failed
         /\ StoredAv.facts.findings = FromAv(scan.facts.findings)
  <1>1. scan \in Running /\ scan.facts \in SomeFacts /\ known \in Databases
    BY ScanningFacts DEF Running, CacheIInv, EngineTypes
  <1>2. /\ AvPart(scan.facts) \in SomeFacts /\ AvPart(scan.facts).failed = scan.facts.failed
        /\ AvPart(scan.facts).findings = FromAv(scan.facts.findings)
    BY <1>1, PartFacts
  <1>3. scan.whole \in BOOLEAN /\ steady \in BOOLEAN
    BY <1>1 DEF Running, CacheIInv, EngineTypes
  <1> DEFINE failed == "clamav" \in scan.facts.failed
  <1>4. failed \in BOOLEAN
    BY InOrNot
  <1>5. StoredAv = [facts |-> AvPart(scan.facts), artifact |-> 0, made |-> TRUE,
                    whole |-> scan.whole, steady |-> steady, avFailed |-> failed]
    BY DEF StoredAv
  <1> HIDE DEF failed
  <1>6. StoredAv \in Halves /\ StoredAv.facts = AvPart(scan.facts) /\ StoredAv.avFailed = failed
    BY <1>2, <1>3, <1>4, <1>5 DEF Halves
  <1> QED
    BY <1>1, <1>2, <1>6 DEF failed

LEMMA StoreAvNext ==
  ASSUME CacheIInv, StoreAv
  PROVE  CacheIInv'
  <1>1. /\ structural' = structural /\ copies' = copies
        /\ onDisk' = onDisk /\ switch' = switch /\ database' = database /\ loaded' = loaded
        /\ disabled' = disabled /\ known' = known
        /\ shown' = shown /\ shownDb' = shownDb /\ reloader' = reloader /\ changes' = changes
        /\ steady' = steady /\ scan.step = "store av" /\ scan' = NoScan
        /\ request' = [request EXCEPT !.step = "none"]
        /\ antivirus' = [antivirus EXCEPT ![known] = StoredAv]
    BY DEF StoreAv, Here, engine, published, world, StoredAv
  <1>2. answer' = [from |-> IF scan.cached.made THEN "antivirus" ELSE "scan",
                   tenant |-> scan.tenant, verdict |-> scan.verdict,
                   artifact |-> scan.artifact, lifted |-> scan.lifted]
    BY DEF StoreAv
  <1>3. WorldTypes' /\ EngineTypes'
    BY <1>1 DEF CacheIInv, WorldTypes, EngineTypes
  <1>4. /\ scan \in Running /\ StoredAv \in Halves /\ known \in Databases
        /\ StoredAv.avFailed <=> "clamav" \in StoredAv.facts.failed
    BY <1>1, StoredAvFacts
  <1>5. StoreTypes'
    BY <1>1, <1>4 DEF CacheIInv, StoreTypes
  <1>6. request' \in Asked /\ request'.step = "none"
    BY <1>1, ScanningFacts DEF Asked
  <1>7. RequestTypes'
    BY <1>1, <1>6 DEF RequestTypes
  <1>8. HalvesAreApart'
    <2>1. \A v \in Versions : \A k \in Keys : OfTheFile(structural[<<v, k>>])'
      BY <1>1 DEF CacheIInv, HalvesAreApart
    <2>2. \A d \in Databases : antivirus'[d] = antivirus[d] \/ antivirus'[d] = StoredAv
      BY <1>1, <1>4 DEF CacheIInv, StoreTypes
    <2>3. \A d \in Databases : antivirus'[d].avFailed <=> "clamav" \in antivirus'[d].facts.failed
      BY <1>4, <2>2 DEF CacheIInv, HalvesAreApart
    <2>4. request'.step # "antivirus" /\ scan'.step = "none"
      BY <1>1, <1>6 DEF NoScan
    <2> QED
      BY <2>1, <2>3, <2>4 DEF HalvesAreApart
  <1>9. ScanIsSplit' /\ DecisionFits'
    BY <1>1 DEF NoScan, ScanIsSplit, Scanning, ScanSteps, DecisionFits
  <1>10. /\ scan.verdict = "malicious" => scan.artifact = 0
         /\ scan.lifted /\ ~scan.cached.made => scan.artifact # 0
    BY <1>1 DEF CacheIInv, DecisionFits
  <1>11. /\ answer'.from # "cache" /\ answer'.verdict = scan.verdict
         /\ answer'.artifact = scan.artifact /\ answer'.lifted = scan.lifted
         /\ answer'.from = "scan" => ~scan.cached.made
    BY <1>2
  <1>12. AnswerFits'
    BY <1>10, <1>11 DEF AnswerFits, CachedFailureIsNotClean, BlockedHasNoCopy, TrustedGetsACopy
  <1> QED
    BY <1>3, <1>5, <1>7, <1>8, <1>9, <1>12 DEF CacheIInv, AnswerFits

(* After a crash the job is taken again, with the half it came with or, if the
   scan was a full one, without. *)
LEMMA RestartNext ==
  ASSUME CacheIInv, Restart
  PROVE  CacheIInv'
  <1>1. /\ structural' = structural /\ antivirus' = antivirus /\ copies' = copies
        /\ onDisk' = onDisk /\ switch' = switch /\ database' = database
        /\ request' = request /\ changes' = changes /\ answer' = answer
        /\ loaded' = onDisk /\ known' = database /\ disabled' = FALSE
        /\ shown' = [config |-> onDisk, off |-> FALSE] /\ shownDb' = database
        /\ reloader' = "starting"
    BY DEF Restart, world, stores, levels
  <1>2. steady' \in BOOLEAN
    BY DEF Restart
  <1>3. WorldTypes' /\ StoreTypes'
    BY <1>1 DEF CacheIInv, WorldTypes, StoreTypes
  <1>4. database \in Databases /\ onDisk \in Configurations
    BY DatabaseFacts DEF CacheIInv, WorldTypes
  <1>5. shown' \in Labels
    BY <1>1, <1>4, LabelFacts
  <1>6. EngineTypes'
    BY <1>1, <1>2, <1>4, <1>5 DEF EngineTypes
  <1>7. CASE scan = NoScan
    <2>1. scan' = scan
      BY <1>7 DEF Restart
    <2> QED
      BY <1>1, <1>3, <1>6, <2>1, StaysApart, AnswerStays DEF CacheIInv, AnswerFits
  <1>8. CASE scan # NoScan
    <2>1. scan' = [step |-> "start", tenant |-> scan.tenant, claim |-> scan.claim,
                   cached |-> scan.cached, label |-> scan.label]
      BY <1>8 DEF Restart
    <2>2. scan.step # "none"
      BY <1>8 DEF CacheIInv, RequestTypes, Waiting, Running, ScanSteps
    <2>3. /\ scan' \in Waiting /\ scan'.step = "start" /\ scan'.cached = scan.cached
          /\ OfTheFile(scan.cached)
      BY <2>1, <2>2, ScanningFacts DEF Waiting
    <2>4. RequestTypes'
      BY <1>1, <2>2, <2>3, ScanningFacts DEF RequestTypes
    <2>5. HalvesAreApart'
      BY <1>1, <2>3 DEF CacheIInv, HalvesAreApart
    <2>6. ScanIsSplit' /\ DecisionFits'
      BY <2>3 DEF ScanIsSplit, Scanning, ScanSteps, DecisionFits
    <2> QED
      BY <1>1, <1>3, <1>6, <2>4, <2>5, <2>6, AnswerStays DEF CacheIInv, AnswerFits
  <1> QED
    BY <1>7, <1>8

LEMMA CacheStutters ==
  ASSUME CacheIInv, UNCHANGED cacheVars
  PROVE  CacheIInv'
  <1>1. /\ structural' = structural /\ antivirus' = antivirus /\ copies' = copies
        /\ onDisk' = onDisk /\ switch' = switch /\ database' = database /\ loaded' = loaded
        /\ disabled' = disabled /\ known' = known /\ request' = request
        /\ shown' = shown /\ shownDb' = shownDb /\ reloader' = reloader /\ changes' = changes
        /\ answer' = answer /\ steady' = steady /\ scan' = scan
    BY DEF cacheVars, world, engine, published, stores, levels
  <1>2. WorldTypes' /\ EngineTypes' /\ StoreTypes'
    BY <1>1 DEF CacheIInv, WorldTypes, EngineTypes, StoreTypes
  <1> QED
    BY <1>1, <1>2, StaysApart, AnswerStays DEF CacheIInv, AnswerFits

LEMMA CacheKeeps == CacheIInv /\ [CacheNext]_cacheVars => CacheIInv'
  <1> SUFFICES ASSUME CacheIInv, [CacheNext]_cacheVars PROVE CacheIInv'
    OBVIOUS
  <1>1. CASE EditConfig \/ FlipSwitch \/ UpdateDatabase \/ Trust \/ ArtifactExpires
    BY <1>1, WorldNext
  <1>2. CASE LoopStep
    BY <1>2, LoopNext
  <1>3. CASE Ask
    BY <1>3, AskNext
  <1>4. CASE Lookup
    BY <1>4, LookNext, PassNext, AnswerNext DEF Lookup
  <1>5. CASE ScanStep
    BY <1>5, StartNext, ParseNext, ClamavNext, YaraNext, DecideNext, StoreNext, StoreAvNext
       DEF ScanStep
  <1>6. CASE Restart
    BY <1>6, RestartNext
  <1>7. CASE UNCHANGED cacheVars
    BY <1>7, CacheStutters
  <1> QED
    BY <1>1, <1>2, <1>3, <1>4, <1>5, <1>6, <1>7 DEF CacheNext

(* The inductive invariant: types, the halves apart, the decision that is about
   to be stored, and the answer (cache.py, main.py _store_cache, ingest.py
   _lookup_cache). *)
THEOREM CacheInvariant == CacheSpec => []CacheIInv
  BY CacheStarts, CacheKeeps, PTL DEF CacheSpec

LEMMA CacheIsTyped == CacheIInv => CacheInv
  <1> SUFFICES ASSUME CacheIInv PROVE CacheInv
    OBVIOUS
  <1>1. /\ shown \in Versions \cup {Unknown} /\ known \in Databases
        /\ shownDb \in Databases \cup {0}
        /\ reloader \in {"starting", "reload", "control", "publish", "dead"}
    BY DEF CacheIInv, EngineTypes, Labels
  <1>2. \A v \in Versions, k \in Keys : \A f \in structural[<<v, k>>].facts.findings :
          f.code \in DOMAIN DefaultWeights \ RequestDerivedCodes /\ f.stage # "clamav"
    BY DEF CacheIInv, HalvesAreApart, OfTheFile, FileCodes
  <1>3. \A d \in Databases : antivirus[d].facts.failed \subseteq {"clamav"}
    <2> SUFFICES ASSUME NEW d \in Databases PROVE antivirus[d].facts.failed \subseteq {"clamav"}
      OBVIOUS
    <2>1. antivirus[d] \in Halves
      BY DEF CacheIInv, StoreTypes
    <2>2. antivirus[d].facts \in SomeFacts
      BY <2>1 DEF Halves
    <2> QED
      BY <2>2 DEF SomeFacts
  <1>4. copies \subseteq 1 .. Len(AskedBy)
    BY DEF CacheIInv, StoreTypes, Numbers
  <1>5. CacheTypeOK
    BY <1>1, <1>2, <1>3, <1>4 DEF CacheTypeOK
  <1> QED
    BY <1>5 DEF CacheInv, CacheIInv

(* An answer out of two halves, or of a scan: an antivirus that failed is not
   taken for one that found nothing, a blocked file has no copy, and a trusted
   one is given as a copy (ingest.py, _lookup_cache; main.py, _store_cache),
   with any number of crashes, reloads, edits and expired copies between the
   scans of the halves and the request. *)
THEOREM CacheIsKept == CacheSpec => []CacheInv
  BY CacheInvariant, CacheIsTyped, PTL

-----------------------------------------------------------------------------
(* What an answer out of two halves is worth *)

(* The score is that of codes and their weights, whoever found them. *)
LEMMA SamePairsSameScore ==
  ASSUME NEW F, NEW G, Pairs(F) = Pairs(G)
  PROVE  ScoreOf(F) = ScoreOf(G)
  <1>1. \A f \in F : \E g \in G : g.code = f.code /\ g.score = f.score
    <2> SUFFICES ASSUME NEW f \in F PROVE \E g \in G : g.code = f.code /\ g.score = f.score
      OBVIOUS
    <2>1. <<f.code, f.score>> \in Pairs(G)
      BY DEF Pairs
    <2> QED
      BY <2>1 DEF Pairs
  <1>2. \A g \in G : \E f \in F : f.code = g.code /\ f.score = g.score
    <2> SUFFICES ASSUME NEW g \in G PROVE \E f \in F : f.code = g.code /\ f.score = g.score
      OBVIOUS
    <2>1. <<g.code, g.score>> \in Pairs(F)
      BY DEF Pairs
    <2> QED
      BY <2>1 DEF Pairs
  <1>3. Codes(F) = Codes(G)
    BY <1>1, <1>2 DEF Codes
  <1>4. (\E f \in F : f.score >= 100) <=> (\E g \in G : g.score >= 100)
    BY <1>1, <1>2
  <1>5. \A family : Strongest(F, family) = Strongest(G, family)
    <2> SUFFICES ASSUME NEW family PROVE Strongest(F, family) = Strongest(G, family)
      OBVIOUS
    <2>1. {f.score : f \in {g \in F : FamilyOf(g.code) = family}}
            = {f.score : f \in {g \in G : FamilyOf(g.code) = family}}
      BY <1>1, <1>2
    <2> QED
      BY <2>1 DEF Strongest
  <1> DEFINE families == {FamilyOf(c) : c \in Codes(F)}
             ofF == [family \in families |-> Strongest(F, family)]
             ofG == [family \in families |-> Strongest(G, family)]
  <1>6. ofF = ofG
    BY <1>5
  <1>7. ScoreOf(F) = IF \E f \in F : f.score >= 100 THEN 100 ELSE Min({100, SumFunction(ofF)})
    BY DEF ScoreOf
  <1>8. ScoreOf(G) = IF \E g \in G : g.score >= 100 THEN 100 ELSE Min({100, SumFunction(ofG)})
    BY <1>3 DEF ScoreOf
  <1> HIDE DEF ofF, ofG
  <1> QED
    BY <1>4, <1>6, <1>7, <1>8

LEMMA PairsOfJoin ==
  ASSUME NEW A, NEW B
  PROVE  Pairs(A \cup B) = Pairs(A) \cup Pairs(B)
  BY DEF Pairs

LEMMA PairsOfNothing == Pairs({}) = {} /\ \A w : Weighed({}, w) = {}
  BY DEF Pairs, Weighed

(* What is told under some weights. *)
Told(teller, codes, w) == {Finding(teller, c, RuleFor(WeightsFor[w], c)) : c \in codes}

LEMMA PairsOfFound ==
  ASSUME NEW teller, NEW codes, NEW w
  PROVE  Pairs(Told(teller, codes, w)) = Weighed(codes, w)
  <1>1. \A c : /\ Finding(teller, c, RuleFor(WeightsFor[w], c)).code = c
               /\ Finding(teller, c, RuleFor(WeightsFor[w], c)).score = RuleFor(WeightsFor[w], c)
    BY DEF Finding
  <1>2. ASSUME NEW p \in Pairs(Told(teller, codes, w)) PROVE p \in Weighed(codes, w)
    BY <1>1 DEF Pairs, Weighed, Told
  <1>3. ASSUME NEW p \in Weighed(codes, w) PROVE p \in Pairs(Told(teller, codes, w))
    <2>1. PICK c \in codes : p = <<c, RuleFor(WeightsFor[w], c)>>
      BY DEF Weighed
    <2>2. Finding(teller, c, RuleFor(WeightsFor[w], c)) \in Told(teller, codes, w)
      BY DEF Told
    <2> QED
      BY <1>1, <2>1, <2>2 DEF Pairs
  <1> QED
    BY <1>2, <1>3

LEMMA WeighedOfJoin ==
  ASSUME NEW A, NEW B, NEW w
  PROVE  Weighed(A \cup B, w) = Weighed(A, w) \cup Weighed(B, w)
  BY DEF Weighed

(* Tenants with the same key have the same weights. *)
LEMMA KeysShareWeights ==
  ASSUME WeightsAreApart, NEW t \in Tenants, NEW u \in Tenants, NEW n \in Configurations,
         WeightsKey(t) = WeightsKey(u)
  PROVE  WeightsFor[<<n, t>>] = WeightsFor[<<n, u>>]
  <1>1. /\ WeightsFor[<<n, t>>] = Over(OverridesOf[t], CommonWeights(n))
        /\ WeightsFor[<<n, u>>] = Over(OverridesOf[u], CommonWeights(n))
    BY VerdictCacheAssumption DEF WeightsFor, Tables, WithOverrides
  <1>2. t = u \/ (DOMAIN OverridesOf[t] = {} /\ DOMAIN OverridesOf[u] = {})
    BY DEF WeightsKey, WeightsAreApart
  <1>3. ASSUME DOMAIN OverridesOf[t] = {}, DOMAIN OverridesOf[u] = {}
        PROVE  Over(OverridesOf[t], CommonWeights(n)) = Over(OverridesOf[u], CommonWeights(n))
    BY <1>3 DEF Over
  <1> QED
    BY <1>1, <1>2, <1>3

LEMMA KeysShareWeighed ==
  ASSUME WeightsAreApart, NEW t \in Tenants, NEW u \in Tenants, NEW n \in Configurations,
         WeightsKey(t) = WeightsKey(u), NEW codes
  PROVE  Weighed(codes, <<n, t>>) = Weighed(codes, <<n, u>>)
  BY KeysShareWeights DEF Weighed

(* A signature weighs the same in every table. *)
LEMMA SignaturesWeighTheSame ==
  ASSUME WeightsAreApart, NEW v \in Tables, NEW w \in Tables, NEW d
  PROVE  Weighed(SignedIn(d), v) = Weighed(SignedIn(d), w)
  <1>1. RuleFor(WeightsFor[v], AvCode) = RuleFor(WeightsFor[w], AvCode)
    BY DEF WeightsAreApart
  <1>2. \A c \in SignedIn(d) : c = AvCode
    BY DEF SignedIn
  <1> QED
    BY <1>1, <1>2 DEF Weighed

(* Two sound halves make the verdict of a full scan. *)
LEMMA HalvesMakeTheWhole ==
  ASSUME NEW t \in Tenants, NEW v \in Versions, NEW d \in Databases, NEW policy,
         NEW a \in SomeFacts, NEW b \in SomeFacts, a.failed = {}, b.failed = {},
         Pairs(a.findings) = Weighed(FoundIn(v), <<v.config, t>>),
         Pairs(b.findings) = Weighed(SignedIn(d), <<v.config, t>>),
         \A f \in a.findings : f.code \in FileCodes
  PROVE  VerdictOf(Merge(a, b), policy)
           = VerdictOf([NoFacts EXCEPT !.findings = AllFindings(t, v, d)], policy)
  <1> DEFINE whole == Merge(a, b)
             full == [NoFacts EXCEPT !.findings = AllFindings(t, v, d)]
             w == <<v.config, t>>
  <1>1. /\ whole.failed = {} /\ whole.encrypted = FALSE /\ whole.supported = TRUE
        /\ whole.findings = a.findings \cup {f \in b.findings : f.code \notin Codes(a.findings)}
    <2>1. /\ whole.failed = a.failed \cup b.failed
          /\ whole.encrypted = FALSE /\ whole.supported = TRUE
          /\ whole.findings = a.findings \cup {f \in b.findings : f.code \notin Codes(a.findings)}
      BY MergeFacts
    <2> HIDE DEF whole
    <2> QED
      BY <2>1
  <1>2. /\ full.failed = {} /\ full.encrypted = FALSE /\ full.supported = TRUE
        /\ full.findings = AllFindings(t, v, d)
    BY NoHalfFacts DEF NoFacts
  <1>3. \A f \in b.findings : f.code = AvCode
    <2> SUFFICES ASSUME NEW f \in b.findings PROVE f.code = AvCode
      OBVIOUS
    <2>1. <<f.code, f.score>> \in Weighed(SignedIn(d), w)
      BY DEF Pairs
    <2>2. f.code \in SignedIn(d)
      BY <2>1 DEF Weighed
    <2> QED
      BY <2>2 DEF SignedIn
  <1>4. AvCode \notin Codes(a.findings)
    BY CodesApart DEF Codes
  <1>5. whole.findings = a.findings \cup b.findings
    BY <1>1, <1>3, <1>4
  <1>6. Pairs(whole.findings) = Weighed(FoundIn(v), w) \cup Weighed(SignedIn(d), w)
    BY <1>5, PairsOfJoin
  <1>7. AllFindings(t, v, d) = Told("any", FoundIn(v) \cup SignedIn(d), w)
    BY DEF AllFindings, FoundIn, SignedIn, AvCode, Told
  <1>8. Pairs(full.findings) = Weighed(FoundIn(v), w) \cup Weighed(SignedIn(d), w)
    <2> DEFINE all == FoundIn(v) \cup SignedIn(d)
    <2> HIDE DEF full, w, all
    <2>1. Pairs(Told("any", all, w)) = Weighed(all, w)
      BY PairsOfFound
    <2>2. AllFindings(t, v, d) = Told("any", all, w)
      BY <1>7 DEF all
    <2>3. Weighed(FoundIn(v) \cup SignedIn(d), w)
            = Weighed(FoundIn(v), w) \cup Weighed(SignedIn(d), w)
      BY WeighedOfJoin
    <2> QED
      BY <1>2, <2>1, <2>2, <2>3 DEF all
  <1> HIDE DEF whole, full, w
  <1>9. ScoreOf(whole.findings) = ScoreOf(full.findings)
    BY <1>6, <1>8, SamePairsSameScore
  <1>10. CoverageIncomplete(whole) <=> CoverageIncomplete(full)
    BY <1>1, <1>2 DEF CoverageIncomplete
  <1>11. VerdictAndScore(whole, policy) = VerdictAndScore(full, policy)
    BY <1>1, <1>2, <1>9, <1>10 DEF VerdictAndScore
  <1>12. VerdictOf(whole, policy) = VerdictOf(full, policy)
    BY <1>11 DEF VerdictOf
  <1> QED
    BY <1>12 DEF whole, full

LEMMA SoundStarts == WeightsAreApart /\ CacheInit => SoundIInv
  <1> SUFFICES ASSUME WeightsAreApart, CacheInit PROVE SoundIInv
    OBVIOUS
  <1>1. /\ structural = [entry \in Versions \X Keys |-> NoHalf]
        /\ antivirus = [d \in Databases |-> NoHalf]
        /\ request.step = "none" /\ scan.step = "none" /\ answer = NoAnswer
    BY DEF CacheInit, NoScan
  <1>2. /\ \A v \in Versions : \A k \in Keys : structural[<<v, k>>].whole = FALSE
        /\ \A d \in Databases : antivirus[d].whole = FALSE
    BY <1>1 DEF NoHalf
  <1>3. SoundHalves
    BY <1>1, <1>2 DEF SoundHalves, Sound, AvSound
  <1>4. SoundScan
    BY <1>1 DEF SoundScan, Scanning, ScanSteps
  <1>5. CachedAnswerIsFullVerdict
    BY <1>1 DEF CachedAnswerIsFullVerdict, FromTwoHalves, NoAnswer
  <1> QED
    BY <1>3, <1>4, <1>5, CacheStarts DEF SoundIInv

LEMMA SoundStays ==
  ASSUME SoundIInv, structural' = structural, antivirus' = antivirus, request' = request,
         scan' = scan
  PROVE  SoundHalves'
  BY DEF SoundIInv, SoundHalves

LEMMA FullStays ==
  ASSUME SoundIInv, answer' = answer
  PROVE  CachedAnswerIsFullVerdict'
  BY DEF SoundIInv, CachedAnswerIsFullVerdict, FromTwoHalves

(* What may change while a scan runs ends its being steady. *)
LEMMA SteadyMeansSame ==
  ASSUME EditConfig \/ FlipSwitch \/ UpdateDatabase \/ Trust \/ ArtifactExpires \/ LoopStep,
         steady'
  PROVE  /\ steady /\ known' = known /\ loaded' = loaded /\ disabled' = disabled
         /\ database' = database
  <1>1. CASE EditConfig \/ FlipSwitch \/ UpdateDatabase \/ Trust \/ ArtifactExpires
    BY <1>1 DEF EditConfig, FlipSwitch, UpdateDatabase, Trust, ArtifactExpires, engine, world
  <1>2. CASE LoopStep
    BY <1>2 DEF LoopStep, Reload, Control, Publish, PublishFails, VersionsExpire, engine, world
  <1> QED
    BY <1>1, <1>2

LEMMA QuietSound ==
  ASSUME SoundIInv, CacheIInv', request' = request, scan' = scan, answer' = answer,
         structural' = structural, antivirus' = antivirus,
         steady' => /\ steady /\ known' = known /\ loaded' = loaded /\ disabled' = disabled
                    /\ database' = database
  PROVE  SoundIInv'
  <1>1. SoundScan'
    <2> SUFFICES ASSUME Scanning', steady'
                 PROVE  SoundScan'
      BY DEF SoundScan
    <2>1. /\ steady /\ known' = known /\ loaded' = loaded /\ disabled' = disabled
          /\ database' = database
      OBVIOUS
    <2>2. SeenAt(scan.step)' = SeenAt(scan.step)
      BY <2>1 DEF SeenAt, Version
    <2> QED
      BY <2>1, <2>2 DEF SoundIInv, SoundScan, Scanning
  <1> QED
    BY <1>1, SoundStays, FullStays DEF SoundIInv, WeightsAreApart

LEMMA WorldSound ==
  ASSUME SoundIInv, CacheIInv',
         EditConfig \/ FlipSwitch \/ UpdateDatabase \/ Trust \/ ArtifactExpires \/ LoopStep
  PROVE  SoundIInv'
  <1>1. CASE EditConfig \/ FlipSwitch \/ UpdateDatabase \/ Trust \/ ArtifactExpires
    <2>1. /\ structural' = structural /\ antivirus' = antivirus /\ request' = request
          /\ scan' = scan /\ answer' = answer
      BY <1>1 DEF EditConfig, FlipSwitch, UpdateDatabase, Trust, ArtifactExpires, stores, levels
    <2> QED
      BY <2>1, SteadyMeansSame, QuietSound
  <1>2. CASE LoopStep
    <2>1. /\ structural' = structural /\ antivirus' = antivirus /\ request' = request
          /\ scan' = scan /\ answer' = answer
      BY <1>2 DEF LoopStep, Reload, Control, Publish, PublishFails, VersionsExpire, stores, levels
    <2> QED
      BY <2>1, SteadyMeansSame, QuietSound
  <1> QED
    BY <1>1, <1>2

(* Nobody scans before and after the gateway has looked. *)
LEMMA GatewaySound ==
  ASSUME SoundIInv, CacheIInv', structural' = structural, antivirus' = antivirus,
         CachedAnswerIsFullVerdict', scan'.step \in {"none", "start"},
         request'.step = "antivirus" =>
           /\ request'.label \in Versions
           /\ Sound(request'.half, request'.label, WeightsKey(request'.tenant)),
         scan'.step # "none" /\ scan'.cached.made =>
           scan'.label \in Versions /\ Sound(scan'.cached, scan'.label, WeightsKey(scan'.tenant))
  PROVE  SoundIInv'
  <1>1. SoundScan'
    BY DEF SoundScan, Scanning, ScanSteps
  <1>2. SoundHalves'
    BY DEF SoundIInv, SoundHalves
  <1> QED
    BY <1>1, <1>2 DEF SoundIInv, WeightsAreApart

LEMMA AskSound ==
  ASSUME SoundIInv, CacheIInv', Ask
  PROVE  SoundIInv'
  <1>1. /\ structural' = structural /\ antivirus' = antivirus /\ scan'.step = "none"
        /\ answer' = NoAnswer /\ request'.step = "structural"
    BY DEF Ask, stores, levels, NoScan
  <1>2. CachedAnswerIsFullVerdict'
    BY <1>1 DEF CachedAnswerIsFullVerdict, FromTwoHalves, NoAnswer
  <1> QED
    BY <1>1, <1>2, GatewaySound

LEMMA LookSound ==
  ASSUME SoundIInv, CacheIInv', LookStructural
  PROVE  SoundIInv'
  <1>1. /\ structural' = structural /\ antivirus' = antivirus /\ answer' = answer
        /\ scan.step = "none" /\ request \in Asked /\ CacheIInv
    BY LookupKeepsIdle DEF SoundIInv, LookStructural, stores, levels
  <1>2. \/ /\ request' = [request EXCEPT !.step = "antivirus", !.half = LookedUp, !.label = shown]
           /\ scan' = scan /\ LookedUp.made
        \/ request' = Forwarded /\ scan' = Job(NoHalf)
    BY DEF LookStructural, LookedUp
  <1>3. CASE /\ request' = [request EXCEPT !.step = "antivirus", !.half = LookedUp, !.label = shown]
             /\ scan' = scan /\ LookedUp.made
    <2>1. request'.half = LookedUp /\ request'.label = shown /\ request'.tenant = request.tenant
      BY <1>1, <1>3 DEF Asked
    <2>2. shown \in Versions /\ LookedUp = structural[<<shown, WeightsKey(request.tenant)>>]
      BY <1>1, <1>3, LookedUpFacts
    <2>3. WeightsKey(request.tenant) \in Keys
      BY <1>1, KeyFacts DEF Asked
    <2>4. Sound(LookedUp, shown, WeightsKey(request.tenant))
      BY <2>2, <2>3 DEF SoundIInv, SoundHalves
    <2> QED
      BY <1>1, <1>3, <2>1, <2>2, <2>4, FullStays, GatewaySound
  <1>4. CASE request' = Forwarded /\ scan' = Job(NoHalf)
    <2>1. request'.step = "forwarded"
      BY <1>1, <1>4 DEF Forwarded, Asked
    <2>2. scan'.step = "start" /\ ~scan'.cached.made
      BY <1>4 DEF Job, NoHalf
    <2> QED
      BY <1>1, <2>1, <2>2, FullStays, GatewaySound
  <1> QED
    BY <1>2, <1>3, <1>4

LEMMA PassSound ==
  ASSUME SoundIInv, CacheIInv', AvHalfMissing \/ LiftByFullPass
  PROVE  SoundIInv'
  <1>1. /\ structural' = structural /\ antivirus' = antivirus /\ answer' = answer
        /\ request \in Asked /\ request.step = "antivirus" /\ request' = Forwarded
        /\ scan' = Job(request.half) \/ scan' = Job(NoHalf)
    BY LookupKeepsIdle DEF SoundIInv, AvHalfMissing, LiftByFullPass, stores, levels
  <1>2. request'.step = "forwarded"
    BY <1>1 DEF Forwarded, Asked
  <1>3. /\ request.label \in Versions
        /\ Sound(request.half, request.label, WeightsKey(request.tenant))
    BY <1>1 DEF SoundIInv, SoundHalves
  <1>4. /\ scan'.step = "start" /\ scan'.label = request.label /\ scan'.tenant = request.tenant
        /\ scan'.cached = request.half \/ ~scan'.cached.made
    BY <1>1 DEF Job, NoHalf
  <1> QED
    BY <1>1, <1>2, <1>3, <1>4, FullStays, GatewaySound

LEMMA AnswerSound ==
  ASSUME SoundIInv, CacheIInv', AnswerFromCache \/ LiftFromCache
  PROVE  SoundIInv'
  <1>1. /\ structural' = structural /\ antivirus' = antivirus /\ CacheIInv
        /\ request \in Asked /\ request.step = "antivirus" /\ scan.step = "none"
        /\ scan' = scan /\ request' = [request EXCEPT !.step = "none"] /\ CachedAv.made
    BY LookupKeepsIdle DEF SoundIInv, AnswerFromCache, LiftFromCache, AnswerWith, stores, levels
  <1>2. request'.step = "none"
    BY <1>1 DEF Asked
  <1>3. CASE LiftFromCache
    <2>1. answer'.lifted
      BY <1>3 DEF LiftFromCache, AnswerWith, Answer
    <2>2. CachedAnswerIsFullVerdict'
      BY <2>1 DEF CachedAnswerIsFullVerdict, FromTwoHalves
    <2> QED
      BY <1>1, <1>2, <2>2, GatewaySound
  <1>4. CASE AnswerFromCache
    <2>1. /\ answer'.verdict = AssembledVerdict /\ answer'.avFailed = CachedAv.avFailed
          /\ answer'.whole = (request.half.whole /\ CachedAv.whole)
          /\ answer'.steady = (request.half.steady /\ CachedAv.steady)
          /\ answer'.full = FullVerdict[<<request.tenant, request.label, shownDb>>]
      BY <1>4 DEF AnswerFromCache, AnswerWith, Answer
    <2>2. CachedAnswerIsFullVerdict'
      <3> SUFFICES ASSUME ~answer'.avFailed, answer'.whole, answer'.steady
                   PROVE  answer'.verdict = answer'.full
        BY DEF CachedAnswerIsFullVerdict, FromTwoHalves
      <3>1. shownDb \in Databases /\ CachedAv = antivirus[shownDb]
        BY <1>1, NoHalfFacts DEF CachedAv, CacheIInv, EngineTypes
      <3>2. /\ request.half.whole /\ request.half.steady /\ CachedAv.whole /\ CachedAv.steady
            /\ ~CachedAv.avFailed
        BY <2>1
      <3>3. /\ request.label \in Versions /\ request.tenant \in Tenants
            /\ Sound(request.half, request.label, WeightsKey(request.tenant))
            /\ AvSound(CachedAv, shownDb)
        BY <1>1, <3>1 DEF SoundIInv, SoundHalves, Asked
      <3>4. request.label.config \in Configurations
        BY <3>3 DEF Versions
      <3>5. <<request.label.config, request.tenant>> \in Tables
        BY <3>3, <3>4 DEF Tables
      <3>6. Pairs(request.half.facts.findings) =
              Weighed(FoundIn(request.label), <<request.label.config, request.tenant>>)
        BY <3>2, <3>3 DEF Sound
      <3>7. /\ CachedAv.facts.failed = {}
            /\ Pairs(CachedAv.facts.findings) =
                 Weighed(SignedIn(shownDb), <<request.label.config, request.tenant>>)
        BY <3>2, <3>3, <3>5 DEF AvSound
      <3>8. request.half \in Halves /\ OfTheFile(request.half) /\ CachedAv \in Halves
        BY <1>1, <3>1 DEF CacheIInv, HalvesAreApart, StoreTypes, Asked
      <3>9. /\ request.half.facts \in SomeFacts /\ CachedAv.facts \in SomeFacts
            /\ request.half.facts.failed = {}
            /\ \A f \in request.half.facts.findings : f.code \in FileCodes
        BY <3>8 DEF Halves, OfTheFile
      <3> DEFINE full == [NoFacts EXCEPT !.findings =
                            AllFindings(request.tenant, request.label, shownDb)]
      <3>10. VerdictOf(Merge(request.half.facts, CachedAv.facts), PolicyOf[request.tenant])
               = VerdictOf(full, PolicyOf[request.tenant])
        BY <3>1, <3>3, <3>6, <3>7, <3>9, HalvesMakeTheWhole
      <3>11. FullVerdict[<<request.tenant, request.label, shownDb>>]
               = VerdictOf(full, PolicyOf[request.tenant])
        BY <3>1, <3>3 DEF FullVerdict
      <3>12. AssembledVerdict =
               VerdictOf(Merge(request.half.facts, CachedAv.facts), PolicyOf[request.tenant])
        BY DEF AssembledVerdict, Assembled
      <3> HIDE DEF full
      <3> QED
        BY <2>1, <3>10, <3>11, <3>12
    <2> QED
      BY <1>1, <1>2, <2>2, GatewaySound
  <1> QED
    BY <1>3, <1>4

LEMMA PartsOfJoin ==
  ASSUME NEW A, NEW B
  PROVE  /\ FromFile(A \cup B) = FromFile(A) \cup FromFile(B)
         /\ FromAv(A \cup B) = FromAv(A) \cup FromAv(B)
  BY DEF FromFile, FromAv

LEMMA PartsOfTold ==
  ASSUME NEW teller, NEW codes, NEW w, codes \cap RequestDerivedCodes = {}
  PROVE  /\ teller # "clamav" => /\ FromFile(Told(teller, codes, w)) = Told(teller, codes, w)
                                /\ FromAv(Told(teller, codes, w)) = {}
         /\ teller = "clamav" => /\ FromFile(Told(teller, codes, w)) = {}
                                /\ FromAv(Told(teller, codes, w)) = Told(teller, codes, w)
  <1>1. \A f \in Told(teller, codes, w) : f.stage = teller /\ f.code \in codes
    BY DEF Told, Finding
  <1> QED
    BY <1>1 DEF FromFile, FromAv

LEMMA FoundTold ==
  ASSUME NEW facts \in SomeFacts, NEW codes \in SUBSET AllCodes, scan.weights \in Tables,
         NEW teller \in {"filetype", "structure", "clamav", "yara"}
  PROVE  Found(facts, teller, codes).findings =
           facts.findings \cup Told(teller, codes \ Codes(facts.findings), scan.weights)
  BY FoundFacts DEF Told

LEMMA WeighedFacts ==
  ASSUME CacheIInv, scan \in Running
  PROVE  /\ ~scan.cached.made => scan.weights = <<scan.weights[1], scan.tenant>>
         /\ scan.weights \in Tables /\ scan.tenant \in Tenants
         /\ scan.weights[1] \in Configurations
  <1>1. scan.weights \in Tables /\ scan.tenant \in Tenants
    BY DEF Running
  <1>2. scan.weights = <<scan.weights[1], scan.weights[2]>> /\ scan.weights[1] \in Configurations
    BY <1>1 DEF Tables
  <1>3. ~scan.cached.made => scan.weights[2] = scan.tenant
    BY DEF CacheIInv, ScanIsSplit, Scanning, Running
  <1> QED
    BY <1>1, <1>2, <1>3

(* The scan goes on, with the half it came with. *)
LEMMA ScanSound ==
  ASSUME SoundIInv, CacheIInv', structural' = structural, antivirus' = antivirus,
         answer' = answer, request' = request, request.step = "forwarded", scan.step # "none",
         scan'.cached = scan.cached \/ ~scan'.cached.made,
         scan'.label = scan.label, scan'.tenant = scan.tenant, SoundScan'
  PROVE  SoundIInv'
  <1>1. scan.cached.made =>
          scan.label \in Versions /\ Sound(scan.cached, scan.label, WeightsKey(scan.tenant))
    BY DEF SoundIInv, SoundHalves
  <1>2. SoundHalves'
    BY <1>1 DEF SoundIInv, SoundHalves
  <1> QED
    BY <1>2, FullStays DEF SoundIInv, WeightsAreApart

LEMMA StartSound ==
  ASSUME SoundIInv, CacheIInv', StartScan
  PROVE  SoundIInv'
  <1>1. /\ structural' = structural /\ antivirus' = antivirus /\ answer' = answer
        /\ request' = request /\ scan.step = "start" /\ request.step = "forwarded"
        /\ known' = known /\ database' = database /\ loaded' = loaded
    BY ScanningFacts DEF SoundIInv, StartScan, Here, RestOfWorker, stores, levels, engine, world
  <1>2. /\ scan'.cached = scan.cached \/ ~scan'.cached.made
        /\ scan'.label = scan.label /\ scan'.tenant = scan.tenant /\ scan'.facts = NoFacts
        /\ scan'.weights[1] = loaded
        /\ scan'.step \in {"parse", "clamav"}
        /\ scan'.step = "clamav" => AvOnlyScan
    <2> DEFINE first == IF AvOnlyScan THEN "clamav" ELSE "parse"
               cached == IF AvOnlyScan THEN scan.cached ELSE NoHalf
               weights == <<loaded, IF AvOnlyScan THEN "common" ELSE scan.tenant>>
    <2>1. scan' = [step |-> first, tenant |-> scan.tenant, claim |-> scan.claim,
                   cached |-> cached, weights |-> weights, facts |-> NoFacts, whole |-> TRUE,
                   artifact |-> 0, verdict |-> "error", lifted |-> FALSE, label |-> scan.label]
      BY DEF StartScan
    <2>2. first \in {"parse", "clamav"} /\ (first = "clamav" => AvOnlyScan)
      OBVIOUS
    <2>3. cached = scan.cached \/ cached.made = FALSE
      BY NoHalfFacts
    <2>4. weights[1] = loaded
      OBVIOUS
    <2> HIDE DEF first, cached, weights
    <2> QED
      BY <2>1, <2>2, <2>3, <2>4
  <1>3. scan'.step = "clamav" => scan'.cached.made
    <2>1. AvOnlyScan => scan.cached.made
      BY DEF AvOnlyScan
    <2>2. AvOnlyScan => scan'.cached = scan.cached
      BY DEF StartScan
    <2> QED
      BY <1>2, <2>1, <2>2
  <1>4. steady' => known = database
    BY DEF StartScan
  <1>5. scan'.facts.findings = {}
    BY <1>2, NoHalfFacts
  <1>6. FromFile(scan'.facts.findings) = {}
    BY <1>5 DEF FromFile
  <1>7. SoundScan'
    <2> SUFFICES ASSUME Scanning', steady'
                 PROVE  SoundScan'
      BY DEF SoundScan
    <2>1. known' = database' /\ scan'.weights[1] = loaded'
      BY <1>1, <1>2, <1>4
    <2>2. ~scan'.cached.made => scan'.step = "parse"
      BY <1>2, <1>3
    <2>3. scan'.step = "parse" => SeenAt(scan.step)' = {}
      BY DEF SeenAt
    <2>4. ~scan'.cached.made =>
            Pairs(FromFile(scan'.facts.findings)) = Weighed(SeenAt(scan.step)', scan'.weights)
      BY <1>6, <2>2, <2>3, PairsOfNothing
    <2>5. scan'.step \in {"parse", "clamav"}
      BY <1>2
    <2> QED
      BY <2>1, <2>4, <2>5 DEF SoundScan
  <1> QED
    BY <1>1, <1>2, <1>7, ScanSound

(* What the stages have to leave. *)
LEMMA StageSound ==
  ASSUME SoundIInv, CacheIInv', scan \in Running, Parse \/ Clamav \/ ClamavFails \/ Yara,
         NEW facts \in SomeFacts, NEW next \in {"clamav", "yara", "decide"},
         scan' = After(facts, next),
         steady /\ scan.whole /\ ~scan.cached.made =>
           Pairs(FromFile(facts.findings)) = Weighed(SeenAt(next), scan.weights),
         steady /\ scan.whole /\ next # "clamav" /\ facts.failed = {} =>
           Pairs(FromAv(facts.findings)) = Weighed(SignedIn(known), scan.weights)
  PROVE  SoundIInv'
  <1>1. /\ structural' = structural /\ antivirus' = antivirus /\ answer' = answer
        /\ request' = request /\ steady' = steady
        /\ known' = known /\ database' = database /\ loaded' = loaded /\ disabled' = disabled
    BY DEF Parse, Clamav, ClamavFails, Yara, RestOfWorker, stores, levels, engine, world
  <1>2. scan.step # "none" /\ Scanning /\ request.step = "forwarded"
    BY ScanningFacts DEF SoundIInv, Running, ScanSteps, Scanning
  <1>3. /\ scan' \in Running /\ scan'.facts = facts
        /\ scan'.tenant = scan.tenant /\ scan'.cached = scan.cached
        /\ scan'.weights = scan.weights /\ scan'.label = scan.label
        /\ scan'.whole => scan.whole /\ scan'.step = next
    BY AfterFacts
  <1>4. SoundScan'
    <2> SUFFICES ASSUME Scanning', steady'
                 PROVE  SoundScan'
      BY DEF SoundScan
    <2>1. known = database /\ scan.weights[1] = loaded
      BY <1>1, <1>2 DEF SoundIInv, SoundScan
    <2>2. \A step : SeenAt(step)' = SeenAt(step)
      BY <1>1 DEF SeenAt, Version
    <2>3. scan'.whole /\ ~scan'.cached.made =>
            Pairs(FromFile(scan'.facts.findings)) = Weighed(SeenAt(scan'.step), scan'.weights)
      BY <1>1, <1>3
    <2>4. scan'.whole /\ scan'.step \notin {"parse", "clamav"} /\ scan'.facts.failed = {} =>
            Pairs(FromAv(scan'.facts.findings)) = Weighed(SignedIn(known), scan'.weights)
      BY <1>1, <1>3
    <2>5. SeenAt(scan.step)' = SeenAt(scan'.step)
      BY <1>1 DEF SeenAt, Version
    <2> QED
      BY <1>1, <1>3, <2>1, <2>3, <2>4, <2>5 DEF SoundScan
  <1> QED
    BY <1>1, <1>2, <1>3, <1>4, ScanSound

LEMMA ParseSound ==
  ASSUME SoundIInv, CacheIInv', Parse
  PROVE  SoundIInv'
  <1>1. /\ CacheIInv /\ scan.step = "parse" /\ scan \in Running /\ scan.weights \in Tables
        /\ scan.facts \in SomeFacts /\ scan.claim \in Claims
    BY ScanningFacts DEF SoundIInv, Parse, Here, Running
  <1>2. scan.facts.findings = {} /\ scan.facts.failed = {}
    BY <1>1 DEF CacheIInv, ScanIsSplit, Scanning, ScanSteps
  <1> DEFINE told == Found(scan.facts, "filetype", scan.claim)
             facts == Found(told, "structure", Structure)
             w == scan.weights
  <1>3. /\ scan.claim \in SUBSET AllCodes /\ Structure \in SUBSET AllCodes
        /\ \A c \in Structure : c \notin RequestDerivedCodes
        /\ scan.claim \subseteq RequestDerivedCodes
    BY <1>1, CodesApart, FileCodesAreCodes DEF AllCodes, Claims
  <1>4. told \in SomeFacts
    BY <1>1, <1>3, FoundFacts
  <1>5. \A f \in told.findings : f.code \in RequestDerivedCodes
    BY <1>1, <1>2, <1>3, FoundCodes
  <1> HIDE DEF told
  <1>6. facts \in SomeFacts
    BY <1>1, <1>3, <1>4, FoundFacts
  <1>7. facts.findings = told.findings \cup Told("structure", Structure \ Codes(told.findings), w)
    BY <1>1, <1>3, <1>4, FoundTold
  <1>8. Structure \ Codes(told.findings) = Structure
    BY <1>3, <1>5 DEF Codes
  <1>9. FromFile(told.findings) = {}
    BY <1>5 DEF FromFile
  <1>10. scan' = After(facts, "clamav")
    BY DEF Parse, told
  <1> HIDE DEF facts, w
  <1>11. FromFile(facts.findings) = Told("structure", Structure, w)
    <2>1. facts.findings = told.findings \cup Told("structure", Structure, w)
      BY <1>7, <1>8
    <2>2. FromFile(facts.findings)
            = FromFile(told.findings) \cup FromFile(Told("structure", Structure, w))
      BY <2>1, PartsOfJoin
    <2>3. FromFile(Told("structure", Structure, w)) = Told("structure", Structure, w)
      BY <1>3, PartsOfTold
    <2> QED
      BY <1>9, <2>2, <2>3
  <1>12. Pairs(FromFile(facts.findings)) = Weighed(SeenAt("clamav"), scan.weights)
    BY <1>11, PairsOfFound DEF SeenAt, w
  <1> QED
    BY <1>1, <1>6, <1>10, <1>12, StageSound

(* What the antivirus adds is all of its half, and leaves the other alone. *)
LEMMA AvAdds ==
  ASSUME CacheIInv, scan.step = "clamav", NEW codes \in SUBSET AvCodes
  PROVE  LET found == Found(scan.facts, "clamav", codes).findings IN
         /\ FromFile(found) = FromFile(scan.facts.findings)
         /\ Pairs(FromAv(found)) = Weighed(codes, scan.weights)
  <1>1. /\ scan \in Running /\ scan.weights \in Tables /\ scan.facts \in SomeFacts
    BY ScanningFacts DEF Running
  <1>2. /\ \A f \in scan.facts.findings : f.stage = "clamav" <=> f.code \in AvCodes
        /\ FromAv(scan.facts.findings) = {}
    BY <1>1 DEF CacheIInv, ScanIsSplit, Scanning, ScanSteps
  <1>3. \A f \in scan.facts.findings : f.code \notin AvCodes
    BY <1>2 DEF FromAv
  <1>4. codes \ Codes(scan.facts.findings) = codes
    BY <1>3 DEF Codes
  <1> DEFINE found == Found(scan.facts, "clamav", codes).findings
             new == Told("clamav", codes, scan.weights)
  <1>5. found = scan.facts.findings \cup new
    <2>1. codes \in SUBSET AllCodes
      BY DEF AllCodes
    <2>2. Found(scan.facts, "clamav", codes).findings =
            scan.facts.findings
              \cup Told("clamav", codes \ Codes(scan.facts.findings), scan.weights)
      BY <1>1, <2>1, FoundTold
    <2> QED
      BY <1>4, <2>2
  <1>6. codes \cap RequestDerivedCodes = {}
    BY CodesApart
  <1>7. FromFile(new) = {} /\ FromAv(new) = new /\ Pairs(new) = Weighed(codes, scan.weights)
    BY <1>6, PartsOfTold, PairsOfFound
  <1> HIDE DEF found, new
  <1>8. FromFile(found) = FromFile(scan.facts.findings) /\ FromAv(found) = new
    <2>1. /\ FromFile(scan.facts.findings \cup new)
               = FromFile(scan.facts.findings) \cup FromFile(new)
          /\ FromAv(scan.facts.findings \cup new)
               = FromAv(scan.facts.findings) \cup FromAv(new)
      BY PartsOfJoin
    <2> QED
      BY <1>2, <1>5, <1>7, <2>1
  <1> QED
    BY <1>7, <1>8 DEF found

LEMMA ClamavSound ==
  ASSUME SoundIInv, CacheIInv', Clamav \/ ClamavFails
  PROVE  SoundIInv'
  <1>1. /\ CacheIInv /\ scan.step = "clamav" /\ scan \in Running /\ scan.weights \in Tables
        /\ scan.facts \in SomeFacts
    BY ScanningFacts DEF SoundIInv, Clamav, ClamavFails, Here, Running
  <1> DEFINE next == IF scan.cached.made THEN "decide" ELSE "yara"
  <1>2. /\ next \in {"yara", "decide"}
        /\ ~scan.cached.made => SeenAt(next) = SeenAt(scan.step)
    BY <1>1 DEF SeenAt
  <1>3. /\ steady => known = database
        /\ steady /\ scan.whole /\ ~scan.cached.made =>
             Pairs(FromFile(scan.facts.findings)) = Weighed(SeenAt(scan.step), scan.weights)
    BY <1>1 DEF SoundIInv, SoundScan, Scanning, ScanSteps
  <1> HIDE DEF next
  <1>4. CASE Clamav
    <2> DEFINE facts == Found(scan.facts, "clamav", Signature)
    <2>1. Signature \in SUBSET AvCodes /\ Signature = SignedIn(database)
      BY CodesApart DEF Signature, SignedIn, AvCode
    <2>2. facts \in SomeFacts
      BY <1>1, <2>1, FoundFacts DEF AllCodes
    <2>3. scan' = After(facts, next)
      BY <1>4 DEF Clamav, next
    <2>4. /\ FromFile(facts.findings) = FromFile(scan.facts.findings)
          /\ Pairs(FromAv(facts.findings)) = Weighed(Signature, scan.weights)
      BY <1>1, <2>1, AvAdds
    <2> HIDE DEF facts
    <2>5. steady => Pairs(FromAv(facts.findings)) = Weighed(SignedIn(known), scan.weights)
      BY <1>3, <2>1, <2>4
    <2>6. steady /\ scan.whole /\ ~scan.cached.made =>
            Pairs(FromFile(facts.findings)) = Weighed(SeenAt(next), scan.weights)
      BY <1>2, <1>3, <2>4
    <2> QED
      BY <1>1, <1>2, <1>4, <2>2, <2>3, <2>5, <2>6, StageSound
  <1>5. CASE ClamavFails
    <2> DEFINE found == Found(scan.facts, "clamav", {"STAGE_FAILED"})
               facts == [found EXCEPT !.failed = {"clamav"}]
    <2>1. {"STAGE_FAILED"} \in SUBSET AvCodes
      BY CodesApart
    <2>2. found \in SomeFacts
      BY <1>1, <2>1, FoundFacts DEF AllCodes
    <2>3. scan' = After(facts, next)
      BY <1>5 DEF ClamavFails, next
    <2>4. FromFile(found.findings) = FromFile(scan.facts.findings)
      BY <1>1, <2>1, AvAdds
    <2> HIDE DEF found
    <2>5. facts \in SomeFacts /\ facts.findings = found.findings /\ facts.failed # {}
      BY <2>2 DEF SomeFacts
    <2> HIDE DEF facts
    <2>6. steady /\ scan.whole /\ ~scan.cached.made =>
            Pairs(FromFile(facts.findings)) = Weighed(SeenAt(next), scan.weights)
      BY <1>2, <1>3, <2>4, <2>5
    <2> QED
      BY <1>1, <1>2, <1>5, <2>3, <2>5, <2>6, StageSound
  <1> QED
    BY <1>4, <1>5

LEMMA YaraSound ==
  ASSUME SoundIInv, CacheIInv', Yara
  PROVE  SoundIInv'
  <1>1. /\ CacheIInv /\ scan.step = "yara" /\ scan \in Running /\ scan.weights \in Tables
        /\ scan.facts \in SomeFacts
    BY ScanningFacts DEF SoundIInv, Yara, Here, Running
  <1>2. /\ \A f \in scan.facts.findings : f.stage = "clamav" <=> f.code \in AvCodes
        /\ ~scan.cached.made
    BY <1>1 DEF CacheIInv, ScanIsSplit, Scanning, ScanSteps, Running, Halves
  <1>3. /\ steady /\ scan.whole =>
             Pairs(FromFile(scan.facts.findings)) = Weighed(Structure, scan.weights)
        /\ steady /\ scan.whole /\ scan.facts.failed = {} =>
             Pairs(FromAv(scan.facts.findings)) = Weighed(SignedIn(known), scan.weights)
    BY <1>1, <1>2 DEF SoundIInv, SoundScan, Scanning, ScanSteps, SeenAt
  <1>4. Matches \subseteq FileCodes
    BY <1>1, CodesApart DEF Matches, CacheIInv, EngineTypes
  <1>5. /\ Matches \in SUBSET AllCodes
        /\ \A c \in Matches : c \notin AvCodes /\ c \notin RequestDerivedCodes
    BY <1>4, FileCodesAreCodes
  <1> DEFINE facts == Found(scan.facts, "yara", Matches)
             fresh == Matches \ Codes(scan.facts.findings)
             new == Told("yara", fresh, scan.weights)
  <1>6. facts \in SomeFacts /\ facts.failed = scan.facts.failed
        /\ facts.findings = scan.facts.findings \cup new
    BY <1>1, <1>5, FoundFacts, FoundTold
  <1>7. fresh \cap RequestDerivedCodes = {}
    BY <1>5
  <1>8. FromFile(new) = new /\ FromAv(new) = {} /\ Pairs(new) = Weighed(fresh, scan.weights)
    BY <1>7, PartsOfTold, PairsOfFound
  <1>9. scan' = After(facts, "decide")
    BY DEF Yara
  <1> HIDE DEF facts, new
  <1>10. /\ FromFile(facts.findings) = FromFile(scan.facts.findings) \cup new
         /\ FromAv(facts.findings) = FromAv(scan.facts.findings)
    <2>1. /\ FromFile(scan.facts.findings \cup new)
               = FromFile(scan.facts.findings) \cup FromFile(new)
          /\ FromAv(scan.facts.findings \cup new)
               = FromAv(scan.facts.findings) \cup FromAv(new)
      BY PartsOfJoin
    <2> QED
      BY <1>6, <1>8, <2>1
  <1>11. ASSUME steady, scan.whole
         PROVE  Pairs(FromFile(facts.findings)) = Weighed(SeenAt("decide"), scan.weights)
    <2>1. \A c \in Matches \ fresh : c \in Structure
      <3> SUFFICES ASSUME NEW c \in Matches \ fresh PROVE c \in Structure
        OBVIOUS
      <3>1. PICK f \in scan.facts.findings : f.code = c
        BY DEF Codes
      <3>2. f \in FromFile(scan.facts.findings)
        BY <1>2, <1>5, <3>1 DEF FromFile
      <3>3. <<f.code, f.score>> \in Weighed(Structure, scan.weights)
        BY <1>3, <1>11, <3>2 DEF Pairs
      <3> QED
        BY <3>1, <3>3 DEF Weighed
    <2>2. Structure \cup Matches = Structure \cup fresh
      BY <2>1
    <2>3. SeenAt("decide") = Structure \cup Matches
      BY DEF SeenAt, FoundIn, Version, Matches
    <2> HIDE DEF fresh
    <2>4. Weighed(Structure \cup fresh, scan.weights)
            = Weighed(Structure, scan.weights) \cup Weighed(fresh, scan.weights)
      BY WeighedOfJoin
    <2>5. Pairs(FromFile(facts.findings)) = Pairs(FromFile(scan.facts.findings)) \cup Pairs(new)
      BY <1>10, PairsOfJoin
    <2> QED
      BY <1>3, <1>8, <1>11, <2>2, <2>3, <2>4, <2>5
  <1>12. steady /\ scan.whole /\ facts.failed = {} =>
           Pairs(FromAv(facts.findings)) = Weighed(SignedIn(known), scan.weights)
    BY <1>3, <1>6, <1>10
  <1> QED
    BY <1>1, <1>6, <1>9, <1>11, <1>12, StageSound

(* Nothing of the antivirus is in the half that was there. *)
LEMMA TotalOfAv ==
  ASSUME CacheIInv, scan.step = "decide"
  PROVE  /\ FromAv(Total.findings) = FromAv(scan.facts.findings)
         /\ Total.failed = scan.facts.failed
  <1>1. /\ scan \in Running /\ scan.facts \in SomeFacts /\ scan.cached \in Halves
        /\ scan.cached.facts \in SomeFacts /\ OfTheFile(scan.cached)
    BY ScanningFacts DEF Running, Halves
  <1>2. CASE ~scan.cached.made
    BY <1>2 DEF Total
  <1>3. CASE scan.cached.made
    <2>1. Total = Merge(scan.cached.facts, scan.facts)
      BY <1>3 DEF Total
    <2>2. /\ Total.failed = scan.cached.facts.failed \cup scan.facts.failed
          /\ Total.findings = scan.cached.facts.findings
               \cup {f \in scan.facts.findings : f.code \notin Codes(scan.cached.facts.findings)}
      BY <1>1, <2>1, MergeFacts
    <2>3. /\ scan.cached.facts.failed = {}
          /\ \A f \in scan.cached.facts.findings : f.stage # "clamav" /\ f.code \notin AvCodes
      BY <1>1, FileCodesAreCodes DEF OfTheFile
    <2>4. \A f \in scan.facts.findings : f.stage = "clamav" => f.code \in AvCodes
      BY DEF CacheIInv, ScanIsSplit, Scanning, ScanSteps
    <2>5. \A f \in scan.facts.findings :
            f.stage = "clamav" => f.code \notin Codes(scan.cached.facts.findings)
      BY <2>3, <2>4 DEF Codes
    <2>6. FromAv(Total.findings) = FromAv(scan.facts.findings)
      BY <2>2, <2>3, <2>5 DEF FromAv
    <2> QED
      BY <2>2, <2>3, <2>6
  <1> QED
    BY <1>2, <1>3

LEMMA DecideSound ==
  ASSUME SoundIInv, CacheIInv', Decide
  PROVE  SoundIInv'
  <1>1. /\ structural' = structural /\ antivirus' = antivirus /\ answer' = answer
        /\ request' = request /\ steady' = steady /\ scan.step = "decide" /\ CacheIInv
        /\ known' = known /\ database' = database /\ loaded' = loaded /\ disabled' = disabled
    BY DEF SoundIInv, Decide, Here, levels, engine, world
  <1>2. /\ scan'.step = "store structural" /\ scan'.facts = Total
        /\ scan'.cached = scan.cached /\ scan'.weights = scan.weights
        /\ scan'.tenant = scan.tenant /\ scan'.label = scan.label /\ scan'.whole = scan.whole
        /\ request.step = "forwarded"
    BY <1>1, DecidedFacts
  <1>3. /\ FromAv(Total.findings) = FromAv(scan.facts.findings)
        /\ Total.failed = scan.facts.failed
        /\ ~scan.cached.made => Total = scan.facts
    BY <1>1, TotalOfAv DEF Total
  <1>4. SoundScan'
    <2> SUFFICES ASSUME Scanning', steady'
                 PROVE  SoundScan'
      BY DEF SoundScan
    <2>1. /\ known = database /\ scan.weights[1] = loaded
          /\ scan.whole /\ ~scan.cached.made =>
               Pairs(FromFile(scan.facts.findings)) = Weighed(SeenAt("decide"), scan.weights)
          /\ scan.whole /\ scan.facts.failed = {} =>
               Pairs(FromAv(scan.facts.findings)) = Weighed(SignedIn(known), scan.weights)
      BY <1>1 DEF SoundIInv, SoundScan, Scanning, ScanSteps
    <2>2. SeenAt(scan.step)' = SeenAt("decide")
      BY <1>1, <1>2 DEF SeenAt, Version
    <2>3. scan'.whole /\ ~scan'.cached.made =>
            Pairs(FromFile(scan'.facts.findings)) = Weighed(SeenAt(scan.step)', scan'.weights)
      BY <1>2, <1>3, <2>1, <2>2
    <2>4. scan'.whole /\ scan'.facts.failed = {} =>
            Pairs(FromAv(scan'.facts.findings)) = Weighed(SignedIn(known'), scan'.weights)
      BY <1>1, <1>2, <1>3, <2>1
    <2> QED
      BY <1>1, <1>2, <2>1, <2>3, <2>4 DEF SoundScan
  <1> QED
    BY <1>1, <1>2, <1>4, ScanSound

(* The half that is kept is sound under the versions of its key. *)
LEMMA StoredIsSound ==
  ASSUME SoundIInv, scan.step = "store structural"
  PROVE  Sound(StoredHalf, Version, WeightsKey(scan.tenant))
  <1> SUFFICES ASSUME StoredHalf.whole, StoredHalf.steady, NEW t \in Tenants,
                      WeightsKey(t) = WeightsKey(scan.tenant)
               PROVE  Pairs(StoredHalf.facts.findings) =
                        Weighed(FoundIn(Version), <<Version.config, t>>)
    BY DEF Sound
  <1>1. /\ CacheIInv /\ scan \in Running
        /\ StoredHalf.facts.findings = FromFile(scan.facts.findings)
    BY StoredHalfFacts DEF SoundIInv
  <1>2. /\ scan.whole /\ steady
        /\ scan.cached.made => scan.cached.whole /\ scan.cached.steady /\ scan.label = Version
    BY DEF StoredHalf
  <1>3. CASE scan.cached.made
    <2>1. FromFile(scan.facts.findings) = scan.cached.facts.findings
      BY <1>1, <1>3 DEF CacheIInv, ScanIsSplit, Scanning, ScanSteps
    <2>2. Sound(scan.cached, scan.label, WeightsKey(scan.tenant))
      BY <1>3 DEF SoundIInv, SoundHalves
    <2>3. Sound(scan.cached, Version, WeightsKey(scan.tenant))
      BY <1>2, <1>3, <2>2
    <2> QED
      BY <1>1, <1>2, <1>3, <2>1, <2>3 DEF Sound
  <1>4. CASE ~scan.cached.made
    <2>1. /\ scan.weights[1] = loaded
          /\ Pairs(FromFile(scan.facts.findings)) = Weighed(FoundIn(Version), scan.weights)
      BY <1>2, <1>4 DEF SoundIInv, SoundScan, Scanning, ScanSteps, SeenAt
    <2>2. /\ scan.weights = <<loaded, scan.tenant>> /\ scan.tenant \in Tenants
          /\ loaded \in Configurations
      BY <1>1, <1>4, <2>1, WeighedFacts
    <2>3. Weighed(FoundIn(Version), <<loaded, scan.tenant>>)
            = Weighed(FoundIn(Version), <<loaded, t>>)
      <3>1. WeightsAreApart /\ WeightsKey(scan.tenant) = WeightsKey(t)
        BY DEF SoundIInv
      <3> QED
        BY <2>2, <3>1, KeysShareWeighed, ZenonT(40)
    <2>4. Version.config = loaded
      BY DEF Version
    <2> QED
      BY <1>1, <2>1, <2>2, <2>3, <2>4
  <1> QED
    BY <1>3, <1>4

LEMMA StoreSound ==
  ASSUME SoundIInv, CacheIInv', StoreStructural
  PROVE  SoundIInv'
  <1>1. /\ antivirus' = antivirus /\ answer' = answer /\ CacheIInv
        /\ request' = request /\ steady' = steady /\ scan.step = "store structural"
        /\ known' = known /\ database' = database /\ loaded' = loaded /\ disabled' = disabled
        /\ scan' = [scan EXCEPT !.step = "store av"]
        /\ structural' = [structural EXCEPT ![<<Version, WeightsKey(scan.tenant)>>] = StoredHalf]
    BY DEF SoundIInv, StoreStructural, Here, engine, world, StoredHalf
  <1>2. scan \in Running /\ request.step = "forwarded" /\ scan.tenant \in Tenants
    BY <1>1, ScanningFacts
  <1>3. /\ scan'.step = "store av" /\ scan'.facts = scan.facts /\ scan'.whole = scan.whole
        /\ scan'.cached = scan.cached /\ scan'.weights = scan.weights
        /\ scan'.tenant = scan.tenant /\ scan'.label = scan.label
    BY <1>1, <1>2 DEF Running
  <1>4. SoundScan'
    <2> SUFFICES ASSUME Scanning', steady'
                 PROVE  SoundScan'
      BY DEF SoundScan
    <2>1. SeenAt(scan.step)' = SeenAt(scan.step)
      BY <1>1, <1>3 DEF SeenAt, Version
    <2>2. Scanning /\ steady
      BY <1>1 DEF Scanning, ScanSteps
    <2> QED
      BY <1>1, <1>3, <2>1, <2>2 DEF SoundIInv, SoundScan
  <1>5. SoundHalves'
    <2>1. structural \in [Versions \X Keys -> Halves]
      BY <1>1 DEF CacheIInv, StoreTypes
    <2>2. \A v \in Versions : \A k \in Keys :
            \/ structural'[<<v, k>>] = structural[<<v, k>>]
            \/ /\ structural'[<<v, k>>] = StoredHalf
               /\ v = Version /\ k = WeightsKey(scan.tenant)
      BY <1>1, <2>1
    <2>3. Sound(StoredHalf, Version, WeightsKey(scan.tenant))
      BY <1>1, StoredIsSound
    <2>4. \A v \in Versions : \A k \in Keys : Sound(structural'[<<v, k>>], v, k)
      BY <2>2, <2>3 DEF SoundIInv, SoundHalves
    <2>5. \A v \in Versions : \A k \in Keys : Sound(structural[<<v, k>>], v, k)'
      BY <2>4 DEF Sound
    <2>6. scan.cached.made =>
            scan.label \in Versions /\ Sound(scan.cached, scan.label, WeightsKey(scan.tenant))
      BY <1>1 DEF SoundIInv, SoundHalves
    <2>7. \A d \in Databases : AvSound(antivirus[d], d)'
      BY <1>1 DEF SoundIInv, SoundHalves
    <2> QED
      BY <1>1, <1>2, <1>3, <2>5, <2>6, <2>7 DEF SoundHalves
  <1> QED
    BY <1>1, <1>4, <1>5, FullStays DEF SoundIInv, WeightsAreApart

LEMMA StoredAvIsSound ==
  ASSUME SoundIInv, scan.step = "store av"
  PROVE  AvSound(StoredAv, known)
  <1> SUFFICES ASSUME StoredAv.whole, StoredAv.steady, ~StoredAv.avFailed
               PROVE  /\ StoredAv.facts.failed = {}
                      /\ \A w \in Tables :
                           Pairs(StoredAv.facts.findings) = Weighed(SignedIn(known), w)
    BY DEF AvSound
  <1>1. /\ CacheIInv /\ scan \in Running /\ scan.facts \in SomeFacts /\ scan.weights \in Tables
        /\ StoredAv.facts.failed = scan.facts.failed
        /\ StoredAv.facts.findings = FromAv(scan.facts.findings)
    BY StoredAvFacts DEF SoundIInv, Running
  <1>2. scan.whole /\ steady /\ "clamav" \notin scan.facts.failed
    BY DEF StoredAv
  <1>3. scan.facts.failed = {}
    BY <1>1, <1>2 DEF SomeFacts
  <1>4. Pairs(FromAv(scan.facts.findings)) = Weighed(SignedIn(known), scan.weights)
    BY <1>2, <1>3 DEF SoundIInv, SoundScan, Scanning, ScanSteps
  <1>5. \A w \in Tables : Weighed(SignedIn(known), scan.weights) = Weighed(SignedIn(known), w)
    BY <1>1, SignaturesWeighTheSame DEF SoundIInv
  <1> QED
    BY <1>1, <1>3, <1>4, <1>5

LEMMA StoreAvSound ==
  ASSUME SoundIInv, CacheIInv', StoreAv
  PROVE  SoundIInv'
  <1>1. /\ structural' = structural /\ CacheIInv /\ scan.step = "store av" /\ scan' = NoScan
        /\ request' = [request EXCEPT !.step = "none"]
        /\ antivirus' = [antivirus EXCEPT ![known] = StoredAv]
    BY DEF SoundIInv, StoreAv, Here, StoredAv
  <1>2. answer' = [from |-> IF scan.cached.made THEN "antivirus" ELSE "scan",
                   tenant |-> scan.tenant, verdict |-> scan.verdict,
                   artifact |-> scan.artifact, lifted |-> scan.lifted]
    BY DEF StoreAv
  <1>3. CachedAnswerIsFullVerdict'
    <2>1. answer'.from # "cache"
      BY <1>2
    <2> QED
      BY <2>1 DEF CachedAnswerIsFullVerdict, FromTwoHalves
  <1>4. scan'.step = "none" /\ request'.step = "none"
    BY <1>1, ScanningFacts DEF NoScan, Asked
  <1>5. SoundScan'
    BY <1>4 DEF SoundScan, Scanning, ScanSteps
  <1>6. SoundHalves'
    <2>1. \A v \in Versions : \A k \in Keys : Sound(structural[<<v, k>>], v, k)'
      BY <1>1 DEF SoundIInv, SoundHalves
    <2>2. antivirus \in [Databases -> Halves]
      BY <1>1 DEF CacheIInv, StoreTypes
    <2>3. \A d \in Databases :
            antivirus'[d] = antivirus[d] \/ (antivirus'[d] = StoredAv /\ d = known)
      BY <1>1, <2>2
    <2>4. AvSound(StoredAv, known)
      BY <1>1, StoredAvIsSound
    <2>5. \A d \in Databases : AvSound(antivirus'[d], d)
      BY <2>3, <2>4 DEF SoundIInv, SoundHalves
    <2>6. \A d \in Databases : AvSound(antivirus[d], d)'
      BY <2>5 DEF AvSound
    <2> QED
      BY <1>4, <2>1, <2>6 DEF SoundHalves
  <1> QED
    BY <1>3, <1>5, <1>6 DEF SoundIInv, WeightsAreApart

LEMMA RestartSound ==
  ASSUME SoundIInv, CacheIInv', Restart
  PROVE  SoundIInv'
  <1>1. /\ structural' = structural /\ antivirus' = antivirus /\ answer' = answer
        /\ request' = request /\ CacheIInv
    BY DEF SoundIInv, Restart, stores, levels
  <1>2. CASE scan = NoScan
    <2>1. scan' = scan /\ scan'.step = "none"
      BY <1>2 DEF Restart, NoScan
    <2>2. SoundScan'
      BY <2>1 DEF SoundScan, Scanning, ScanSteps
    <2> QED
      BY <1>1, <2>1, <2>2, SoundStays, FullStays DEF SoundIInv, WeightsAreApart
  <1>3. CASE scan # NoScan
    <2>1. scan' = [step |-> "start", tenant |-> scan.tenant, claim |-> scan.claim,
                   cached |-> scan.cached, label |-> scan.label]
      BY <1>3 DEF Restart
    <2>2. scan.step # "none" /\ request.step = "forwarded"
      BY <1>1, <1>3 DEF CacheIInv, RequestTypes, Waiting, Running, ScanSteps
    <2>3. SoundScan'
      BY <2>1 DEF SoundScan, Scanning, ScanSteps
    <2> QED
      BY <1>1, <2>1, <2>2, <2>3, ScanSound
  <1> QED
    BY <1>2, <1>3

LEMMA SoundKeeps == SoundIInv /\ [CacheNext]_cacheVars => SoundIInv'
  <1> SUFFICES ASSUME SoundIInv, [CacheNext]_cacheVars PROVE SoundIInv'
    OBVIOUS
  <1>1. CacheIInv'
    BY CacheKeeps DEF SoundIInv
  <1>2. CASE EditConfig \/ FlipSwitch \/ UpdateDatabase \/ Trust \/ ArtifactExpires \/ LoopStep
    BY <1>1, <1>2, WorldSound
  <1>3. CASE Ask \/ Lookup
    BY <1>1, <1>3, AskSound, LookSound, PassSound, AnswerSound DEF Lookup
  <1>4. CASE ScanStep
    BY <1>1, <1>4, StartSound, ParseSound, ClamavSound, YaraSound, DecideSound, StoreSound,
       StoreAvSound DEF ScanStep
  <1>5. CASE Restart
    BY <1>1, <1>5, RestartSound
  <1>6. CASE UNCHANGED cacheVars
    <2>1. /\ structural' = structural /\ antivirus' = antivirus /\ request' = request
          /\ scan' = scan /\ answer' = answer /\ steady' = steady /\ known' = known
          /\ loaded' = loaded /\ disabled' = disabled /\ database' = database
      BY <1>6 DEF cacheVars, stores, levels, engine, world
    <2> QED
      BY <1>1, <2>1, QuietSound
  <1> QED
    BY <1>2, <1>3, <1>4, <1>5, <1>6 DEF CacheNext

(* The verdict put together from the halves of two complete scans, which may
   have been for other tenants, with other thresholds and other claims, is the
   one a full scan under the versions of the keys gives this tenant (cache.py,
   assemble).  The hypothesis says what the code leaves to those who write the
   weights: cache.py separates overrides in the key of one half only. *)
THEOREM CachedVerdictIsFull ==
  WeightsAreApart => (CacheSpec => []CachedAnswerIsFullVerdict)
  <1>1. SoundIInv => CachedAnswerIsFullVerdict
    BY DEF SoundIInv
  <1> QED
    BY <1>1, SoundStarts, SoundKeeps, PTL DEF CacheSpec
=============================================================================
