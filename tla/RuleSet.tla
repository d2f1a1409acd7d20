------------------------------- MODULE RuleSet -------------------------------
(***************************************************************************)
(* The set of rules of our own: compiled at the first scan, replaced while *)
(* scans run, switched off rule by rule, with a candidate that is tried    *)
(* beside it.  services/worker/worker_app/stages/yara_rules.py, and what   *)
(* the reload loop of the worker and rules_control.py do with it.          *)
(*                                                                         *)
(* A content of the directory is compiled to a set that is known by that   *)
(* content; `stamp` stands for the names, sizes and times of its files.    *)
(* The lock is a variable, and what a thread reads without it is a step of *)
(* its own.                                                                *)
(***************************************************************************)
EXTENDS Naturals, FiniteSets

CONSTANTS Scanners,    \* threads that run the stage
          Contents,    \* what the directory of the rules may hold
          Broken,      \* contents that do not compile
          RulesIn,     \* [content -> the rules in it that match the file]
          Candidates,  \* what the directory of the candidate may hold
          NoSet,       \* nothing compiled
          Parts,       \* how many views a file has
          MaxEdits     \* edits of either directory, and switches

ASSUME RuleSetAssumption ==
  /\ Broken \subseteq Contents
  /\ NoSet \notin Contents \cup Candidates /\ "free" \notin Scanners
  /\ Parts \in Nat \ {0} /\ MaxEdits \in Nat

VARIABLES disk, stamp,            \* the directory, and when it was touched
          candidateDisk, edits,
          switches,               \* rules:disabled in Redis
          ready, rules, label,    \* _compiled, _rules, _fingerprint
          noted,                  \* _stat_signature; 0: none yet
          candidate, candidateNoted,
          off,                    \* _disabled
          lock,
          scanPc, own, beside, part, used, tried, findings,
          loopPc, seenStamp, seenContent, newSet, newCandidate,
          born                    \* how what is in use got its marks

directory == <<disk, stamp, candidateDisk, edits, switches>>
stage == <<ready, rules, label, noted, candidate, candidateNoted, off>>
scans == <<scanPc, own, beside, part, used, tried, findings>>
loop == <<loopPc, seenStamp, seenContent, newSet, newCandidate>>
ruleSetVars == <<directory, stage, lock, scans, loop, born>>

(* The worker publishes its version before the first scan, which latches the
   fingerprint of what is on disk although nothing is compiled yet. *)
RuleSetInit ==
  /\ disk \in Contents \ Broken /\ stamp = 1
  /\ candidateDisk \in Candidates /\ edits = 0 /\ switches = {}
  /\ ready = FALSE /\ rules = NoSet /\ label = disk /\ noted = 0
  /\ candidate = NoSet /\ candidateNoted = NoSet /\ off = {}
  /\ lock = "free"
  /\ scanPc = [s \in Scanners |-> "idle"]
  /\ own = [s \in Scanners |-> NoSet] /\ beside = [s \in Scanners |-> NoSet]
  /\ part = [s \in Scanners |-> 0]
  /\ used = [s \in Scanners |-> {}] /\ tried = [s \in Scanners |-> {}]
  /\ findings = [s \in Scanners |-> {}]
  /\ loopPc = "look" /\ seenStamp = 0 /\ seenContent = NoSet
  /\ newSet = NoSet /\ newCandidate = NoSet
  /\ born = "not yet"

-----------------------------------------------------------------------------
(* The world: files are edited or touched, rules are switched. *)

(* An edit between the compilation and the marks that are to describe it. *)
TearsBirth == \E s \in Scanners : scanPc[s] \in {"stamping", "printing"}

Edit ==
  /\ edits < MaxEdits /\ edits' = edits + 1
  /\ disk' \in Contents /\ stamp' = stamp + 1
  /\ born' = IF TearsBirth /\ disk' # disk THEN "torn" ELSE born
  /\ UNCHANGED <<candidateDisk, switches, stage, lock, scans, loop>>

EditCandidate ==
  /\ edits < MaxEdits /\ edits' = edits + 1
  /\ candidateDisk' \in Candidates \ {candidateDisk}
  /\ UNCHANGED <<disk, stamp, switches, stage, lock, scans, loop, born>>

(* disable and enable: one command each. *)
Switch ==
  /\ edits < MaxEdits /\ edits' = edits + 1
  /\ \E rule \in UNION {RulesIn[c] : c \in Contents} :
       switches' = IF rule \in switches THEN switches \ {rule} ELSE switches \cup {rule}
  /\ UNCHANGED <<disk, stamp, candidateDisk, stage, lock, scans, loop, born>>

-----------------------------------------------------------------------------
(* A scan *)

(* With what a scan goes to work, the set and the candidate it holds on to. *)
Start(s, set, tryOut) ==
  /\ own' = [own EXCEPT ![s] = set]
  /\ beside' = [beside EXCEPT ![s] = tryOut]
  /\ scanPc' = [scanPc EXCEPT ![s] = IF set = NoSet THEN "done" ELSE "matching"]
  /\ part' = [part EXCEPT ![s] = 0]
  /\ used' = [used EXCEPT ![s] = {}] /\ tried' = [tried EXCEPT ![s] = {}]
  /\ findings' = [findings EXCEPT ![s] = {}]

(* _ensure_rules, its first look is not under the lock. *)
Begin(s) ==
  /\ scanPc[s] = "idle" /\ ready
  /\ Start(s, rules, candidate)
  /\ UNCHANGED <<directory, stage, lock, loop, born>>

Queue(s) ==
  /\ scanPc[s] = "idle" /\ ~ready
  /\ scanPc' = [scanPc EXCEPT ![s] = "queued"]
  /\ UNCHANGED <<directory, stage, lock, own, beside, part, used, tried, findings, loop,
                 born>>

SecondLook(s) ==
  /\ scanPc[s] = "queued" /\ lock = "free" /\ ready
  /\ Start(s, rules, candidate)
  /\ UNCHANGED <<directory, stage, lock, loop, born>>

(* The flag is up before there is a set. *)
Claim(s) ==
  /\ scanPc[s] = "queued" /\ lock = "free" /\ ~ready
  /\ lock' = s /\ ready' = TRUE
  /\ scanPc' = [scanPc EXCEPT ![s] = "compiling"]
  /\ UNCHANGED <<directory, rules, label, noted, candidate, candidateNoted, off,
                 own, beside, part, used, tried, findings, loop, born>>

Compiled(content) == IF RulesIn[content] = {} THEN NoSet ELSE content

FirstCompile(s) ==
  /\ scanPc[s] = "compiling" /\ disk \notin Broken
  /\ rules' = Compiled(disk)
  /\ scanPc' = [scanPc EXCEPT ![s] = "stamping"]
  /\ born' = "whole"
  /\ UNCHANGED <<directory, ready, label, noted, candidate, candidateNoted, off, lock,
                 own, beside, part, used, tried, findings, loop>>

(* The exception is a finding of the stage; the flag stays up. *)
FirstCompileFails(s) ==
  /\ scanPc[s] = "compiling" /\ disk \in Broken
  /\ lock' = "free"
  /\ scanPc' = [scanPc EXCEPT ![s] = "failed"]
  /\ born' = "failed"
  /\ UNCHANGED <<directory, stage, own, beside, part, used, tried, findings, loop>>

FirstStamp(s) ==
  /\ scanPc[s] = "stamping"
  /\ noted' = stamp
  /\ scanPc' = [scanPc EXCEPT ![s] = "printing"]
  /\ UNCHANGED <<directory, ready, rules, label, candidate, candidateNoted, off, lock,
                 own, beside, part, used, tried, findings, loop, born>>

CompiledCandidate == IF candidateDisk \in Broken THEN NoSet ELSE candidateDisk

FirstPrint(s) ==
  /\ scanPc[s] = "printing"
  /\ label' = disk
  /\ candidate' = CompiledCandidate /\ candidateNoted' = candidateDisk
  /\ lock' = "free"
  /\ Start(s, rules, CompiledCandidate)
  /\ UNCHANGED <<directory, ready, rules, noted, off, loop, born>>

\* Mutant: a part is matched by whatever set is there by then.
MatchByCurrent(s) ==
  /\ scanPc[s] = "matching" /\ part[s] < Parts /\ lock = "free"
  /\ part' = [part EXCEPT ![s] = @ + 1]
  /\ used' = [used EXCEPT ![s] = @ \cup {rules}]
  /\ tried' = [tried EXCEPT ![s] = @ \cup {beside[s]}]
  /\ UNCHANGED <<directory, stage, lock, scanPc, own, beside, findings, loop, born>>

(* One part, by the set the scan began with and by its candidate. *)
Match(s) ==
  /\ scanPc[s] = "matching" /\ part[s] < Parts /\ lock = "free"
  /\ part' = [part EXCEPT ![s] = @ + 1]
  /\ used' = [used EXCEPT ![s] = @ \cup {own[s]}]
  /\ tried' = [tried EXCEPT ![s] = @ \cup ({beside[s]} \ {NoSet})]
  /\ UNCHANGED <<directory, stage, lock, scanPc, own, beside, findings, loop, born>>

(* After the last part, or when the time is up after the first: the rules that
   are off by now do not count. *)
Sift(s) ==
  /\ scanPc[s] = "matching" /\ part[s] > 0
  /\ findings' = [findings EXCEPT ![s] = (UNION {RulesIn[c] : c \in used[s]}) \ off]
  /\ scanPc' = [scanPc EXCEPT ![s] = "done"]
  /\ UNCHANGED <<directory, stage, lock, own, beside, part, used, tried, loop, born>>

NextFile(s) ==
  /\ scanPc[s] \in {"done", "failed"}
  /\ scanPc' = [scanPc EXCEPT ![s] = "idle"]
  /\ own' = [own EXCEPT ![s] = NoSet] /\ beside' = [beside EXCEPT ![s] = NoSet]
  /\ part' = [part EXCEPT ![s] = 0]
  /\ used' = [used EXCEPT ![s] = {}] /\ tried' = [tried EXCEPT ![s] = {}]
  /\ findings' = [findings EXCEPT ![s] = {}]
  /\ UNCHANGED <<directory, stage, lock, loop, born>>

-----------------------------------------------------------------------------
(* A tick of the reload loop *)

GoTo(pc) == loopPc' = pc

Look ==
  /\ loopPc = "look"
  /\ seenStamp' = stamp
  /\ GoTo(IF stamp = noted THEN "control" ELSE "read")
  /\ UNCHANGED <<directory, stage, lock, scans, seenContent, newSet, newCandidate, born>>

(* The same content again: there is nothing to compile, even if what was
   compiled under that name was another content that crossed its way. *)
SameContent ==
  /\ loopPc = "read" /\ disk = label
  /\ noted' = seenStamp
  /\ GoTo("control")
  /\ born' = IF born = "whole" /\ rules # Compiled(label) THEN "torn" ELSE born
  /\ UNCHANGED <<directory, ready, rules, label, candidate, candidateNoted, off, lock,
                 scans, seenStamp, seenContent, newSet, newCandidate>>

NewContent ==
  /\ loopPc = "read" /\ disk # label
  /\ seenContent' = disk
  /\ GoTo("compile")
  /\ UNCHANGED <<directory, stage, lock, scans, seenStamp, newSet, newCandidate, born>>

Compile ==
  /\ loopPc = "compile" /\ disk \notin Broken
  /\ newSet' = Compiled(disk) /\ newCandidate' = CompiledCandidate
  /\ GoTo("swap")
  /\ UNCHANGED <<directory, stage, lock, scans, seenStamp, seenContent, born>>

(* The former set stays, and so does the mark: the next tick tries again. *)
CompileFails ==
  /\ loopPc = "compile" /\ disk \in Broken
  /\ GoTo("control")
  /\ UNCHANGED <<directory, stage, lock, scans, seenStamp, seenContent, newSet, newCandidate, born>>

\* Mutant: the mark is that of the moment of the swap.
SwapWithNewStamp ==
  /\ loopPc = "swap" /\ lock = "free"
  /\ rules' = newSet /\ ready' = TRUE
  /\ label' = seenContent /\ noted' = stamp
  /\ candidate' = newCandidate /\ candidateNoted' = candidateDisk
  /\ GoTo("control")
  /\ born' = IF born = "not yet" THEN "whole" ELSE born
  /\ UNCHANGED <<directory, off, lock, scans, seenStamp, seenContent, newSet, newCandidate>>

Swap ==
  /\ loopPc = "swap" /\ lock = "free"
  /\ rules' = newSet /\ ready' = TRUE
  /\ label' = seenContent /\ noted' = seenStamp
  /\ candidate' = newCandidate /\ candidateNoted' = candidateDisk
  /\ GoTo("control")
  /\ born' = IF born \in {"not yet", "failed", "torn"} THEN "whole" ELSE born
  /\ UNCHANGED <<directory, off, lock, scans, seenStamp, seenContent, newSet, newCandidate>>

(* The switches, or the former ones if Redis does not answer. *)
ApplyControl ==
  /\ loopPc = "control" /\ lock = "free"
  /\ off' = switches
  /\ GoTo("candidate")
  /\ UNCHANGED <<directory, ready, rules, label, noted, candidate, candidateNoted, lock,
                 scans, seenStamp, seenContent, newSet, newCandidate, born>>

\* Mutant: a list that cannot be read counts as empty.
ControlForgotten ==
  /\ loopPc = "control" /\ lock = "free"
  /\ off' = {}
  /\ GoTo("candidate")
  /\ UNCHANGED <<directory, ready, rules, label, noted, candidate, candidateNoted, lock,
                 scans, seenStamp, seenContent, newSet, newCandidate, born>>

ControlUnread ==
  /\ loopPc = "control"
  /\ GoTo("candidate")
  /\ UNCHANGED <<directory, stage, lock, scans, seenStamp, seenContent, newSet, newCandidate, born>>

ReloadCandidate ==
  /\ loopPc = "candidate"
  /\ \/ candidateNoted = candidateDisk /\ UNCHANGED <<candidate, candidateNoted>>
     \/ /\ candidateNoted # candidateDisk /\ lock = "free"
        /\ candidate' = CompiledCandidate /\ candidateNoted' = candidateDisk
  /\ GoTo("publish")
  /\ UNCHANGED <<directory, ready, rules, label, noted, off, lock, scans,
                 seenStamp, seenContent, newSet, newCandidate, born>>

(* The last thing of a tick, outside of its try: if Redis fails here the loop
   is over, while the worker goes on scanning with what it has. *)
PublishVersion ==
  /\ loopPc = "publish"
  /\ GoTo("look")
  /\ UNCHANGED <<directory, stage, lock, scans, seenStamp, seenContent, newSet, newCandidate, born>>

PublishVersionFails ==
  /\ loopPc = "publish"
  /\ GoTo("dead")
  /\ UNCHANGED <<directory, stage, lock, scans, seenStamp, seenContent, newSet, newCandidate, born>>

-----------------------------------------------------------------------------
Scan(s) ==
  \/ Begin(s) \/ Queue(s) \/ SecondLook(s) \/ Claim(s)
  \/ FirstCompile(s) \/ FirstCompileFails(s) \/ FirstStamp(s) \/ FirstPrint(s)
  \/ Match(s) \/ Sift(s) \/ NextFile(s)

InsideLock(s) == FirstCompile(s) \/ FirstCompileFails(s) \/ FirstStamp(s) \/ FirstPrint(s)

Tick ==
  \/ Look \/ SameContent \/ NewContent \/ Compile \/ CompileFails \/ Swap
  \/ ApplyControl \/ ControlUnread \/ ReloadCandidate
  \/ PublishVersion \/ PublishVersionFails

RuleSetNext ==
  \/ \E s \in Scanners : Scan(s)
  \/ Tick
  \/ Edit \/ EditCandidate \/ Switch

RuleSetSpec == RuleSetInit /\ [][RuleSetNext]_ruleSetVars

(* The loop ticks as long as it lives, a thread inside the lock goes on, and a
   Redis that is asked again and again for the switches answers. *)
RuleSetFairness ==
  /\ WF_ruleSetVars(Tick)
  /\ SF_ruleSetVars(ApplyControl)
  /\ \A s \in Scanners : WF_ruleSetVars(InsideLock(s))

FairRuleSetSpec == RuleSetSpec /\ RuleSetFairness

-----------------------------------------------------------------------------
(* Properties *)

(* Types. *)
RuleSetTypeOK ==
  /\ disk \in Contents /\ stamp \in 1 .. MaxEdits + 1 /\ noted \in 0 .. stamp
  /\ rules \in (Contents \ Broken) \cup {NoSet} /\ label \in Contents
  /\ candidate \in (Candidates \ Broken) \cup {NoSet}
  /\ lock \in Scanners \cup {"free"}
  /\ \A s \in Scanners : own[s] \in Contents \cup {NoSet} /\ part[s] \in 0 .. Parts

(* A scan is the work of one set and of one candidate, whatever is replaced
   while it runs (yara_rules.py, run): its parts are not matched by the rules
   of different days, and the canary compares like with like. *)
ScanUsesOneSet ==
  \A s \in Scanners : scanPc[s] = "done" =>
    /\ used[s] = {own[s]} \ {NoSet}
    /\ tried[s] \subseteq {beside[s]}

(* What is compiled compiles, and a scan is the work of one such set. *)
RuleSetInv == RuleSetTypeOK /\ ScanUsesOneSet

(* If what is compiled is not what the version in the keys of the cache names,
   the next tick finds that out (yara_rules.py, reload_if_changed: the mark is
   taken before the content, and the content before the compilation).  The
   exceptions are a first compilation that an edit crossed, and an edit that
   is taken back after the compilation crossed it; see the README. *)
StaleSetIsNoticed ==
  born = "whole" /\ lock = "free" /\ loopPc = "look" /\ rules # Compiled(label)
    => noted # stamp

Reloads == loopPc # "dead"

(* Once the directory is left alone with rules that compile, they come to be
   the ones in use, whatever was on disk before and whatever scans run, unless
   the loop has ended (yara_rules.py: hot reload without a restart). *)
EditIsApplied ==
  <>[](Reloads /\ born = "whole" /\ disk \notin Broken
         => rules = Compiled(disk) /\ label = disk)

(* A rule that is switched off or on comes to be so in the stage, by the same
   loop (rules_control.py; main.py, _apply_rule_control). *)
SwitchIsApplied == <>[](Reloads => off = switches)

(* What was changed by hand comes to be in use: contents and switches, unless
   one answer of Redis that did not come has ended the loop for good. *)
ChangesAreApplied == EditIsApplied /\ SwitchIsApplied

(* The same where the first compilation failed, once the rules are corrected
   (docs/architecture.md: the mark does not move when a compilation fails,
   "so a correction is picked up by the very next check"). *)
FixIsPickedUp ==
  <>[](Reloads /\ born # "torn" /\ disk \notin Broken /\ ready => rules = Compiled(disk))
=============================================================================
