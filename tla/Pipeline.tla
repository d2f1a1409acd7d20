------------------------------ MODULE Pipeline ------------------------------
(***************************************************************************)
(* One job in the worker's pipeline: the stages with their time limits,    *)
(* the members of an archive, the verdict, the list of trusted files and   *)
(* the rebuilding.  services/worker/worker_app/pipeline.py, with           *)
(* stages/base.py, stages/archive_structure.py and archive.py.             *)
(*                                                                         *)
(* What a stage finds in a file is chosen when the stage runs, from        *)
(* Reports.  A stage that exceeds its limit is abandoned, but its thread   *)
(* goes on and writes into the context later (LateWrite).  A file is a     *)
(* path in the tree of archives; only the files on `path`, from the upload *)
(* down to the one being checked, have a context.                          *)
(***************************************************************************)
EXTENDS Scoring, Sequences, SequencesExt

CONSTANTS Upload,            \* the file that was uploaded
          Entries,           \* [file -> its entries if it is an archive, in order]
          Depth,             \* [file -> in how many archives it lies]
          Jobs,              \* what may be asked, each with its tenant's policy
          Reports,           \* [file -> [stage -> what the stage may find in it]]
          EntryKinds,        \* the entries an archive may list, by nature and size
          MaxArchiveDepth, MaxArchiveEntries, MaxUnpacked, MaxMember, BombRatio,
          Faults             \* how many stages may raise or exceed their limit

File == DOMAIN Entries
RootSize == 1

Stages == <<"filetype", "structure", "clamav", "yara">>
StageNames == ToSet(Stages)

Profiles == {"light", "standard", "strict"}

(* The files are a tree; only the first stages say that a file cannot be read,
   and the stages tell codes of the table.  The limits of thresholds and scores
   are those of TenantPolicy and Finding (models.py). *)
ASSUME PipelineAssumption ==
  /\ Upload \in File
  /\ \A f \in File : Entries[f] \in Seq(File)
  /\ Depth \in [File -> Nat] /\ Depth[Upload] = 0
  /\ \A f \in File : \A m \in ToSet(Entries[f]) : Depth[m] = Depth[f] + 1
  /\ MaxArchiveDepth \in Nat /\ MaxArchiveEntries \in Nat
  /\ MaxUnpacked \in Nat /\ MaxMember \in Nat /\ BombRatio \in Nat /\ Faults \in Nat
  /\ \A e \in EntryKinds : e.size \in Nat
  /\ \A f \in File, s \in StageNames : \A report \in Reports[f][s] :
       /\ report.codes \subseteq DOMAIN DefaultWeights /\ IsFiniteSet(report.codes)
       /\ report.encrypted \in BOOLEAN /\ report.supported \in BOOLEAN
       /\ s = "yara" => ~report.encrypted /\ report.supported
  /\ \A j \in Jobs :
       /\ j.policy.profile \in Profiles /\ j.cached.artifact \in Profiles \cup {"none"}
       /\ j.policy.block \in 1 .. 100 /\ j.policy.suspicious \in 1 .. 100
       /\ IsFiniteSet(j.cached.facts.findings)
       /\ \A f \in j.cached.facts.findings : f.score \in 0 .. 100

VARIABLES job,       \* what was asked, with the tenant's policy
          path,      \* the files being checked, the upload first
          at,        \* where each file on the path is
          ctx,       \* [file -> its ScanContext]
          todo,      \* [file -> the entries still to unpack, with their sizes]
          budget,    \* of the whole tree
          orphans,   \* stages whose thread outlived its limit
          faults,
          done,      \* what the job has come to, and its result
          ghost      \* what was left out, for the properties

pipelineVars == <<job, path, at, ctx, todo, budget, orphans, faults, done, ghost>>

NotCached == [facts |-> NoFacts, artifact |-> "none", stored |-> FALSE]

(* The structural part of the cache is there, and its artifact, if it has one,
   is still in the store. *)
AvOnly == job.cached # NotCached /\ (job.cached.artifact = "none" \/ job.cached.stored)

NewContext == [findings |-> {}, encrypted |-> FALSE, supported |-> TRUE, failed |-> {}]

NoBudget == [made |-> FALSE, declared |-> 0, unpacked |-> 0, entries |-> 0, expired |-> FALSE]
NoArtifact == "none"
NoResult == [step |-> "running", verdict |-> "error", score |-> 0, facts |-> NoFacts,
             findings |-> {}, artifact |-> NoArtifact, status |-> "scanning",
             allowlisted |-> FALSE]

Current == path[Len(path)]
Step == at[Current]
Policy == job.policy
Blocks(f) == ~job.deep /\ ShouldStopEarly(ctx[f], Policy)

Note(file, stage, code) == [ctx EXCEPT ![file].findings = Add(@, stage, code, DefaultWeights)]

PipelineInit ==
  /\ job \in Jobs
  /\ path = <<Upload>>
  /\ at = [f \in File |-> IF AvOnly /\ f = Upload THEN "clamav" ELSE "filetype"]
  /\ ctx = [f \in File |-> NewContext]
  /\ todo = [f \in File |-> {}]
  /\ budget = NoBudget
  /\ orphans = {}
  /\ faults = Faults
  /\ done = NoResult
  /\ ghost = [missed |-> {}, stopped |-> FALSE, passes |-> 1, written |-> 0]

Miss(why) == [ghost EXCEPT !.missed = @ \cup {why}]

-----------------------------------------------------------------------------
(* The inventory of an archive: what is wrong with it, and what to unpack. *)

(* plain, password, symlink, metadata of an operating system, or a method of
   compression that is not supported. *)
Listings(file) == [1 .. Len(Entries[file]) -> EntryKinds]

Declared(listing) == FoldFunction(LAMBDA e, n : e.size + n, 0, listing)

Tried(e) == e.nature \notin {"password", "symlink", "metadata"} /\ e.size > 0

SizeOf(listing, entries) == MapThenSumSet(LAMBDA i : listing[i].size, entries)

\* Mutant: every archive may have as many entries as the tree.
FitsAlone(listing, i, earlier) ==
  /\ Tried(listing[i]) /\ listing[i].nature # "method"
  /\ listing[i].size <= MaxMember
  /\ budget.declared + SizeOf(listing, earlier) + listing[i].size <= MaxUnpacked
  /\ Cardinality(earlier) < MaxArchiveEntries

(* Whether there is room in the tree for an entry, after the earlier ones. *)
Fits(listing, i, earlier) ==
  /\ Tried(listing[i]) /\ listing[i].nature # "method"
  /\ listing[i].size <= MaxMember
  /\ budget.declared + SizeOf(listing, earlier) + listing[i].size <= MaxUnpacked
  /\ budget.entries + Cardinality(earlier) < MaxArchiveEntries

(* One entry after the other is taken if it fits: there is one such set. *)
Takes(listing, taken) ==
  \A i \in DOMAIN listing :
    i \in taken <=> Fits(listing, i, {j \in taken : j < i})

Problems(listing) ==
  (IF \E i \in DOMAIN listing : listing[i].nature = "symlink" THEN {"ARCHIVE_SYMLINK"} ELSE {})
  \cup (IF \E i \in DOMAIN listing : listing[i].nature = "password"
        THEN {"ARCHIVE_ENCRYPTED"} ELSE {})

(* inspect: what is declared goes off the budget of the tree at once. *)
Inspect(file, listing, taken) ==
  LET declared == budget.declared + Declared(listing)
      over == declared > MaxUnpacked
      bomb == over /\ declared >= BombRatio * RootSize
      deep == Depth[file] > MaxArchiveDepth
      left == {i \in DOMAIN listing : Tried(listing[i])} \ taken
      none == bomb \/ deep
  IN  [codes |-> Problems(listing) \cup (IF bomb THEN {"ARCHIVE_BOMB"} ELSE {}),
       encrypted |-> "ARCHIVE_ENCRYPTED" \in Problems(listing),
       incomplete |-> ~bomb /\ (over \/ deep \/ left # {}),
       members |-> IF none THEN {}
                   ELSE {[entry |-> i, size |-> listing[i].size] : i \in taken},
       declared |-> declared,
       entries |-> budget.entries + (IF none THEN 0 ELSE Cardinality(taken))]

AddAll(findings, stage, codes) ==
  findings \cup {Finding(stage, c, RuleFor(DefaultWeights, c)) :
                   c \in codes \ Codes(findings)}

(* analyse: the structure stage on an archive that could be opened. *)
ListArchive(file, listing, taken) ==
  LET found == Inspect(file, listing, taken)
      codes == found.codes \cup (IF found.incomplete THEN {"ARCHIVE_INCOMPLETE"} ELSE {})
  IN  /\ ctx' = [ctx EXCEPT ![file].findings = AddAll(@, "structure", codes),
                            ![file].encrypted = @ \/ found.encrypted,
                            ![file].supported = @ /\ ~found.incomplete]
      /\ todo' = [todo EXCEPT ![file] = found.members]
      /\ budget' = [budget EXCEPT !.made = TRUE, !.declared = found.declared,
                                  !.entries = found.entries]
      /\ ghost' = IF found.incomplete \/ found.encrypted THEN Miss("entry") ELSE ghost

(* What a stage writes about a file that is no archive: codes, and whether it
   says the file cannot be read or is of no supported type. *)
WriteReport(file, stage, report) ==
  /\ ctx' = [ctx EXCEPT ![file].findings = AddAll(@, stage, report.codes),
                        ![file].encrypted = @ \/ report.encrypted,
                        ![file].supported = @ /\ report.supported]
  /\ ghost' = IF report.encrypted \/ ~report.supported THEN Miss("content") ELSE ghost
  /\ UNCHANGED <<todo, budget>>

(* An archive that does not open, or with too many entries to read its
   directory, still has a budget for its tree. *)
BrokenArchive(file) ==
  /\ \E code \in {"ARCHIVE_MALFORMED", "ARCHIVE_INCOMPLETE"} :
       ctx' = [Note(file, "structure", code) EXCEPT ![file].supported = FALSE]
  /\ budget' = [budget EXCEPT !.made = TRUE]
  /\ ghost' = Miss("content")
  /\ UNCHANGED todo

(* What the thread of a stage does to the context, when it does it. *)
StageWrites(file, stage) ==
  IF stage = "structure" /\ Entries[file] # <<>>
  THEN \/ \E listing \in Listings(file), taken \in SUBSET DOMAIN Entries[file] :
             Takes(listing, taken) /\ ListArchive(file, listing, taken)
       \/ BrokenArchive(file)
  ELSE \E report \in Reports[file][stage] : WriteReport(file, stage, report)

-----------------------------------------------------------------------------
(* The stages *)

Following(stage) ==
  IF stage = "yara" THEN "expand"
  ELSE Stages[1 + CHOOSE i \in 1 .. 3 : Stages[i] = stage]

(* Where a file goes after a stage: an early end skips the other stages. *)
GoOn(stage) ==
  LET early == ~job.deep /\ ShouldStopEarly(ctx'[Current], Policy) IN
  at' = [at EXCEPT ![Current] = IF AvOnly THEN "left"
                                ELSE IF early THEN "expand" ELSE Following(stage)]

Running(stage) == done.step = "running" /\ Step = stage

StageSucceeds(stage) ==
  /\ Running(stage)
  /\ StageWrites(Current, stage)
  /\ GoOn(stage)
  /\ UNCHANGED <<job, path, orphans, faults, done>>

(* safe_run: an exception becomes a finding, and the stage is not complete. *)
StageRaises(stage) ==
  /\ Running(stage)
  /\ faults > 0
  /\ faults' = faults - 1
  /\ ctx' = [Note(Current, stage, "STAGE_FAILED") EXCEPT ![Current].failed = @ \cup {stage}]
  /\ ghost' = IF stage \in {"filetype", "structure", "clamav"} THEN Miss("stage") ELSE ghost
  /\ GoOn(stage)
  /\ UNCHANGED <<job, path, todo, budget, orphans, done>>

\* Mutant: the limit leaves no finding.
StageTimesOutSilently(stage) ==
  /\ Running(stage)
  /\ faults > 0
  /\ faults' = faults - 1
  /\ ctx' = [ctx EXCEPT ![Current].failed = @ \cup {stage}]
  /\ orphans' = orphans \cup {<<Current, stage>>}
  /\ GoOn(stage)
  /\ UNCHANGED <<job, path, todo, budget, done, ghost>>

(* The limit passes; what the thread wrote before it is written later here. *)
StageTimesOut(stage) ==
  /\ Running(stage)
  /\ faults > 0
  /\ faults' = faults - 1
  /\ ctx' = [Note(Current, stage, "STAGE_TIMEOUT") EXCEPT ![Current].failed = @ \cup {stage}]
  /\ ghost' = IF stage \in {"filetype", "structure", "clamav"} THEN Miss("stage") ELSE ghost
  /\ orphans' = orphans \cup {<<Current, stage>>}
  /\ GoOn(stage)
  /\ UNCHANGED <<job, path, todo, budget, done>>

Published == done.step = "published"

(* The thread goes on and writes, or fails. *)
LateWrite(file, stage) ==
  /\ <<file, stage>> \in orphans
  /\ ~Published
  /\ file \in ToSet(path)
  /\ \/ StageWrites(file, stage)
     \/ /\ ctx' = Note(file, stage, "STAGE_FAILED")
        /\ UNCHANGED <<todo, budget, ghost>>
  /\ orphans' = orphans \ {<<file, stage>>}
  /\ UNCHANGED <<job, path, at, faults, done>>

(* Nobody reads the context of a member that was left, but its late inventory
   spends the budget of the tree. *)
LateSpend(file) ==
  /\ <<file, "structure">> \in orphans
  /\ ~Published
  /\ file \notin ToSet(path)
  /\ \E listing \in Listings(file), taken \in SUBSET DOMAIN Entries[file] :
       LET found == Inspect(file, listing, taken) IN
       /\ Takes(listing, taken)
       /\ budget' = [budget EXCEPT !.declared = found.declared, !.entries = found.entries]
  /\ orphans' = orphans \ {<<file, "structure">>}
  /\ UNCHANGED <<job, path, at, ctx, todo, faults, done, ghost>>

-----------------------------------------------------------------------------
(* The members of an archive *)

Deadline ==
  /\ budget.made /\ ~budget.expired /\ done.step = "running"
  /\ budget' = [budget EXCEPT !.expired = TRUE]
  /\ UNCHANGED <<job, path, at, ctx, todo, orphans, faults, done, ghost>>

MayExpand == todo[Current] # {} /\ budget.made /\ Depth[Current] <= MaxArchiveDepth

Expand ==
  /\ Running("expand") /\ MayExpand
  /\ at' = [at EXCEPT ![Current] = "members"]
  /\ UNCHANGED <<job, path, ctx, todo, budget, orphans, faults, done, ghost>>

Leaving == at' = [at EXCEPT ![Current] = "left"]

NothingToExpand ==
  /\ Running("expand") /\ ~MayExpand
  /\ Leaving
  /\ UNCHANGED <<job, path, ctx, todo, budget, orphans, faults, done, ghost>>

AllMembers ==
  /\ Running("members") /\ todo[Current] = {}
  /\ Leaving
  /\ UNCHANGED <<job, path, ctx, todo, budget, orphans, faults, done, ghost>>

(* The archive is blocked: the rest would not change the verdict. *)
StopMembers ==
  /\ Running("members") /\ todo[Current] # {} /\ Blocks(Current)
  /\ Leaving
  /\ ghost' = [ghost EXCEPT !.stopped = TRUE]
  /\ UNCHANGED <<job, path, ctx, todo, budget, orphans, faults, done>>

MarkIncomplete ==
  ctx' = [Note(Current, "archive", "ARCHIVE_INCOMPLETE") EXCEPT ![Current].supported = FALSE]

OutOfTime ==
  /\ Running("members") /\ todo[Current] # {} /\ ~Blocks(Current) /\ budget.expired
  /\ MarkIncomplete
  /\ ghost' = Miss("entry")
  /\ Leaving
  /\ UNCHANGED <<job, path, todo, budget, orphans, faults, done>>

Unpacking == Running("members") /\ todo[Current] # {} /\ ~Blocks(Current) /\ ~budget.expired
Entry == CHOOSE e \in todo[Current] : \A other \in todo[Current] : e.entry <= other.entry
Member == Entries[Current][Entry.entry]

Overruns(bytes) == bytes > Entry.size \/ budget.unpacked + bytes > MaxUnpacked

(* The entry holds more than it declares, or than the tree has room for.  The
   chunk that showed it is counted, though it was not written. *)
Overflow ==
  /\ Unpacking
  /\ \E bytes \in 1 .. MaxMember + 1 :
       /\ Overruns(bytes)
       /\ budget' = [budget EXCEPT !.unpacked = @ + bytes]
  /\ MarkIncomplete
  /\ ghost' = Miss("entry")
  /\ Leaving
  /\ UNCHANGED <<job, path, todo, orphans, faults, done>>

(* It does not unpack: the archive is not checked, the next entry is tried. *)
Unreadable ==
  /\ Unpacking
  /\ ctx' = [Note(Current, "archive", "ARCHIVE_MALFORMED") EXCEPT ![Current].supported = FALSE]
  /\ todo' = [todo EXCEPT ![Current] = @ \ {Entry}]
  /\ \E bytes \in 0 .. Entry.size :
       ~Overruns(bytes) /\ budget' = [budget EXCEPT !.unpacked = @ + bytes]
  /\ ghost' = Miss("entry")
  /\ UNCHANGED <<job, path, at, orphans, faults, done>>

(* The member gets a context of its own and the budget of the tree. *)
Extract ==
  /\ Unpacking
  /\ ~Overruns(Entry.size)
  /\ budget' = [budget EXCEPT !.unpacked = @ + Entry.size]
  /\ path' = Append(path, Member)
  /\ at' = [at EXCEPT ![Member] = "filetype"]
  /\ ctx' = [ctx EXCEPT ![Member] = NewContext]
  /\ todo' = [todo EXCEPT ![Current] = @ \ {Entry}, ![Member] = {}]
  /\ ghost' = [ghost EXCEPT !.passes = @ + 1, !.written = @ + Entry.size]
  /\ UNCHANGED <<job, orphans, faults, done>>

Container == path[Len(path) - 1]

\* Mutants: the marks of the member are left behind; its findings are.
AdoptFindings(own, child) == [own EXCEPT !.findings = Join(@, child.findings)]
AdoptMarks(own, child) ==
  [own EXCEPT !.encrypted = @ \/ child.encrypted, !.supported = @ /\ child.supported,
              !.failed = @ \cup child.failed]

(* What was found in the member, and what could not be checked, becomes the
   container's. *)
Adopt(own, child) ==
  [findings |-> Join(own.findings, child.findings),
   encrypted |-> own.encrypted \/ child.encrypted,
   supported |-> own.supported /\ child.supported,
   failed |-> own.failed \cup child.failed]

Forget(file) == [ctx EXCEPT ![file] = NewContext]

LeaveMember ==
  /\ Running("left") /\ Len(path) > 1
  /\ ctx' = [Forget(Current) EXCEPT ![Container] = Adopt(@, ctx[Current])]
  /\ todo' = [todo EXCEPT ![Current] = {}]
  /\ at' = [at EXCEPT ![Current] = "filetype"]
  /\ path' = Front(path)
  /\ orphans' = {o \in orphans : o[1] = Current => Entries[Current] # <<>> /\ o[2] = "structure"}
  /\ UNCHANGED <<job, budget, faults, done, ghost>>

-----------------------------------------------------------------------------
(* The verdict and the rebuilding *)

(* With a cached structural part the facts are put together once; without one
   they are the context as it is when they are asked for. *)
Facts == IF AvOnly THEN Merge(job.cached.facts, ctx[Upload]) ELSE ctx[Upload]

Decide ==
  /\ Running("left") /\ path = <<Upload>>
  /\ done' = [done EXCEPT !.step = "decided", !.facts = Facts,
                          !.verdict = VerdictOf(Facts, Policy),
                          !.score = VerdictAndScore(Facts, Policy)[2]]
  /\ UNCHANGED <<job, path, at, ctx, todo, budget, orphans, faults, ghost>>

(* The list of trusted files is asked about a blocked file only; the facts are
   taken after the answer. *)
Allowlist ==
  /\ done.step = "decided"
  /\ LET lifted == done.verdict = "malicious" /\ job.trusted IN
     done' = [done EXCEPT !.step = "built",
                          !.verdict = IF lifted THEN "suspicious" ELSE @,
                          !.allowlisted = lifted,
                          !.facts = IF AvOnly THEN @ ELSE Facts,
                          !.artifact = IF AvOnly /\ (lifted \/ done.verdict # "malicious")
                                       THEN job.cached.artifact ELSE @,
                          !.status = "done"]
  /\ UNCHANGED <<job, path, at, ctx, todo, budget, orphans, faults, ghost>>

ShouldSanitize(verdict) ==
  /\ ~AvOnly
  /\ job.mode # "detect"
  /\ verdict \notin UnscannableVerdicts
  /\ verdict = "malicious" => job.deep \/ Policy.shadow \/ Policy.deliverBlocked = "strict"

ProfileFor(verdict) == IF verdict = "malicious" THEN "strict" ELSE Policy.profile

Rebuild ==
  /\ done.step = "built" /\ ShouldSanitize(done.verdict)
  /\ done' = [done EXCEPT !.step = "rebuilt", !.artifact = ProfileFor(done.verdict)]
  /\ UNCHANGED <<job, path, at, ctx, todo, budget, orphans, faults, ghost>>

(* Neither a failed nor a late rebuilding softens a verdict. *)
RebuildFails ==
  /\ done.step = "built" /\ ShouldSanitize(done.verdict)
  /\ ctx' = Note(Upload, "cdr", "CDR_FAILED")
  /\ done' = [done EXCEPT !.step = "rebuilt", !.status = "failed",
                          !.verdict = ApplyFailure(@, Policy)]
  /\ UNCHANGED <<job, path, at, todo, budget, orphans, faults, ghost>>

(* The result shows the list of the context itself, not a copy. *)
Publish ==
  /\ \/ done.step = "rebuilt"
     \/ done.step = "built" /\ ~ShouldSanitize(done.verdict)
  /\ done' = [done EXCEPT !.step = "published", !.findings = IF AvOnly THEN done.facts.findings
                                       ELSE ctx[Upload].findings]
  /\ UNCHANGED <<job, path, at, ctx, todo, budget, orphans, faults, ghost>>

-----------------------------------------------------------------------------
PipelineStep ==
  \/ \E s \in StageNames : StageSucceeds(s) \/ StageRaises(s) \/ StageTimesOut(s)
  \/ Expand \/ NothingToExpand
  \/ AllMembers \/ StopMembers \/ OutOfTime \/ Overflow \/ Unreadable \/ Extract
  \/ LeaveMember
  \/ Decide \/ Allowlist \/ Rebuild \/ RebuildFails \/ Publish

PipelineNext ==
  \/ PipelineStep
  \/ Deadline
  \/ \E f \in File, s \in StageNames : LateWrite(f, s)
  \/ \E f \in File : LateSpend(f)

PipelineSpec == PipelineInit /\ [][PipelineNext]_pipelineVars

-----------------------------------------------------------------------------
(* Properties *)

(* What can be in a context, a result and the budget. *)
PipelineTypeOK ==
  /\ path \in Seq(File) /\ path[1] = Upload
  /\ at \in [File -> StageNames \cup {"expand", "members", "left"}]
  /\ \A f \in File : Codes(ctx[f].findings) \subseteq DOMAIN DefaultWeights
  /\ done.verdict \in Verdicts
  /\ done.artifact \in Profiles \cup {"none"}
  /\ faults \in 0 .. Faults

(* A file is clean only if nothing was left out on the way: no essential stage
   of it or of a member, no entry that was not unpacked, no content that could
   not be read, unless the tenant asked to be failed open (scoring.py,
   verdict_of; pipeline.py, _scan_members; archive_structure.py). *)
CleanMeansChecked ==
  Published /\ done.verdict = "clean" /\ Policy.failMode # "fail-open"
    => ghost.missed = {}

(* If the check of an archive stopped before its last member, the archive is
   blocked: what was not looked at would not have changed the verdict
   (pipeline.py, _scan_members).  It holds because adopting a member never
   lowers the score. *)
StoppedMeansBlocked ==
  ghost.stopped /\ done.step = "decided" => done.verdict = "malicious"

(* What is rebuilt fits the verdict it is published with: nothing of a file
   that could not be checked, a blocked file by the strict profile only
   (pipeline.py, _should_sanitize and profile_for), and a blocked file from the
   cache not at all. *)
ArtifactFitsVerdict ==
  Published /\ done.artifact # NoArtifact =>
    /\ ~AvOnly => done.verdict \notin UnscannableVerdicts /\ job.mode # "detect"
    /\ done.verdict = "malicious" => done.artifact = "strict" /\ ~AvOnly

(* The answer follows from the facts that are published with it: the verdict
   and the score are those of the facts, the shown findings weigh no more, and
   only the list of trusted files or a failed rebuilding changed the verdict.
   The exception is a thread that outlived its limit and wrote after the
   decision (pipeline.py, _process_full: the result shares the list with the
   context), and then the findings say so. *)
PublishedIsExplained ==
  Published =>
    \/ "STAGE_TIMEOUT" \in Codes(done.findings)
    \/ LET own == VerdictAndScore(done.facts, Policy) IN
       /\ done.score = own[2]
       /\ ScoreOf(done.findings) <= done.score
       /\ CASE done.allowlisted -> own[1] = "malicious" /\ done.verdict = "suspicious"
            [] ~done.allowlisted /\ done.status = "failed" ->
                 done.verdict = ApplyFailure(own[1], Policy)
            [] OTHER -> done.verdict = own[1]

(* The tree is unpacked within one budget, however it is nested: the bytes that
   are written stay below the limit, and so do the passes of the stages
   (archive.py, UnpackBudget). *)
TreeFitsBudget ==
  /\ ghost.written <= MaxUnpacked
  /\ ghost.passes <= 1 + MaxArchiveEntries
  /\ Len(path) <= 2 + MaxArchiveDepth

(* The tree of archives stays within its limits, and what is handed out fits
   the verdict it is published with. *)
PipelineInv == PipelineTypeOK /\ TreeFitsBudget /\ ArtifactFitsVerdict
=============================================================================
