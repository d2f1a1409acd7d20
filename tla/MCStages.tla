------------------------------ MODULE MCStages ------------------------------
(* What happens to one file in a worker, in two models, one for a behaviour:
   the pipeline over a tree of archives, and the stage of our own rules while
   the rules change.  What the other one holds stays as it began.

   The archive has two members, one of them an archive of an archive: deeper
   than is unpacked, with more entries than fit, an entry that is too large
   and more declared than the tree has room for.  Of the three contents of the
   directory of rules one does not compile. *)
EXTENDS Pipeline, RuleSet

VARIABLE topic

MCEntries == [up |-> <<"m1", "m2">>, m1 |-> <<"n1">>, m2 |-> <<>>, n1 |-> <<"x">>, x |-> <<>>]

MCDepth == [up |-> 0, m1 |-> 1, m2 |-> 1, n1 |-> 2, x |-> 3]

Rep(codes) == [codes |-> codes, encrypted |-> FALSE, supported |-> TRUE]
Nil == {Rep({})}
Unknown == [Rep({"TYPE_UNKNOWN"}) EXCEPT !.supported = FALSE]
Locked == [Rep({"PDF_ENCRYPTED"}) EXCEPT !.encrypted = TRUE]
Infected == Rep({"AV_SIGNATURE_MATCH"})
Matched == Rep({"YARA:high"})
Quiet == [filetype |-> Nil, structure |-> Nil, clamav |-> Nil, yara |-> Nil]

(* What may be found, by file: nothing at all is always possible. *)
MCReports ==
  [up |-> Quiet, x |-> Quiet,
   m1 |-> [Quiet EXCEPT !.clamav = @ \cup {Infected}],
   n1 |-> [Quiet EXCEPT !.yara = @ \cup {Matched}],
   m2 |-> [Quiet EXCEPT !.filetype = @ \cup {Unknown}, !.structure = @ \cup {Locked}]]

MCEntryKinds ==
  [nature : {"plain"}, size : {1, 2}] \cup [nature : {"password"}, size : {1}]

Ordinary ==
  [block |-> 80, suspicious |-> 30, failMode |-> "suspicious", shadow |-> FALSE,
   deliverBlocked |-> "never", profile |-> "standard"]

Asked ==
  [mode |-> "sanitize", deep |-> FALSE, policy |-> Ordinary, trusted |-> FALSE,
   cached |-> NotCached]

Cached(codes, artifact, stored) ==
  [facts |-> [NoFacts EXCEPT
                !.findings = {Finding("structure", c, DefaultWeights[c]) : c \in codes}],
   artifact |-> artifact, stored |-> stored]

(* An ordinary one, a deep one, one in the shadow whose cached copy is gone,
   one that fails open, and two with a cached structural part. *)
MCJobs ==
  {Asked,
   [Asked EXCEPT !.deep = TRUE],
   [Asked EXCEPT !.policy.shadow = TRUE, !.cached = Cached({}, "standard", FALSE)],
   [Asked EXCEPT !.policy.failMode = "fail-open", !.mode = "detect", !.trusted = TRUE],
   [Asked EXCEPT !.cached = Cached({}, "standard", TRUE)],
   [Asked EXCEPT !.cached = Cached({"DOCX_VBA"}, "none", FALSE), !.trusted = TRUE]}

MCRulesIn == [first |-> {"r1"}, second |-> {"r1", "r2"}, bad |-> {"r1"}]

StagesInit ==
  /\ topic \in {"pipeline", "rules"} /\ PipelineInit /\ RuleSetInit
  /\ topic = "pipeline" => disk = "first" /\ candidateDisk = "second"
  /\ topic = "rules" => job = Asked

PipelineAlone == topic = "pipeline" /\ PipelineNext /\ UNCHANGED <<ruleSetVars, topic>>
RulesAlone == topic = "rules" /\ RuleSetNext /\ UNCHANGED <<pipelineVars, topic>>

(* RuleSetFairness; the pipeline owes nothing. *)
RulesMay(step) == topic = "rules" /\ step

StagesSpec ==
  /\ StagesInit /\ [][PipelineAlone \/ RulesAlone]_<<pipelineVars, ruleSetVars, topic>>
  /\ WF_ruleSetVars(RulesMay(Tick)) /\ SF_ruleSetVars(RulesMay(ApplyControl))
  /\ \A s \in Scanners : WF_ruleSetVars(RulesMay(InsideLock(s)))
=============================================================================
