------------------------------- MODULE Scoring -------------------------------
(***************************************************************************)
(* The risk engine: findings, weights, score and verdict.                  *)
(* vscommon/scoring.py, vscommon/weights.py, and of vscommon/models.py     *)
(* what the engine works on.                                               *)
(*                                                                         *)
(* It has no state.  A finding is [stage, code, score]: the score was      *)
(* filled in by the weight table of the one who added it, which is why a   *)
(* cached finding carries the weights of another tenant.  A set stands for *)
(* the list, for a list never holds a code twice.  Severity and detail do  *)
(* not take part in any decision and are left out.                         *)
(***************************************************************************)
EXTENDS Naturals, FiniteSets, FiniteSetsExt, Functions

Verdicts == {"clean", "suspicious", "malicious", "unsupported", "encrypted", "error"}

UnscannableVerdicts == {"encrypted", "unsupported"}

(* What describes the request, not the file. *)
RequestDerivedCodes == {"MIME_MISMATCH", "EXT_MISMATCH"}

(* Stages without which a file was not checked; our own rules are not one. *)
EssentialStages == {"filetype", "structure", "clamav"}

-----------------------------------------------------------------------------
(* Weights *)

(* The built-in table, by score. *)
Graded ==
  {<<100, {"TYPE_EXECUTABLE", "ARCHIVE_BOMB", "AV_SIGNATURE_MATCH"}>>,
   <<95, {"PDF_EMBEDDED_EXECUTABLE", "YARA:critical"}>>,
   <<90, {"DOCX_DDE"}>>,
   <<85, {"PDF_LAUNCH"}>>,
   <<80, {"DOCX_EXTERNAL_TEMPLATE", "DOCX_EXTERNAL_OBJECT"}>>,
   <<70, {"POLYGLOT_ARCHIVE", "PDF_ANNOT_HIDDEN_ACTION", "PDF_STREAM_BOMB",
          "IMG_PIXEL_BOMB", "ARCHIVE_EXECUTABLE", "DOCX_VBA"}>>,
   <<65, {"IMG_DECOMPRESSION_BOMB"}>>,
   <<60, {"EXT_DANGEROUS", "ARCHIVE_PATH_TRAVERSAL", "DOCX_ACTIVEX",
          "DOCX_FIELD_OBFUSCATED", "DOCX_DTD", "YARA:high"}>>,
   <<50, {"PDF_EMBEDDED_FILE", "PDF_EMBEDDED_NAMES", "DOCX_OLE_OBJECT"}>>,
   <<45, {"TYPE_DETECTOR_CONFLICT", "PDF_OPENACTION", "PDF_JAVASCRIPT",
          "PDF_TRAILING_DATA", "ARCHIVE_SYMLINK", "DOCX_ALTCHUNK"}>>,
   <<40, {"PDF_AUTO_ACTION", "PDF_JS", "PDF_ENCRYPTED", "PDF_DEEP_NESTING",
          "PDF_ANNOT_AUTO_ACTION", "PDF_UNUSUAL_FILTER", "ARCHIVE_ENCRYPTED"}>>,
   <<35, {"TYPE_SIGNATURE_OFFSET", "PDF_RICHMEDIA", "PDF_MALFORMED",
          "PDF_IMPORTDATA", "PDF_XREF_BROKEN", "PDF_TOO_MANY_OBJECTS",
          "PDF_ANNOT_ACTION", "PDF_FONT_OVERSIZED", "IMG_MALFORMED",
          "ARCHIVE_MALFORMED", "DOCX_MALFORMED", "YARA:medium"}>>,
   <<30, {"TYPE_UNSUPPORTED", "PDF_XFA", "PDF_GOTOE", "PDF_SUBMITFORM",
          "PDF_TOO_MANY_PAGES", "PDF_RENDITION", "PDF_XREF_RECONSTRUCTED",
          "PDF_DAMAGED", "PDF_FILTER_CHAIN", "IMG_TOO_MANY_FRAMES",
          "ARCHIVE_INCOMPLETE", "DOCX_FIELD_INCLUDE", "DOCX_EXTERNAL_LINK"}>>,
   <<25, {"TYPE_UNKNOWN", "MIME_MISMATCH", "PDF_JBIG2", "PDF_MOVIE",
          "PDF_SOUND", "PDF_TOO_MANY_FONTS"}>>,
   <<20, {"PDF_ENCRYPTED_OWNER", "PDF_STREAM_LENGTH_MISMATCH"}>>,
   <<15, {"EXT_MISMATCH", "PDF_GOTOR", "PDF_SETOCGSTATE", "YARA:low"}>>,
   <<10, {"PDF_EXTERNAL_URI", "PDF_INCREMENTAL_UPDATES", "DOCX_EMBEDDED",
          "AV_ERROR", "STAGE_FAILED", "STAGE_TIMEOUT"}>>,
   <<5, {"PDF_OBJSTM"}>>,
   <<0, {"PDF_FONT_EMBEDDED", "IMG_HAS_EXIF", "CDR_FAILED"}>>}

DefaultWeights ==
  [c \in UNION {row[2] : row \in Graded} |-> (CHOOSE row \in Graded : c \in row[2])[1]]

Fallback == 25

RuleFor(table, key) == IF key \in DOMAIN table THEN table[key] ELSE Fallback

(* One table over another. *)
Over(table, base) ==
  [c \in DOMAIN table \cup DOMAIN base |-> IF c \in DOMAIN table THEN table[c] ELSE base[c]]

(* A tenant's own scores over the common table. *)
WithOverrides(table, overrides) == Over(overrides, table)

(* The table at start and after an edit: what the file says over the built-in
   one.  No file, and one that cannot be read, say nothing. *)
LoadTable(file) == Over(file, DefaultWeights)

Families ==
  [pdf_broken |-> {"PDF_DAMAGED", "PDF_MALFORMED", "PDF_XREF_BROKEN",
                   "PDF_XREF_RECONSTRUCTED", "PDF_STREAM_LENGTH_MISMATCH"},
   pdf_js |-> {"PDF_JAVASCRIPT", "PDF_JS"},
   pdf_autorun |-> {"PDF_OPENACTION", "PDF_AUTO_ACTION"},
   pdf_embedded |-> {"PDF_EMBEDDED_FILE", "PDF_EMBEDDED_NAMES"},
   pdf_annot |-> {"PDF_ANNOT_ACTION", "PDF_ANNOT_HIDDEN_ACTION"},
   type_lie |-> {"MIME_MISMATCH", "EXT_MISMATCH"},
   type_unsupported |-> {"TYPE_UNKNOWN", "TYPE_UNSUPPORTED", "ARCHIVE_INCOMPLETE"},
   archive_escape |-> {"ARCHIVE_PATH_TRAVERSAL", "ARCHIVE_SYMLINK"},
   container_broken |-> {"ARCHIVE_MALFORMED", "DOCX_MALFORMED"},
   docx_remote |-> {"DOCX_EXTERNAL_TEMPLATE", "DOCX_EXTERNAL_OBJECT", "DOCX_EXTERNAL_LINK"},
   docx_field |-> {"DOCX_DDE", "DOCX_FIELD_OBFUSCATED", "DOCX_FIELD_INCLUDE"},
   docx_embedded |-> {"DOCX_OLE_OBJECT", "DOCX_EMBEDDED"}]

CodeFamilies ==
  [c \in UNION {Families[n] : n \in DOMAIN Families} |->
     CHOOSE n \in DOMAIN Families : c \in Families[n]]

FamilyOf(code) == IF code \in DOMAIN CodeFamilies THEN CodeFamilies[code] ELSE code

-----------------------------------------------------------------------------
(* Findings and facts *)

Codes(findings) == {f.code : f \in findings}

Finding(stage, code, score) == [stage |-> stage, code |-> code, score |-> score]

(* A stage tells what it found; a code found twice counts once.  The weight of
   a rule of ours goes by the rule's tag, not by its name. *)
AddWeighed(findings, stage, code, key, table) ==
  IF code \in Codes(findings) THEN findings
  ELSE findings \cup {Finding(stage, code, RuleFor(table, key))}

Add(findings, stage, code, table) == AddWeighed(findings, stage, code, code, table)

(* The first finding of a code is the one that stays. *)
Join(findings, more) == findings \cup {f \in more : f.code \notin Codes(findings)}

NoFacts == [findings |-> {}, encrypted |-> FALSE, supported |-> TRUE, failed |-> {}]

Merge(facts, other) ==
  [findings |-> Join(facts.findings, other.findings),
   encrypted |-> facts.encrypted \/ other.encrypted,
   supported |-> facts.supported /\ other.supported,
   failed |-> facts.failed \cup other.failed]

-----------------------------------------------------------------------------
(* Score and verdict *)

Strongest(findings, family) ==
  Max({f.score : f \in {g \in findings : FamilyOf(g.code) = family}})

ScoreOf(findings) ==
  IF \E f \in findings : f.score >= 100 THEN 100
  ELSE LET best == [family \in {FamilyOf(c) : c \in Codes(findings)} |->
                      Strongest(findings, family)]
       IN  Min({100, SumFunction(best)})

CoverageIncomplete(facts) == facts.failed \cap EssentialStages # {}

VerdictOnFailure(policy) ==
  CASE policy.failMode = "fail-open" -> "clean"
    [] policy.failMode = "fail-closed" -> "malicious"
    [] OTHER -> "suspicious"

ApplyFailure(current, policy) ==
  IF current = "clean" THEN VerdictOnFailure(policy) ELSE current

(* A file that could not be checked is shown with at least the score from
   which a file is suspicious. *)
Lifted(score, policy) == Max({score, policy.suspicious})

VerdictAndScore(facts, policy) ==
  LET score == ScoreOf(facts.findings)
      degraded == ApplyFailure("clean", policy)
  IN  IF score >= policy.block THEN <<"malicious", score>>
      ELSE IF facts.encrypted THEN <<"encrypted", Lifted(score, policy)>>
      ELSE IF ~facts.supported THEN <<"unsupported", Lifted(score, policy)>>
      ELSE IF score >= policy.suspicious THEN <<"suspicious", score>>
      ELSE IF CoverageIncomplete(facts)
           THEN <<degraded, IF degraded = "clean" THEN score ELSE Lifted(score, policy)>>
           ELSE <<"clean", score>>

VerdictOf(facts, policy) == VerdictAndScore(facts, policy)[1]

(* Nothing more needs checking once the file is blocked, except where the
   tenant wants to see what else would have been found. *)
ShouldStopEarly(facts, policy) ==
  ~policy.shadow /\ ScoreOf(facts.findings) >= policy.block
=============================================================================
