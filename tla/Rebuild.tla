-------------------------------- MODULE Rebuild -------------------------------
(***************************************************************************)
(* The rebuilding of a file (CDR), an archive of archives included: what   *)
(* Sanitizers says of a file by itself, applied to the members of a tree   *)
(* within its limits, and a file on its way through detection, analysis,   *)
(* rebuilding and check (cdr/registry.py, cdr/archive.py, archive.py,      *)
(* stages/archive_structure.py).                                           *)
(***************************************************************************)
EXTENDS Sanitizers

CONSTANTS
  Files,          \* the files that may come, each with what the request says of it
  Profiles,       \* of CdrProfile: light, standard, strict
  MaxDepth,       \* MAX_ARCHIVE_DEPTH
  MaxEntries      \* MAX_ARCHIVE_ENTRIES

ASSUME RebuildAssumption ==
  /\ Profiles \subseteq {"light", "standard", "strict"}
  /\ \A f \in Files : WellFormed(f.file)
  /\ {MaxDepth, MaxEntries} \subseteq Nat

VARIABLES
  phase,          \* how far the file got
  subject,        \* the file of Files
  profile,        \* the profile it is rebuilt with
  codes,          \* what the stages filetype and structure reported
  output          \* the file the sanitizer wrote: none or one

rebuildVars == <<phase, subject, profile, codes, output>>

-----------------------------------------------------------------------------
(* Archives *)

(* What the listing makes members of, and what the sanitizer extracts. *)
Selected(zip) == SelectSeq(zip.entries, LAMBDA x : x.role = "file")
Extracted(zip) == SelectSeq(zip.entries, LAMBDA x : IsMember(zip, x))

Incomplete(zip, depth) == "incomplete" \in zip.listing \/ depth > MaxDepth

(* How many members are charged to the budget of the tree: a nested        *)
(* archive is listed when it is rebuilt and once more when its new file is *)
(* checked, both in the budget of the outer one.  The new file has what    *)
(* was extracted from the old one.                                         *)
Nested(zip) == SelectSeq(Extracted(zip), LAMBDA x : Sniff(x.file) = "zip")

RECURSIVE CheckCost(_)
CheckCost(zip) ==
  FoldLeft(LAMBDA sum, x : sum + CheckCost(x.file.body), Len(Extracted(zip)), Nested(zip))

RECURSIVE RebuildCost(_)
RebuildCost(zip) ==
  FoldLeft(LAMBDA sum, x : sum + RebuildCost(x.file.body) + CheckCost(x.file.body),
           Len(Selected(zip)), Nested(zip))

-----------------------------------------------------------------------------
(* The stages filetype and structure; the members of an archive are        *)
(* checked in the same way, without what the request said of the archive,  *)
(* and what they have is what the archive has.  Of an archive that does    *)
(* not open ("broken") no more is known.                                   *)

RECURSIVE CodesOf(_, _, _)
CodesOf(file, request, depth) ==
  IF Sniff(file) # "zip" THEN CodesAlone(file, request)
  ELSE IF "broken" \in file.body.listing THEN TypeCodes(file, request) \cup {"ARCHIVE_MALFORMED"}
  ELSE TypeCodes(file, request)
       \cup ArchiveProblems(file.body)
       \cup {"ARCHIVE_INCOMPLETE" : x \in {Incomplete(file.body, depth)} \cap {TRUE}}
       \cup UNION {CodesOf(x.file, NoRequest, depth + 1) : x \in ToSet(Selected(file.body))}

-----------------------------------------------------------------------------
(* The check, by the sniffed type of what was built. *)

RECURSIVE ProblemsOf(_, _)
ProblemsOf(file, depth) ==
  IF Sniff(file) # "zip" THEN ProblemsAlone(file)
  ELSE ArchiveProblems(file.body)
       \cup {"incomplete" : x \in {Incomplete(file.body, depth)
                                     \/ CheckCost(file.body) > MaxEntries} \cap {TRUE}}
       \cup {"os_metadata" : x \in {x \in ToSet(file.body.entries) : x.role = "metadata"}}
       \cup UNION {ProblemsOf(x.file, depth + 1) : x \in ToSet(Selected(file.body))}

(* The sanitizers, and the registry that checks what each of them wrote. *)

RECURSIVE Sanitized(_, _, _)
Sanitized(file, prof, depth) ==
  IF file.large \/ Sniff(file) # "zip" THEN SanitizedAlone(file, prof)
  ELSE LET zip == file.body
           (* What is empty has no type, and nothing rebuilds it. *)
           RebuiltMember(x) == IF x.role = "empty" THEN {}
                               ELSE {f \in Sanitized(x.file, prof, depth + 1) :
                                       ProblemsOf(f, depth + 1) = {}}
           results == [i \in DOMAIN zip.entries |->
                         IF IsMember(zip, zip.entries[i]) THEN RebuiltMember(zip.entries[i])
                         ELSE {file}]
       IN IF \/ Incomplete(zip, depth) \/ zip.listing # {}
             \/ RebuildCost(zip) > MaxEntries
             \/ \E i \in DOMAIN results : results[i] = {}
            THEN {} ELSE {File("zip", Packed(zip, results))}

-----------------------------------------------------------------------------
(* A file on its way *)

RebuildInit ==
  /\ profile \in Profiles
  /\ subject \in Files
  /\ phase = "received"
  /\ codes = {} /\ output = {}

DetectType ==
  /\ phase = "received"
  /\ codes' = TypeCodes(subject.file, subject.request)
  /\ phase' = "typed"
  /\ UNCHANGED <<subject, profile, output>>

Analyse ==
  /\ phase = "typed"
  /\ codes' = codes \cup CodesOf(subject.file, subject.request, 0)
  /\ phase' = "analysed"
  /\ UNCHANGED <<subject, profile, output>>

(* What could not be checked is not rebuilt either. *)
Withhold ==
  /\ phase = "analysed" /\ codes \cap UnscannableCodes # {}
  /\ phase' = "withheld"
  /\ UNCHANGED <<subject, profile, codes, output>>

Sanitize ==
  /\ phase = "analysed" /\ codes \cap UnscannableCodes = {}
  /\ output' = Sanitized(subject.file, profile, 0)
  /\ phase' = IF output' = {} THEN "refused" ELSE "rebuilt"
  /\ UNCHANGED <<subject, profile, codes>>

(* A file with leftovers is removed, never handed out. *)
Verify ==
  /\ phase = "rebuilt"
  /\ IF \A f \in output : ProblemsOf(f, 0) = {}
       THEN phase' = "delivered" /\ UNCHANGED output
       ELSE phase' = "refused" /\ output' = {}
  /\ UNCHANGED <<subject, profile, codes>>

RebuildNext == DetectType \/ Analyse \/ Withhold \/ Sanitize \/ Verify

RebuildSpec == RebuildInit /\ [][RebuildNext]_rebuildVars

-----------------------------------------------------------------------------
(* Properties *)

RebuildTypeOK ==
  /\ phase \in {"received", "typed", "analysed", "withheld", "rebuilt", "delivered", "refused"}
  /\ profile \in Profiles
  /\ Cardinality(output) <= 1
  /\ (output # {}) = (phase \in {"rebuilt", "delivered"})

Findings(file) == CodesOf(file, OwnRequest(file), 0)

(* What the sanitizer wrote and its check accepted is, for the stages that read
   the upload, a file without active content, of the type and with the extension
   it is handed out with: two descriptions of what is dangerous, one that finds
   and one that removes, agree.  Of a PDF whose numbers broke the walk over its
   graph (structure.py, _scan_pdf_parsed) the sanitizer keeps the numbers: of its
   copy the stage says, as of the upload, that it is malformed, and no more. *)
DeliveredIsQuiet ==
  phase = "delivered" =>
    \A f \in output : Findings(f) \cap NeverDelivered \subseteq codes \cap {"PDF_MALFORMED"}

(* Of a drawn or retyped document nothing is left that any stage would name. *)
StrictIsBare ==
  phase = "delivered" /\ profile = "strict" /\ Sniff(subject.file) \in {"pdf"} \cup DocxTypes =>
    \A f \in output : Findings(f) = {}

(* What the sanitizers say they do not rebuild, and a tree of archives that is
   twice too much for its budget. *)
RECURSIVE Rebuildable(_)
Rebuildable(file) ==
  /\ RebuildableAlone(file)
  /\ Sniff(file) = "zip" =>
       /\ RebuildCost(file.body) <= MaxEntries
       /\ \A x \in ToSet(Selected(file.body)) : Rebuildable(x.file)

(* What the archive is refused for with no more than a notice: a name that cleaning
   leaves on a drive (archive.py, safe_name against escapes_root), an empty entry or
   a link with the name of a member (cdr/archive.py, selected), and a member the
   sanitizer of its own type stumbles over. *)
RECURSIVE Stumbles(_)
Stumbles(file) ==
  IF Sniff(file) # "zip" THEN StumblesAlone(file)
  ELSE \E x \in ToSet(file.body.entries) :
         \/ x.role \in {"file", "empty"} /\ EscapesRoot(SafeName(x.name))
         \/ x.role # "file" /\ IsMember(file.body, x)
         \/ x.role = "file" /\ Stumbles(x.file)

(* A check that refuses what the sanitizer just made harmless keeps an ordinary
   file from its owner: whatever is taken out of a document, what is left passes,
   but for what no stage warns of and the sanitizer stumbles over. *)
OrdinaryIsDelivered ==
  phase = "refused" =>
    \/ ~(codes \subseteq Notices)
    \/ ~Rebuildable(subject.file) \/ Stumbles(subject.file)

(* A rebuilt document opens. *)
DocumentIsWhole ==
  phase = "delivered" /\ Sniff(subject.file) \in DocxTypes =>
    \A f \in output : WholeDocument(subject.file.body, f.body, profile)

(* An archive comes back with every file it had, under a name of its own. *)
ArchiveIsComplete ==
  phase = "delivered" /\ Sniff(subject.file) = "zip" =>
    \A f \in output : CompleteArchive(subject.file.body, f.body)

(* What comes out is a whole file: a document that opens, an archive with all
   its members, and of the strict profile nothing but what can be seen. *)
RebuiltIsWhole == RebuildTypeOK /\ DocumentIsWhole /\ ArchiveIsComplete /\ StrictIsBare
=============================================================================
