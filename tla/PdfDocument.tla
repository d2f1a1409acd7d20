------------------------------ MODULE PdfDocument -----------------------------
(***************************************************************************)
(* A PDF document, what the stage finds in it (stages/pdf_structure.py and *)
(* stages/structure.py) and how the sanitizer writes another one           *)
(* (cdr/pdf.py).                                                           *)
(*                                                                         *)
(* A document is a record.  Its graph is a set of entries [at, key, does]: *)
(* a key of the object at that place and the name of the action, subtype   *)
(* or object it holds, "dest" where it is a destination.  What hangs under *)
(* /AcroForm or /Names alone is at "form" or "names", the dictionary of a  *)
(* form field that a widget leads to as well (/Parent) at "field", what an *)
(* action of an annotation that stays leads to (/Next) at "next", the      *)
(* dictionary of a stream at "stream".  The graph is walked as a whole:    *)
(* the bound on the steps of a walk is not in the model.                   *)
(***************************************************************************)
EXTENDS Naturals, FiniteSets

Entry(at, key, does) == [at |-> at, key |-> key, does |-> does]

SuspiciousActions ==
  {"Launch", "JavaScript", "JS", "SubmitForm", "ImportData", "GoToE", "GoToR",
   "Rendition", "Movie", "Sound"}

(* Names long enough to be looked for in bytes, and their codes. *)
PdfMarkers ==
  [JavaScript |-> "PDF_JAVASCRIPT", Launch |-> "PDF_LAUNCH",
   EmbeddedFile |-> "PDF_EMBEDDED_FILE", RichMedia |-> "PDF_RICHMEDIA",
   GoToE |-> "PDF_GOTOE", GoToR |-> "PDF_GOTOR", SubmitForm |-> "PDF_SUBMITFORM",
   ImportData |-> "PDF_IMPORTDATA", SetOCGState |-> "PDF_SETOCGSTATE",
   Rendition |-> "PDF_RENDITION", Movie |-> "PDF_MOVIE", Sound |-> "PDF_SOUND",
   JBIG2Decode |-> "PDF_JBIG2", ObjStm |-> "PDF_OBJSTM"]

(* Names too short for that: by the graph, in bytes where there is none. *)
ShortKeys == [JS |-> "PDF_JS", XFA |-> "PDF_XFA"]
FallbackMarkers ==
  [OpenAction |-> "PDF_OPENACTION", AA |-> "PDF_AUTO_ACTION", JS |-> "PDF_JS", XFA |-> "PDF_XFA"]

(* Codes of streams, fonts, pages and objects, which the sanitizer neither *)
(* looks at nor changes; drawn pages have none of them.                    *)
SubstanceCodes ==
  {"PDF_TOO_MANY_PAGES", "PDF_TOO_MANY_OBJECTS", "PDF_DEEP_NESTING", "PDF_FONT_EMBEDDED",
   "PDF_TOO_MANY_FONTS", "PDF_FONT_OVERSIZED", "PDF_UNUSUAL_FILTER", "PDF_FILTER_CHAIN",
   "PDF_STREAM_LENGTH_MISMATCH", "PDF_STREAM_BOMB", "PDF_EMBEDDED_EXECUTABLE"}

(* Complaints of qpdf, gone once the file is written anew. *)
WarningCodes == {"PDF_XREF_RECONSTRUCTED", "PDF_DAMAGED", "PDF_XREF_BROKEN"}

(* What is of another kind than the format says, in a document that opens: *)
(* the flags of an annotation, the size of a font (no numbers), an         *)
(* annotation or its action (no dictionary).                               *)
Oddities == {"flags", "fonts", "annot"}

EmptyPdf ==
  [graph |-> {}, odd |-> {}, hidden |-> FALSE, opens |-> "yes", packed |-> FALSE, info |-> FALSE,
   uri |-> FALSE, substance |-> {}, warnings |-> {}, revisions |-> 1, eof |-> TRUE,
   startxref |-> TRUE, tail |-> FALSE, draws |-> TRUE]

PdfDocuments ==
  [graph : SUBSET [at : STRING, key : STRING, does : STRING], odd : SUBSET Oddities,
   hidden : BOOLEAN, opens : {"yes", "owner", "password", "broken"}, packed : BOOLEAN,
   info : BOOLEAN, uri : BOOLEAN, substance : SUBSET SubstanceCodes, warnings : SUBSET WarningCodes,
   revisions : Nat, eof : BOOLEAN, startxref : BOOLEAN, tail : BOOLEAN, draws : BOOLEAN]

(* Keys that start something stand where the format knows them, never in   *)
(* the dictionary of a stream, and what opens can be drawn.                *)
KeysFit(pdf) ==
  /\ \A x \in pdf.graph :
       /\ x.key = "OpenAction" => x.at = "root"
       /\ x.key = "AA" => x.at \in {"root", "page", "annot", "form", "field"}
       /\ x.at = "stream" => x.does \notin DOMAIN FallbackMarkers
  /\ pdf.opens \in {"yes", "owner"} => pdf.draws

-----------------------------------------------------------------------------
(* The stage *)

NamesOf(entries) == {x.key : x \in entries} \cup {x.does : x \in entries}

(* Objects that are packed into a compressed stream show nothing in bytes; *)
(* the dictionary of a stream is never packed.                             *)
VisibleNames(pdf) ==
  IF pdf.packed THEN {"ObjStm"} \cup NamesOf({x \in pdf.graph : x.at = "stream"})
  ELSE NamesOf(pdf.graph)

XrefCodes(pdf) ==
  {"PDF_INCREMENTAL_UPDATES" : r \in {pdf.revisions} \ {1}}
  \cup IF ~pdf.eof THEN {"PDF_XREF_BROKEN"}
       ELSE {"PDF_TRAILING_DATA" : t \in {pdf.tail} \cap {TRUE}}
            \cup {"PDF_XREF_BROKEN" : s \in {pdf.startxref} \cap {FALSE}}

ByteCodes(pdf) ==
  {PdfMarkers[n] : n \in VisibleNames(pdf) \cap DOMAIN PdfMarkers}
  \cup {"PDF_EXTERNAL_URI" : u \in {pdf.uri} \cap {TRUE}}
  \cup XrefCodes(pdf)

(* What starts by itself is judged by the action it starts. *)
AutoCodes(pdf) ==
  {"PDF_OPENACTION" : x \in {x \in pdf.graph :
     x.at = "root" /\ x.key = "OpenAction" /\ x.does \in SuspiciousActions}}
  \cup {"PDF_AUTO_ACTION" : x \in {x \in pdf.graph :
     x.at \in {"root", "page"} /\ x.key = "AA" /\ x.does \in SuspiciousActions}}

AnnotationCodes(pdf) ==
  LET acting == {x \in pdf.graph : x.at = "annot" /\ x.key = "A" /\ x.does \in SuspiciousActions}
  IN {"PDF_ANNOT_ACTION" : x \in acting}
     \cup {"PDF_ANNOT_HIDDEN_ACTION" : x \in IF pdf.hidden THEN acting ELSE {}}
     \cup {"PDF_ANNOT_AUTO_ACTION" : x \in {x \in pdf.graph : x.at = "annot" /\ x.key = "AA"}}

(* The walk takes the annotations after the pages, the objects and their   *)
(* depth, then the fonts, then the streams, and reports annotations and    *)
(* fonts when it is through with them.  A number that is none ends it.     *)
BeforeAnnotations == {"PDF_TOO_MANY_PAGES", "PDF_TOO_MANY_OBJECTS", "PDF_DEEP_NESTING"}
WalkBreaks(pdf) == "flags" \in pdf.odd \/ "fonts" \in pdf.odd

GraphCodes(pdf) ==
  AutoCodes(pdf) \cup pdf.warnings
  \cup {ShortKeys[x.key] : x \in {x \in pdf.graph : x.key \in DOMAIN ShortKeys}}
  \cup (IF "flags" \in pdf.odd THEN {} ELSE AnnotationCodes(pdf))
  \cup (IF WalkBreaks(pdf) THEN pdf.substance \cap BeforeAnnotations ELSE pdf.substance)

(* A document that is not read to its end is judged by its bytes. *)
UnparsedCodes(pdf) ==
  {FallbackMarkers[n] : n \in VisibleNames(pdf) \cap DOMAIN FallbackMarkers}

MalformedCodes(pdf) == UnparsedCodes(pdf) \cup {"PDF_MALFORMED"}

ParsedCodes(pdf) ==
  GraphCodes(pdf) \cup (IF WalkBreaks(pdf) THEN MalformedCodes(pdf) ELSE {})

PdfCodes(pdf) ==
  ByteCodes(pdf)
  \cup CASE pdf.opens = "yes" -> ParsedCodes(pdf)
         [] pdf.opens = "owner" -> ParsedCodes(pdf) \cup {"PDF_ENCRYPTED_OWNER"}
         [] pdf.opens = "password" -> UnparsedCodes(pdf) \cup {"PDF_ENCRYPTED"}
         [] pdf.opens = "broken" -> MalformedCodes(pdf)

-----------------------------------------------------------------------------
(* The sanitizer *)

RootKeysToDrop == {"OpenAction", "AA", "AcroForm", "Names", "JavaScript", "EmbeddedFiles"}
PageKeysToDrop == {"AA", "JS", "JavaScript"}
AnnotActionsToDrop == {"JavaScript", "Launch", "GoToE", "GoToR", "SubmitForm", "ImportData"}

(* Of a form the root's key goes; a field that a widget leads to stays. *)
Dropped(x) ==
  \/ x.at = "root" /\ x.key \in RootKeysToDrop
  \/ x.at = "form" \/ x.at = "names"
  \/ x.at = "page" /\ x.key \in PageKeysToDrop
  \/ x.at = "annot" /\ x.key = "A" /\ x.does \in AnnotActionsToDrop
  \/ x.at = "annot" /\ x.key = "AA"

(* What the file looks like once it is written anew: unencrypted, in one   *)
(* revision, its objects packed.                                           *)
Written(pdf) ==
  [pdf EXCEPT !.opens = "yes", !.packed = TRUE, !.warnings = {}, !.revisions = 1,
              !.eof = TRUE, !.startxref = TRUE, !.tail = FALSE, !.uri = FALSE]

(* An annotation is asked for its action without asking what it is. *)
PdfRebuildFails(pdf) == pdf.opens \notin {"yes", "owner"} \/ "annot" \in pdf.odd

RebuiltPdf(pdf, profile) ==
  [Written(pdf) EXCEPT
     !.graph = {x \in @ : ~Dropped(x)},
     !.info = @ /\ profile # "standard"]

(* Pages as pictures, in a document that was not there before; ghostscript
   draws what it can open (draws). *)
Drawn(pdf) == EmptyPdf

-----------------------------------------------------------------------------
(* The check *)

(* The graph is read without a number being asked for, so nothing breaks it. *)
ByteMarkers == {"JavaScript", "EmbeddedFile", "RichMedia", "Launch"}
ActionHolders == {"OpenAction", "AA"}

PdfProblems(pdf) ==
  (VisibleNames(pdf) \cap ByteMarkers)
  \cup {x.key : x \in {x \in pdf.graph : x.key \in DOMAIN ShortKeys}}
  \cup {x.key : x \in {x \in pdf.graph : x.key \in ActionHolders /\ x.does \in SuspiciousActions}}
=============================================================================
