------------------------------- MODULE FileTypes ------------------------------
(***************************************************************************)
(* What a file is: the detector (stages/filetype_detect.py) and the first  *)
(* stage (stages/filetype.py).                                             *)
(*                                                                         *)
(* A file shows its type in its head: the signatures that stand at their   *)
(* place, a PDF signature that comes late, what libmagic says; a ZIP also  *)
(* in the names of its entries (inner); and what follows its end (tail).   *)
(* A type stands for the formats the rest of the code does not tell apart: *)
(* "otherArchive" for the archives that are not ZIP, "binary" for the      *)
(* executables, "media" for every other known format.                      *)
(***************************************************************************)
EXTENDS Naturals, Sequences, FiniteSets, TLC

(* The table, in the order in which it is tried, with the extensions.      *)
Signatures ==
  << "pdf", "jpeg", "png", "gif", "tiff", "zip", "otherArchive", "binary", "media" >>

Extension ==
  [pdf |-> ".pdf", jpeg |-> ".jpg", png |-> ".png", gif |-> ".gif", tiff |-> ".tif",
   zip |-> ".zip", otherArchive |-> ".rar", binary |-> ".exe", media |-> ".mp4",
   docx |-> ".docx", docm |-> ".docm", xlsx |-> ".xlsx", odf |-> ".odf",
   apk |-> ".apk", jar |-> ".jar"]

KnownTypes == {Signatures[i] : i \in DOMAIN Signatures}

DocxTypes == {"docx", "docm"}
ImageTypes == {"jpeg", "png", "gif", "tiff"}
SupportedTypes == {"pdf", "zip"} \cup ImageTypes \cup DocxTypes
ExecutableTypes == {"binary", "jar", "apk"}

GenericTypes == {"octet-stream"}       (* the type is unknown, which is no claim *)
DangerousExtensions == {".exe", ".js"}

-----------------------------------------------------------------------------
(* The detector *)

(* The first row whose signature is there; a PDF may also come late. *)
MatchSignature(file) ==
  LET rows == {i \in DOMAIN Signatures : Signatures[i] \in file.head}
  IN IF rows # {} THEN Signatures[CHOOSE i \in rows : \A j \in rows : i <= j]
     ELSE IF file.late THEN "pdf" ELSE "none"

(* Which container a ZIP is, by the names of its entries, from the most    *)
(* specific on; one that does not open stays a ZIP.                        *)
RefineZip(inner) ==
  IF "unreadable" \in inner THEN "zip"
  ELSE IF {"types", "word"} \subseteq inner
    THEN IF "macroEnabled" \in inner THEN "docm" ELSE "docx"
  ELSE IF {"types", "workbook"} \subseteq inner THEN "xlsx"
  ELSE IF "opendocument" \in inner THEN "odf"
  ELSE IF "dex" \in inner THEN "apk"
  ELSE IF "class" \in inner THEN "jar"
  ELSE "zip"

(* For the sanitizer, that has no libmagic; the stage names it the same. *)
Sniff(file) ==
  LET type == MatchSignature(file) IN IF type = "zip" THEN RefineZip(file.inner) ELSE type

(* Both detectors are sure, of different known types. *)
Conflict(file) ==
  /\ MatchSignature(file) # "none"
  /\ file.magic \in KnownTypes
  /\ file.magic # MatchSignature(file)

-----------------------------------------------------------------------------
(* The stage *)

(* An archive glued on behind the end of a document, where the format has  *)
(* an end that can be told.                                                *)
Polyglot(file) ==
  Sniff(file) \in {"pdf", "jpeg", "png"} /\ file.ended /\ file.tail = "archive"

RequestCodes(file, request) ==
  {"MIME_MISMATCH" : d \in {request.declared} \ (GenericTypes \cup {"", Sniff(file)})}
  \cup {"EXT_DANGEROUS" : e \in {request.ext} \cap DangerousExtensions}
  \cup {"EXT_MISMATCH" : e \in {request.ext} \ {"", Extension[Sniff(file)]}}

TypeCodes(file, request) ==
  IF Sniff(file) = "none" THEN {"TYPE_UNKNOWN"}
  ELSE {"TYPE_UNSUPPORTED" : t \in {Sniff(file)} \ SupportedTypes}
       \cup {"TYPE_EXECUTABLE" : t \in {Sniff(file)} \cap ExecutableTypes}
       \cup {"TYPE_SIGNATURE_OFFSET" : x \in {file.head} \cap {{}}}
       \cup {"TYPE_DETECTOR_CONFLICT" : c \in {Conflict(file)} \cap {TRUE}}
       \cup {"POLYGLOT_ARCHIVE" : p \in {Polyglot(file)} \cap {TRUE}}
       \cup RequestCodes(file, request)
=============================================================================
