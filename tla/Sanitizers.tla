------------------------------ MODULE Sanitizers ------------------------------
(***************************************************************************)
(* What is done with a file that is not an archive: the parser of its type *)
(* reports what is in it, the sanitizer of that type writes a new one, and *)
(* the check of the same sanitizer accepts or refuses it (cdr/pdf.py,      *)
(* cdr/image.py, cdr/docx.py, stages/structure.py over FileTypes,          *)
(* PdfDocument and WordPackage); and the names under which the members of  *)
(* an archive are written (cdr/archive.py).  Rebuild puts archives around. *)
(*                                                                         *)
(* A file is a record of what shows its type (FileTypes) and a body: a     *)
(* PDF document, a package, an image or the entries of an archive, which   *)
(* hold files again.  A sanitizer gives a set of files, empty where it     *)
(* raises: SanitizeError is the only way out for whatever went wrong.      *)
(***************************************************************************)
EXTENDS FileTypes, PdfDocument, WordPackage

File(type, body) ==
  [head |-> {IF type \in DocxTypes THEN "zip" ELSE type}, late |-> FALSE, magic |-> type,
   inner |-> IF type = "docx" THEN {"types", "word"}
             ELSE IF type = "docm" THEN {"types", "word", "macroEnabled"} ELSE {},
   tail |-> "none", ended |-> TRUE, large |-> FALSE, body |-> body]

NoRequest == [declared |-> "", ext |-> ""]

-----------------------------------------------------------------------------
(* Images: pixels are few, more than allowed, or so many that Pillow does  *)
(* not open the file at all; a whole one has all the data its header       *)
(* promises. *)

CleanImage == [pixels |-> "few", dense |-> FALSE, frames |-> FALSE, exif |-> FALSE,
               icc |-> FALSE, readable |-> TRUE, whole |-> TRUE]

(* The stage reads the header alone, the sanitizer the pixels. *)
Opens(image) == image.readable /\ image.pixels # "bomb"
Loads(image) == Opens(image) /\ image.whole

ImageCodes(image) ==
  IF ~Opens(image) THEN {"IMG_MALFORMED"}
  ELSE {"IMG_PIXEL_BOMB" : p \in {image.pixels} \cap {"many"}}
       \cup {"IMG_DECOMPRESSION_BOMB" : d \in {image.dense} \cap {TRUE}}
       \cup {"IMG_TOO_MANY_FRAMES" : f \in {image.frames} \cap {TRUE}}
       \cup {"IMG_HAS_EXIF" : e \in {image.exif} \cap {TRUE}}

OutputFor(type, prof) == IF prof = "strict" \/ type = "jpeg" THEN "jpeg" ELSE "png"

(* Mutant: every frame of an animation is saved. *)
RebuiltImageAnimated(file, prof) ==
  {File(OutputFor(Sniff(file), prof), [f.body EXCEPT !.exif = FALSE, !.icc = FALSE])
   : f \in {f \in {file} : Loads(f.body)}}

(* The pixels in a new file, without a piece of the old one. *)
RebuiltImage(file, prof) ==
  {File(OutputFor(Sniff(file), prof),
        [CleanImage EXCEPT !.pixels = file.body.pixels, !.dense = file.body.dense])
   : f \in {f \in {file} : Loads(f.body)}}

ImageProblems(file) ==
  {"exif" : e \in {file.body.exif} \cap {TRUE}}
  \cup {"icc_profile" : i \in {file.body.icc} \cap {TRUE}}
  \cup {"trailing_data" : t \in IF Sniff(file) = "jpeg" THEN {file.tail} \ {"none"} ELSE {}}

-----------------------------------------------------------------------------
(* A file by itself, for the stages filetype and structure: its type, and  *)
(* what the parser of that type reports.                                   *)

CodesAlone(file, request) ==
  TypeCodes(file, request)
  \cup CASE Sniff(file) = "pdf" -> PdfCodes(file.body)
         [] Sniff(file) \in ImageTypes -> ImageCodes(file.body)
         [] Sniff(file) \in DocxTypes -> StageCodes(file.body)
         [] OTHER -> {}

(* What the stages could not look at; such a file is not rebuilt. *)
UnscannableCodes ==
  {"TYPE_UNKNOWN", "TYPE_UNSUPPORTED", "PDF_ENCRYPTED", "ARCHIVE_ENCRYPTED",
   "ARCHIVE_INCOMPLETE", "ARCHIVE_MALFORMED", "DOCX_MALFORMED"}

(* The check, by the sniffed type of what was built. *)
ProblemsAlone(file) ==
  CASE Sniff(file) = "pdf" -> PdfProblems(file.body)
    [] Sniff(file) \in ImageTypes -> ImageProblems(file)
    [] Sniff(file) \in DocxTypes -> PackageProblems(file.body)
    [] OTHER -> {"type"}

(* The sanitizers *)

SanitizedPdf(file, prof) ==
  IF prof = "strict"
    THEN {File("pdf", Drawn(f.body)) : f \in {f \in {file} : f.body.draws}}
    ELSE {File("pdf", RebuiltPdf(f.body, prof)) : f \in {f \in {file} : ~PdfRebuildFails(f.body)}}

SanitizedDocx(file, prof) ==
  LET pkg == file.body
      type == IF pkg.main = "macroDocument" THEN "docm" ELSE "docx"
  IN IF Refuses(pkg) THEN {}
     ELSE IF prof = "strict"
       THEN IF StrictFails(pkg) THEN {} ELSE {File(type, FromText(pkg))}
     ELSE IF RebuildFails(pkg, Keep(pkg, prof)) THEN {} ELSE {File(type, Rebuilt(pkg, prof))}

SanitizedAlone(file, prof) ==
  IF file.large THEN {}
  ELSE CASE Sniff(file) = "pdf" -> SanitizedPdf(file, prof)
         [] Sniff(file) \in ImageTypes -> RebuiltImage(file, prof)
         [] Sniff(file) \in DocxTypes -> SanitizedDocx(file, prof)
         [] OTHER -> {}

-----------------------------------------------------------------------------
(* Archives.  A name is [stem, upper, n, ext, leads]: the stem, written in *)
(* capitals or not, the number that makes it unique, the extension, and    *)
(* where the path leads: inside; out of the directory, by a part that goes *)
(* when the name is cleaned ("../x", "/x", "C:/x"); to a drive, by a part  *)
(* that stays ("C:x"); to a drive once what stands before it is gone       *)
(* ("./C:x").  The listing makes members of what is a file and not empty.  *)

ArchiveEntry(stem, ext, role, file) ==
  [name |-> [stem |-> stem, upper |-> FALSE, n |-> 1, ext |-> ext, leads |-> "inside"],
   role |-> role, file |-> file]

EscapesRoot(name) == name.leads \in {"out", "drive"}
ExecutableNames == {".exe", ".js"}

ArchiveProblems(zip) ==
  LET entries == ToSet(zip.entries)
  IN {"ARCHIVE_PATH_TRAVERSAL" : x \in {x \in entries : EscapesRoot(x.name)}}
     \cup {"ARCHIVE_SYMLINK" : x \in {x \in entries : x.role = "link"}}
     \cup {"ARCHIVE_EXECUTABLE" : x \in {x \in entries : x.name.ext \in ExecutableNames}}
     \cup {ListingCode[l] : l \in zip.listing \cap {"bomb", "encrypted"}}

(* The sanitizer knows the members by their names, and takes for a member  *)
(* whatever else in the archive has the name of one.                       *)
IsMember(zip, entry) ==
  /\ entry.role # "metadata"
  /\ \E x \in ToSet(zip.entries) : x.role = "file" /\ x.name = entry.name

(* GIF comes out as PNG and must not keep its name; .jpeg may. *)
Renamed(name, suffix) ==
  IF name.ext = suffix \/ {name.ext, suffix} \in {{".jpg", ".jpeg"}, {".tif", ".tiff"}}
    THEN name ELSE [name EXCEPT !.ext = suffix]

Folded(name) == [name EXCEPT !.upper = FALSE]

Unique(name, taken) ==
  LET free == {n \in 1 .. Cardinality(taken) + 1 : Folded([name EXCEPT !.n = n]) \notin taken}
  IN [name EXCEPT !.n = CHOOSE n \in free : \A k \in free : n <= k]

(* Only a part that is a drive and no more is dropped with the dots. *)
SafeName(name) ==
  [name EXCEPT !.leads = IF @ \in {"drive", "behind"} THEN "drive" ELSE "inside"]

Put(out, name, role, file) ==
  LET unique == Unique(SafeName(name), {Folded(x.name) : x \in ToSet(out)})
  IN Append(out, [name |-> unique, role |-> role, file |-> file])

(* Metadata of the system and links are left out, an empty entry is written *)
(* as it is; result is the rebuilt file of a member.                        *)
PutEntry(zip, out, entry, result) ==
  IF IsMember(zip, entry)
    THEN LET file == CHOOSE f \in result : TRUE
         IN Put(out, Renamed(entry.name, Extension[Sniff(file)]), "file", file)
  ELSE IF entry.role = "empty" THEN Put(out, entry.name, "empty", entry.file)
  ELSE out

(* The new archive after each entry of the old one; results has the rebuilt *)
(* file of each member, by its place.                                       *)
Packs(zip, results) ==
  LET out[i \in 0 .. Len(zip.entries)] ==
        IF i = 0 THEN <<>> ELSE PutEntry(zip, out[i - 1], zip.entries[i], results[i])
  IN out

Packed(zip, results) ==
  [entries |-> Packs(zip, results)[Len(zip.entries)], listing |-> {}]

-----------------------------------------------------------------------------
(* What is promised of a file that was rebuilt *)

(* What starts by itself, runs code or reaches out when a document is opened, *)
(* what only a file that was not written anew has, and a name that does not   *)
(* fit.                                                                       *)
NeverDelivered ==
  {"PDF_OPENACTION", "PDF_AUTO_ACTION", "PDF_ANNOT_AUTO_ACTION", "PDF_JS", "PDF_XFA",
   "PDF_JAVASCRIPT", "PDF_LAUNCH", "PDF_EMBEDDED_FILE", "PDF_INCREMENTAL_UPDATES",
   "PDF_TRAILING_DATA", "PDF_XREF_BROKEN", "PDF_XREF_RECONSTRUCTED", "PDF_DAMAGED",
   "PDF_MALFORMED", "PDF_ENCRYPTED_OWNER", "POLYGLOT_ARCHIVE", "IMG_HAS_EXIF",
   "IMG_TOO_MANY_FRAMES", "IMG_MALFORMED", "TYPE_EXECUTABLE", "TYPE_SIGNATURE_OFFSET",
   "TYPE_DETECTOR_CONFLICT", "ARCHIVE_EXECUTABLE", "ARCHIVE_SYMLINK",
   "ARCHIVE_PATH_TRAVERSAL", "DOCX_VBA", "DOCX_ACTIVEX", "DOCX_OLE_OBJECT", "DOCX_EMBEDDED",
   "DOCX_ALTCHUNK", "DOCX_DDE", "DOCX_DTD", "DOCX_FIELD_OBFUSCATED", "DOCX_FIELD_INCLUDE",
   "DOCX_EXTERNAL_TEMPLATE", "DOCX_EXTERNAL_OBJECT", "DOCX_EXTERNAL_LINK",
   "MIME_MISMATCH", "EXT_MISMATCH"}
    \cup UnscannableCodes

(* A file is handed out with the type and the extension it has. *)
OwnRequest(file) == [declared |-> Sniff(file), ext |-> Extension[Sniff(file)]]

(* What the stages may report of a file that everybody has. *)
Notices ==
  {"MIME_MISMATCH", "EXT_MISMATCH", "PDF_INCREMENTAL_UPDATES", "PDF_EXTERNAL_URI", "PDF_OBJSTM",
   "PDF_FONT_EMBEDDED", "PDF_ENCRYPTED_OWNER", "IMG_HAS_EXIF", "ARCHIVE_PATH_TRAVERSAL",
   "DOCX_VBA", "DOCX_ACTIVEX", "DOCX_OLE_OBJECT", "DOCX_EMBEDDED", "DOCX_ALTCHUNK", "DOCX_DDE",
   "DOCX_FIELD_OBFUSCATED", "DOCX_FIELD_INCLUDE", "DOCX_EXTERNAL_TEMPLATE",
   "DOCX_EXTERNAL_OBJECT", "DOCX_EXTERNAL_LINK"}

(* What the sanitizers say they do not rebuild: a file that would come out *)
(* too large, a document that Word did not write (its main part elsewhere, *)
(* an active element without the relationship to what it shows).           *)
RebuildableAlone(file) ==
  /\ ~file.large
  /\ Sniff(file) \in DocxTypes =>
       /\ file.body.place /\ file.body.main \in MainTypes
       /\ \A m \in file.body.marks :
            m.tag # "root" /\ (m.tag \in Markers \ AlwaysDropped => m.rel # NoRelation)

(* What no stage looks at and a sanitizer or its check stumbles over: an   *)
(* annotation that is none, a field with an action of its own, an image    *)
(* that breaks off, a picture in a document above the limit of a part.     *)
StumblesAlone(file) ==
  \/ /\ Sniff(file) = "pdf"
     /\ \/ "annot" \in file.body.odd
        \/ \E x \in file.body.graph :
             x.at = "field" /\ x.key = "AA" /\ x.does \in SuspiciousActions
  \/ Sniff(file) \in ImageTypes /\ ~file.body.whole
  \/ Sniff(file) \in DocxTypes /\ HugeMedia(file.body) # {}

(* A document opens: its relationships lead to parts that are there, its   *)
(* elements name relationships that are there, and of an object that lost  *)
(* one of its pieces (the data of an embedded one, its picture) no piece   *)
(* is left.                                                                *)
WholeDocument(old, new, prof) ==
  /\ \A rel \in new.rels :
       /\ rel.from \in new.parts \cup {"package"}
       /\ rel.external \/ rel.to \in new.parts
  /\ \A m \in new.marks : m.rel \in new.rels \cup {NoRelation}
  /\ prof # "strict" =>
       \A m \in new.marks, n \in old.marks :
         m.in = n.in /\ m.unit = n.unit /\ m.unit # "none" => n \in new.marks

(* An archive has a file for every file and an empty entry for every empty *)
(* one of the old archive, under names that differ on any file system,     *)
(* lead nowhere and fit what is inside.  A link of the name of a file      *)
(* comes out as one more.                                                  *)
Places(zip, role) == {i \in DOMAIN zip.entries : zip.entries[i].role = role}

CompleteArchive(old, new) ==
  /\ Cardinality(Places(new, "file")) >= Cardinality(Places(old, "file"))
  /\ Cardinality(Places(new, "empty")) >= Cardinality(Places(old, "empty"))
  /\ \A i, j \in DOMAIN new.entries :
       i # j => Folded(new.entries[i].name) # Folded(new.entries[j].name)
  /\ \A i \in DOMAIN new.entries : ~EscapesRoot(new.entries[i].name)
  /\ \A i \in DOMAIN new.entries : new.entries[i].role = "file" =>
       new.entries[i].name.ext \in {Extension[Sniff(new.entries[i].file)], ".jpeg", ".tiff"}

-----------------------------------------------------------------------------
(* The bodies that are taken apart *)

Pictures ==
  [pixels : {"few", "many", "bomb"}, dense : BOOLEAN, frames : BOOLEAN, exif : BOOLEAN,
   icc : BOOLEAN, readable : BOOLEAN, whole : BOOLEAN]

WellFormed(file) ==
  /\ Sniff(file) = "pdf" => file.body \in PdfDocuments /\ KeysFit(file.body)
  /\ Sniff(file) \in ImageTypes => file.body \in Pictures
  /\ Sniff(file) \in DocxTypes => file.body \in Packages /\ RelationsFit(file.body)
=============================================================================
