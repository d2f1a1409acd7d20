----------------------------- MODULE WordPackage -----------------------------
(***************************************************************************)
(* A Word document as a package of parts, and the two that read it: the    *)
(* stage that names its active content (stages/docx_structure.py) and the  *)
(* sanitizer that builds another one (cdr/docx.py, with ooxml.py).         *)
(*                                                                         *)
(* A package is a record: the parts, by what they are; the types its       *)
(* [Content_Types].xml gives to parts; the relationships of its parts; the *)
(* elements of its parts that either pass looks at, each with the          *)
(* relationship its r:id names and the whole it is a piece of; the story   *)
(* of each part (WordFields).  Two relationships of a part never share an  *)
(* identifier, and the target of one is a part by its kind or a class of   *)
(* addresses.                                                              *)
(***************************************************************************)
EXTENDS WordFields

(* Parts by what they are.  What is kept is a list of what is allowed. *)
MediaParts == {"image", "picture"}      (* a raster that is encoded anew, a drawing as it is *)
KeptParts == {"main", "header", "settings", "chart"} \cup MediaParts
MetadataParts == {"docProps", "customXml"}
KeptLight == KeptParts \cup MetadataParts
DroppedParts == {"vba", "activex", "embeddedBin", "embeddedDoc", "font", "glossary",
                 "chunk", "unknown"}
Parts == KeptLight \cup DroppedParts

XmlParts == (KeptLight \ MediaParts) \cup {"glossary"}
WordParts == {"main", "header", "settings", "chart", "glossary"}

MainTypes == {"document", "macroDocument"}

Relation(from, kind, to) == [from |-> from, kind |-> kind, to |-> to, external |-> FALSE]
Link(from, kind, to) == [from |-> from, kind |-> kind, to |-> to, external |-> TRUE]
NoRelation == Relation("none", "none", "none")

(* unit is the nearest whole around the element, "none" where there is none. *)
Mark(in, tag, rel, unit) == [in |-> in, tag |-> tag, rel |-> rel, unit |-> unit]

(* Elements that scan_fields reports with the fields. *)
Markers == {"altChunk", "control", "mailMerge", "frameset", "ole", "oleLink"}
AlwaysDropped == {"mailMerge", "frameset", "docVars"}

EmptyPackage ==
  [parts |-> {"main"}, main |-> "document", place |-> TRUE, types |-> {}, rels |-> {},
   marks |-> {}, story |-> [p \in XmlParts |-> <<>>], dtd |-> {}, bad |-> {}, huge |-> {},
   undecoded |-> {}, listing |-> {}]

-----------------------------------------------------------------------------
(* Addresses: a web page, a scheme that starts something, a share, a path  *)
(* on the author's disk, a path next to the document.                      *)

SafeHyperlink(to) == to \in {"web", "relative"}
IsRemote(to) == to \in {"web", "scheme", "share"}

ScanKinds(pkg, p) ==
  ScanFields(pkg.story[p])
  \cup {m.tag : m \in {k \in pkg.marks : k.in = p /\ k.tag \in Markers}}

Readable(pkg, p) == p \notin pkg.dtd \cup pkg.bad \cup pkg.huge

-----------------------------------------------------------------------------
(* The stage: what it adds for a package. *)

NameCodes(pkg) ==
  {"DOCX_VBA" : p \in pkg.parts \cap {"vba"}}
  \cup {"DOCX_VBA" : t \in {t \in pkg.types : t.value = "vba"}}
  \cup {"DOCX_ACTIVEX" : p \in pkg.parts \cap {"activex"}}
  \cup {"DOCX_OLE_OBJECT" : p \in pkg.parts \cap {"embeddedBin"}}
  \cup {IF [part |-> p, value |-> "ole"] \in pkg.types THEN "DOCX_OLE_OBJECT"
        ELSE "DOCX_EMBEDDED" : p \in pkg.parts \cap {"embeddedDoc"}}

RelationshipCodes(rel) ==
  IF rel.kind = "vbaProject" THEN {"DOCX_VBA"}
  ELSE IF rel.kind = "control" THEN {"DOCX_ACTIVEX"}
  ELSE IF rel.kind = "aFChunk" THEN {"DOCX_ALTCHUNK"}
  ELSE IF ~rel.external
    THEN {"DOCX_OLE_OBJECT" : k \in {rel.kind} \cap {"oleObject"}}
         \cup {"DOCX_EMBEDDED" : k \in {rel.kind} \cap {"package"}}
  ELSE CASE rel.kind = "hyperlink" ->
              {"DOCX_EXTERNAL_LINK" : t \in {t \in {rel.to} : ~SafeHyperlink(t)}}
         [] rel.kind = "attachedTemplate" ->
              {"DOCX_EXTERNAL_TEMPLATE" : t \in {t \in {rel.to} : IsRemote(t)}}
         [] rel.kind \in {"oleObject", "frame", "subDocument"} -> {"DOCX_EXTERNAL_OBJECT"}
         [] OTHER -> {"DOCX_EXTERNAL_LINK"}

FieldCode ==
  [dde |-> "DOCX_DDE", obfuscated |-> "DOCX_FIELD_OBFUSCATED", include |-> "DOCX_FIELD_INCLUDE",
   altChunk |-> "DOCX_ALTCHUNK", ole |-> "DOCX_OLE_OBJECT", control |-> "DOCX_ACTIVEX"]

FieldCodes(pkg, p) == {FieldCode[k] : k \in ScanKinds(pkg, p) \cap DOMAIN FieldCode}

(* A part that is not read says why; the fields are looked for in Word's   *)
(* own parts, a DTD in all of them.                                        *)
PartCodes(pkg, p) ==
  IF p \in pkg.huge THEN {"ARCHIVE_INCOMPLETE"}
  ELSE IF p \in pkg.dtd THEN {"DOCX_DTD"}
  ELSE IF p \in pkg.bad THEN {"DOCX_MALFORMED"}
  ELSE IF p \in WordParts THEN FieldCodes(pkg, p) ELSE {}

ListingCode ==
  [bomb |-> "ARCHIVE_BOMB", encrypted |-> "ARCHIVE_ENCRYPTED", incomplete |-> "ARCHIVE_INCOMPLETE"]

StageCodes(pkg) ==
  {ListingCode[x] : x \in pkg.listing}
  \cup IF pkg.listing \cap {"bomb", "encrypted"} # {} THEN {}
       ELSE NameCodes(pkg)
            \cup (UNION {RelationshipCodes(rel) : rel \in pkg.rels})
            \cup (UNION {PartCodes(pkg, p) : p \in pkg.parts \cap XmlParts})

-----------------------------------------------------------------------------
(* The sanitizer *)

(* It does not begin on what was not unpacked within the budget, or on a   *)
(* document whose main part is not where Word puts it.                     *)
Refuses(pkg) == pkg.listing # {} \/ ~pkg.place \/ pkg.main \notin MainTypes

Keep(pkg, profile) ==
  (pkg.parts \cap IF profile = "light" THEN KeptLight ELSE KeptParts)
    \ (pkg.undecoded \cap {"image"})

(* Mutant: a hyperlink is kept whatever it leads to. *)
KeepsAnyHyperlink(rel, keep) == IF rel.external THEN rel.kind = "hyperlink" ELSE rel.to \in keep

(* What stays of the relationships of a part that stays. *)
KeepsRelation(rel, keep) ==
  IF rel.external THEN rel.kind = "hyperlink" /\ SafeHyperlink(rel.to) ELSE rel.to \in keep

Carried(pkg, keep) == {rel \in pkg.rels : rel.from \in keep \cup {"package"}}

(* The elements that lose their relationship, and with them all that makes *)
(* up the same whole; a hyperlink gives way to its text.                   *)
Torn(pkg, keep) ==
  {m \in pkg.marks : m.rel \in Carried(pkg, keep) /\ ~KeepsRelation(m.rel, keep)}

Doomed(pkg, keep) ==
  {m \in Torn(pkg, keep) : m.tag # "hyperlink"} \cup {m \in pkg.marks : m.tag \in AlwaysDropped}

(* Mutant: the element goes alone, what it was a piece of stays. *)
CleanedMarksAlone(pkg, keep) ==
  {m \in pkg.marks : m.in \in keep /\ m \notin Torn(pkg, keep) /\ m \notin Doomed(pkg, keep)}

CleanedMarks(pkg, keep) ==
  {m \in pkg.marks : /\ m.in \in keep
                     /\ m \notin Torn(pkg, keep)
                     /\ \A d \in Doomed(pkg, keep) :
                          ~(m = d \/ (m.in = d.in /\ m.unit = d.unit /\ m.unit # "none"))}

PlainXmlType(value) == value = "plain"

(* The types are written anew for the parts that stay. *)
ContentTypes(pkg, keep) ==
  {t \in pkg.types : t.part \in keep \cap XmlParts /\ PlainXmlType(t.value)}

(* Pictures are read like every part that stays, within the same limit,    *)
(* before it is tried whether they decode; the stage does not read them.   *)
HugeMedia(pkg) == pkg.parts \cap MediaParts \cap pkg.huge

(* A part that does not parse, or whose root lost its relationship, is the *)
(* end of the rebuilding; fonts, glossaries and the rest are not opened.   *)
RebuildFails(pkg, keep) ==
  \/ "main" \notin keep
  \/ HugeMedia(pkg) # {}
  \/ \E p \in keep \cap XmlParts : ~Readable(pkg, p)
  \/ \E m \in Doomed(pkg, keep) : m.tag = "root" /\ m.in \in keep

Rebuilt(pkg, profile) ==
  LET keep == Keep(pkg, profile)
  IN [pkg EXCEPT
       !.parts = keep,
       !.types = ContentTypes(pkg, keep),
       !.rels = {rel \in Carried(pkg, keep) : KeepsRelation(rel, keep)},
       !.marks = CleanedMarks(pkg, keep),
       !.story = [p \in XmlParts |-> IF p \in keep THEN StripFields(@[p], TRUE) ELSE <<>>],
       !.dtd = {}, !.bad = {}, !.undecoded = {}]

(* A document of text and pixels: what the reader saw, without what was    *)
(* deleted under revision, and the images that are drawn, within the limit *)
(* and decode.                                                             *)
StrictText(story) ==
  LET text == TextOf(StripFields(story, FALSE))
  IN Picked(text, {i \in DOMAIN text : text[i].of # "deleted"})

StrictImages(pkg) ==
  {rel.to : rel \in {r \in pkg.rels : /\ r.from = "main" /\ r.kind = "image" /\ ~r.external
                                      /\ r.to \in pkg.parts \ (pkg.undecoded \cup pkg.huge)
                                      /\ \E m \in pkg.marks : m.tag = "drawing" /\ m.rel = r}}

FromText(pkg) ==
  LET images == {"image" : i \in StrictImages(pkg)}
  IN [EmptyPackage EXCEPT
       !.parts = @ \cup images,
       !.main = pkg.main,
       !.rels = {Relation("main", "image", i) : i \in images},
       !.marks = {Mark("main", "drawing", Relation("main", "image", i), "drawing") : i \in images},
       !.story = [@ EXCEPT !["main"] = StrictText(pkg.story["main"])]]

StrictFails(pkg) == ~Readable(pkg, "main")

-----------------------------------------------------------------------------
(* What a package may be *)

Relations == [from : STRING, kind : STRING, to : STRING, external : BOOLEAN]

Packages ==
  [parts : SUBSET Parts, main : STRING, place : BOOLEAN,
   types : SUBSET [part : STRING, value : STRING], rels : SUBSET Relations,
   marks : SUBSET [in : STRING, tag : STRING, rel : Relations, unit : STRING],
   story : [XmlParts -> Seq([e : STRING, of : STRING, joined : BOOLEAN])],
   dtd : SUBSET Parts, bad : SUBSET Parts, huge : SUBSET Parts, undecoded : SUBSET Parts,
   listing : SUBSET DOMAIN ListingCode]

(* A relationship of an active kind leads to a part of that kind, an active *)
(* element names such a relationship, each names one of its own part, and a *)
(* hyperlink is a piece of nothing but text.                                *)
ActiveKinds == {"vbaProject", "control", "aFChunk", "oleObject", "package"}

RelationsFit(pkg) ==
  /\ \A rel \in pkg.rels : rel.kind \in ActiveKinds => rel.external \/ rel.to \in DroppedParts
  /\ \A m \in pkg.marks :
       /\ m.rel = NoRelation \/ (m.rel \in pkg.rels /\ m.rel.from = m.in)
       /\ m.tag \in Markers => m.rel = NoRelation \/ m.rel.kind \in ActiveKinds
       /\ m.tag = "hyperlink" => m.unit = "none"

-----------------------------------------------------------------------------
(* The check of what was built, whichever way it was. *)

PackageProblems(pkg) ==
  {"part" : p \in pkg.parts \ KeptLight}
  \cup {"content_type" : t \in {t \in pkg.types : t.value \in {"vba", "activex", "ole"}}}
  \cup {"main_type" : t \in {pkg.main} \ MainTypes}
  \cup {"external" : rel \in {r \in pkg.rels :
                                r.external /\ ~(r.kind = "hyperlink" /\ SafeHyperlink(r.to))}}
  \cup {"active" : k \in (UNION {ScanKinds(pkg, p) : p \in pkg.parts \cap XmlParts}) \ {"safe"}}
  \cup {"dtd" : p \in pkg.dtd}
=============================================================================
