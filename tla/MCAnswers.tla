------------------------------ MODULE MCAnswers ------------------------------
(* What a client gets for a file, in three models, one for a behaviour: the
   verdict that is put together from the cache, the copy that is rebuilt, and
   the fields of a document. What the other ones hold stays as it began.

   The cache is asked about one file by three tenants: tenA blocks early, tenB
   late, tenC has a score of its own.

   Files to rebuild are of every type, with the things the stages name, alone
   and, for the documents, two at a time; archives of them, one in another. *)
EXTENDS VerdictCache, Rebuild, WordStory

VARIABLE topic

LOCAL Thresholds(block, suspicious) ==
  [block |-> block, suspicious |-> suspicious, failMode |-> "suspicious", shadow |-> FALSE,
   deliverBlocked |-> "never", profile |-> "standard"]

MCPolicyOf == [tenA |-> Thresholds(55, 30), tenB |-> Thresholds(100, 85),
               tenC |-> Thresholds(80, 50)]
MCOverridesOf == [tenA |-> <<>>, tenB |-> <<>>, tenC |-> [PDF_RICHMEDIA |-> 10]]
MCClaimsOf == [tenA |-> {{"EXT_MISMATCH"}}, tenB |-> {{}}, tenC |-> {{}}]
MCWeightsOf == [n \in 1 .. 3 |-> IF n = 1 THEN <<>> ELSE [PDF_RICHMEDIA |-> 45]]
MCMatchedBy == [n \in 1 .. 3 |-> {"YARA:medium"}]
MCAskedBy == <<{"tenA"}, {"tenB", "tenC"}>>

(* PDF: an ordinary document and what may be added to it. *)
PdfAdditions ==
  {Entry("root", "OpenAction", "dest"), Entry("root", "OpenAction", "JavaScript"),
   Entry("root", "AA", "Launch"), Entry("root", "AcroForm", "form"), Entry("form", "XFA", "xml"),
   Entry("names", "JS", "JavaScript"), Entry("root", "Names", "names"),
   Entry("page", "AA", "GoTo"), Entry("page", "AA", "SubmitForm"),
   Entry("annot", "A", "URI"), Entry("annot", "A", "GoToR"), Entry("annot", "A", "Rendition"),
   Entry("annot", "AA", "GoTo"), Entry("annot", "AA", "ImportData"),
   Entry("annot", "Subtype", "RichMedia"),
   Entry("next", "JS", "JavaScript"), Entry("field", "AA", "SubmitForm"),
   Entry("field", "JS", "JavaScript"), Entry("stream", "Type", "EmbeddedFile")}

PdfStates ==
  {EmptyPdf, [EmptyPdf EXCEPT !.opens = "owner"], [EmptyPdf EXCEPT !.opens = "password"],
   [EmptyPdf EXCEPT !.opens = "broken", !.draws = FALSE], [EmptyPdf EXCEPT !.packed = TRUE],
   [EmptyPdf EXCEPT !.revisions = 2, !.info = TRUE, !.uri = TRUE],
   [EmptyPdf EXCEPT !.hidden = TRUE, !.warnings = WarningCodes,
                        !.substance = {"PDF_FONT_EMBEDDED"}],
   [EmptyPdf EXCEPT !.eof = FALSE], [EmptyPdf EXCEPT !.startxref = FALSE,
                        !.substance = {"PDF_DEEP_NESTING"}],
   [EmptyPdf EXCEPT !.odd = {"flags"}, !.substance = {"PDF_TOO_MANY_PAGES", "PDF_STREAM_BOMB"}],
   [EmptyPdf EXCEPT !.odd = {"fonts"}, !.packed = TRUE, !.opens = "owner"],
   [EmptyPdf EXCEPT !.odd = {"annot"}]}

PdfFiles ==
  {File("pdf", [p EXCEPT !.graph = {x}]) : p \in PdfStates, x \in PdfAdditions}
  \cup {File("pdf", [EmptyPdf EXCEPT !.graph = {x, y}, !.odd = o, !.packed = o # {}]) :
          x \in PdfAdditions, y \in PdfAdditions, o \in {{}, {"fonts"}}}
  \cup {File("pdf", p) : p \in PdfStates}
  \cup {[File("pdf", [EmptyPdf EXCEPT !.tail = TRUE]) EXCEPT !.tail = "archive"],
        [File("pdf", EmptyPdf) EXCEPT !.head = {}, !.late = TRUE],
        [File("pdf", EmptyPdf) EXCEPT !.magic = "media"]}

(* Word: additions are packages that are joined with the ordinary one. *)
Join2(a, b) ==
  [parts |-> a.parts \cup b.parts, main |-> IF a.main # "document" THEN a.main ELSE b.main,
   place |-> a.place /\ b.place, types |-> a.types \cup b.types, rels |-> a.rels \cup b.rels,
   marks |-> a.marks \cup b.marks,
   story |-> [p \in XmlParts |-> a.story[p] \o b.story[p]],
   dtd |-> a.dtd \cup b.dtd, bad |-> a.bad \cup b.bad, huge |-> a.huge \cup b.huge,
   undecoded |-> a.undecoded \cup b.undecoded, listing |-> a.listing \cup b.listing]

Begin == Element("begin", "")
Sep == Element("separate", "")
End == Element("end", "")
Instr(of) == Element("instr", of)
Text(of) == Element("text", of)

Field(of) == <<Begin, Instr(of), Sep, Text("plain"), End>>

With(parts) == [EmptyPackage EXCEPT !.parts = @ \cup parts]
Related(rel, tag, unit) ==
  [With({rel.to} \cap Parts) EXCEPT !.rels = {rel}, !.marks = {Mark(rel.from, tag, rel, unit)}]
Told(part, elements) == [With({part}) EXCEPT !.story[part] = elements]

DocxAdditions ==
  {[With({"vba"}) EXCEPT !.rels = {Relation("main", "vbaProject", "vba")},
                         !.types = {[part |-> "vba", value |-> "vba"]}, !.main = "macroDocument"],
   [With({"header"}) EXCEPT !.types = {[part |-> "header", value |-> "plain"],
                                       [part |-> "main", value |-> "vba"]}],
   Related(Relation("main", "control", "activex"), "control", "control"),
   Join2(Related(Relation("main", "oleObject", "embeddedBin"), "ole", "object"),
         Related(Relation("main", "image", "image"), "imagedata", "object")),
   Related(Relation("main", "package", "embeddedDoc"), "ole", "object"),
   [With({"embeddedDoc"}) EXCEPT !.types = {[part |-> "embeddedDoc", value |-> "ole"]}],
   Related(Link("main", "oleObject", "share"), "oleLink", "object"),
   Related(Relation("main", "aFChunk", "chunk"), "altChunk", "altChunk"),
   Related(Relation("main", "image", "image"), "drawing", "drawing"),
   Related(Relation("header", "image", "picture"), "drawing", "drawing"),
   [Related(Relation("main", "image", "image"), "drawing", "drawing")
      EXCEPT !.undecoded = {"image"}],
   Related(Link("main", "hyperlink", "web"), "hyperlink", "none"),
   Related(Link("main", "hyperlink", "scheme"), "hyperlink", "none"),
   Related(Link("settings", "attachedTemplate", "share"), "attachedTemplate", "attachedTemplate"),
   Related(Link("settings", "attachedTemplate", "disk"), "attachedTemplate", "attachedTemplate"),
   Related(Link("main", "frame", "web"), "frame", "none"),
   Related(Link("main", "image", "web"), "drawing", "drawing"),
   Related(Relation("chart", "chartUserShapes", "unknown"), "root", "none"),
   [With({"settings"}) EXCEPT !.marks = {Mark("settings", "mailMerge", NoRelation, "none"),
                                         Mark("settings", "docVars", NoRelation, "none")}],
   [EmptyPackage EXCEPT !.marks = {Mark("main", "control", NoRelation, "none")}],
   Told("main", Field("PAGE")), Told("header", Field("DDE")), Told("main", Field("INCLUDETEXT")),
   Told("main", Field("QUOTE")), Told("glossary", Field("DDE")), Told("customXml", Field("DDE")),
   Told("main", <<Begin, Begin, Instr("QUOTE"), End, Instr("PAGE"), End>>),
   Told("main", <<Begin, Instr("DD"), Joined(Instr("blank")), Instr("E"), Text("deleted")>>),
   Told("main", <<Begin, Instr("PAGE"), End, Joined(Begin), Instr("DDE"), Joined(End),
                Element("simple", "DDE")>>),
   With({"docProps", "font"}), [With({"unknown", "glossary"}) EXCEPT !.dtd = {"glossary"}],
   [With({"customXml"}) EXCEPT !.bad = {"customXml"}], [EmptyPackage EXCEPT !.dtd = {"main"}],
   [With({"header"}) EXCEPT !.huge = {"header"}],
   [Related(Relation("main", "image", "image"), "drawing", "drawing") EXCEPT !.huge = {"image"}],
   [EmptyPackage EXCEPT !.place = FALSE], [EmptyPackage EXCEPT !.main = "other"],
   [EmptyPackage EXCEPT !.listing = {"bomb"}], [EmptyPackage EXCEPT !.listing = {"encrypted"}],
   [EmptyPackage EXCEPT !.listing = {"incomplete"}]}

Docx(pkg) == File(IF pkg.main = "macroDocument" THEN "docm" ELSE "docx", pkg)
DocxFiles ==
  {Docx(Join2(a, b)) : a \in DocxAdditions, b \in DocxAdditions} \cup {Docx(EmptyPackage)}

(* Images *)
Images ==
  [pixels : {"few", "many", "bomb"}, dense : {FALSE}, frames : BOOLEAN, exif : BOOLEAN,
   icc : {TRUE}, readable : {TRUE}, whole : {TRUE}]
  \cup {[CleanImage EXCEPT !.readable = FALSE], [CleanImage EXCEPT !.dense = TRUE],
        [CleanImage EXCEPT !.whole = FALSE]}

ImageFiles == {File(t, i) : t \in ImageTypes, i \in Images}
              \cup {[File("jpeg", CleanImage) EXCEPT !.tail = t] : t \in {"data", "archive"}}

(* Archives *)
Pdf == File("pdf", EmptyPdf)
Scripted == File("pdf", [EmptyPdf EXCEPT !.graph = {Entry("next", "JS", "JavaScript")}])
Gif == File("gif", CleanImage)
Jpeg == File("jpeg", CleanImage)
Other == File("media", [opaque |-> TRUE])
Zipped(entries) == File("zip", [entries |-> entries, listing |-> {}])
Capital(entry) == [entry EXCEPT !.name.upper = TRUE]
Leading(entry, where) == [entry EXCEPT !.name.leads = where]

Inner == Zipped(<<ArchiveEntry("a", ".pdf", "file", Pdf)>>)
Members ==
  {ArchiveEntry("a", ".pdf", "file", Pdf), Capital(ArchiveEntry("a", ".pdf", "file", Pdf)),
   ArchiveEntry("a", ".exe", "file", Pdf), ArchiveEntry("a", ".gif", "file", Gif),
   ArchiveEntry("a", ".jpeg", "file", Jpeg), Leading(ArchiveEntry("a", ".png", "file", Gif), "out"),
   Leading(ArchiveEntry("a", ".pdf", "file", Pdf), "behind"),
   Leading(ArchiveEntry("b", "", "empty", Pdf), "drive"),
   ArchiveEntry("b", ".pdf", "file", Scripted), ArchiveEntry("b", ".mp4", "file", Other),
   ArchiveEntry("a", ".pdf", "empty", Pdf), ArchiveEntry("b", ".js", "empty", Pdf),
   ArchiveEntry("b", "", "metadata", Pdf), ArchiveEntry("a", ".pdf", "link", Pdf),
   ArchiveEntry("b", ".pdf", "empty", Pdf), ArchiveEntry("b", ".pdf", "link", Pdf),
   ArchiveEntry("c", ".pdf", "link", Pdf),
   ArchiveEntry("b", ".jpg", "file", File("jpeg", [CleanImage EXCEPT !.whole = FALSE])),
   ArchiveEntry("b", ".zip", "file", Inner), ArchiveEntry("b", ".zip", "file", Zipped(<<>>)),
   ArchiveEntry("b", ".zip", "file", Zipped(<<ArchiveEntry("b", ".zip", "file", Inner)>>))}

ZipFiles ==
  {Zipped(<<x, y, ArchiveEntry("a", ".pdf", "file", Pdf)>>) : x \in Members, y \in Members}
  \cup {[Zipped(<<>>) EXCEPT !.body.listing = {l}] :
          l \in {"bomb", "encrypted", "incomplete", "broken"}}

Strange ==
  {Other, File("binary", [opaque |-> TRUE]), [Other EXCEPT !.head = {}],
   [Pdf EXCEPT !.large = TRUE]}
  \cup {[File("zip", [opaque |-> TRUE]) EXCEPT !.inner = i] :
          i \in {{"types", "workbook"}, {"opendocument"}, {"dex", "class"}, {"class"}}}

AllFiles == PdfFiles \cup DocxFiles \cup ImageFiles \cup ZipFiles \cup Strange

Requests ==
  {NoRequest, [declared |-> "pdf", ext |-> ".pdf"], [declared |-> "octet-stream", ext |-> ".exe"]}

MCFiles == {[file |-> f, request |-> NoRequest] : f \in AllFiles}
           \cup {[file |-> f, request |-> r] : f \in {Pdf, Gif, Other}, r \in Requests}

MCElements ==
  {Begin, Sep, End, Instr("blank"), Instr("PAGE"), Instr("DD"), Instr("E"), Text("plain")}
MCProfiles == {"light", "standard", "strict"}

(* A file that is not rebuilt stands for all of them. *)
AnswersInit ==
  /\ topic \in {"cache", "rebuild", "story"} /\ CacheInit /\ RebuildInit /\ StoryInit
  /\ topic # "rebuild" => /\ subject = [file |-> Pdf, request |-> NoRequest]
                          /\ profile = "standard"

CacheAlone == topic = "cache" /\ CacheNext /\ UNCHANGED <<rebuildVars, story, topic>>
RebuildAlone == topic = "rebuild" /\ RebuildNext /\ UNCHANGED <<cacheVars, story, topic>>
StoryAlone == topic = "story" /\ Write /\ UNCHANGED <<cacheVars, rebuildVars, topic>>

(* The fairness of FairCacheSpec; a rebuilding and a story owe nothing. *)
AnswersSpec ==
  /\ AnswersInit
  /\ [][CacheAlone \/ RebuildAlone \/ StoryAlone]_<<cacheVars, rebuildVars, story, topic>>
  /\ WF_cacheVars(topic = "cache" /\ LoopStep) /\ SF_cacheVars(topic = "cache" /\ Publish)
=============================================================================
