------------------------------ MODULE WordFields ------------------------------
(***************************************************************************)
(* Fields of a part of a Word document (worker_app/ooxml.py).  A field is  *)
(* a sequence of runs: begin, the instruction in any number of pieces and  *)
(* with other fields inside, a separator, the last result, end.  Two       *)
(* passes work on it: scan_fields reads the events of the parser and       *)
(* reports the classes of the fields (the stage and the check of a rebuilt *)
(* file), strip_fields works on the tree and removes what must not stay.   *)
(*                                                                         *)
(* A part is a sequence of elements [e, of, joined]: a character of a      *)
(* field, a piece of an instruction, text, or a simple field.  An element  *)
(* that is joined stands in the run of the one before it.  An instruction  *)
(* is a sequence of pieces; its name is what stands before the first blank.*)
(* A simple field stands beside the runs; no other element stands outside  *)
(* of a run in the model.                                                  *)
(***************************************************************************)
EXTENDS Naturals, Sequences, FiniteSets, SequencesExt

Element(e, of) == [e |-> e, of |-> of, joined |-> FALSE]
Joined(element) == [element EXCEPT !.joined = TRUE]

(* Names by the pieces they are written in. *)
SafeFields == {<<"PAGE">>}
DdeFields == {<<"DDE">>, <<"DD", "E">>}
IncludeFields == {<<"INCLUDETEXT">>}

(* The elements at some places, in their order. *)
Picked(part, places) ==
  LET picked[i \in 0 .. Len(part)] ==
        IF i = 0 THEN <<>>
        ELSE IF i \in places THEN Append(picked[i - 1], part[i]) ELSE picked[i - 1]
  IN picked[Len(part)]

IsBlank(text) == \A i \in DOMAIN text : text[i] = "blank"

(* The first word of an instruction, empty where there is none. *)
FieldName(text) ==
  LET word(name, piece) == IF name.done \/ (piece = "blank" /\ name.pieces # <<>>)
                             THEN [name EXCEPT !.done = TRUE]
                             ELSE IF piece = "blank" THEN name
                             ELSE [name EXCEPT !.pieces = Append(@, piece)]
  IN FoldLeft(word, [pieces |-> <<>>, done |-> FALSE], text).pieces

Classify(text, nestedFirst) ==
  IF nestedFirst THEN "obfuscated"
  ELSE IF FieldName(text) \in DdeFields THEN "dde"
  ELSE IF FieldName(text) \in IncludeFields THEN "include"
  ELSE IF FieldName(text) \in SafeFields THEN "safe"
  ELSE "other"

-----------------------------------------------------------------------------
(* What both passes keep of a field that is open; region is used by the    *)
(* second one only. *)

OpenField(region) ==
  [text |-> <<>>, nested |-> FALSE, result |-> FALSE, region |-> region]

ClassOf(field) == Classify(field.text, field.nested)

(* The instruction of the innermost open field is still being written. *)
Writing(open) == open # <<>> /\ ~Last(open).result

OnLast(open, F(_)) == [open EXCEPT ![Len(open)] = F(@)]

(* A field begins where the instruction of another is still empty: the     *)
(* name of the outer one will be computed. *)
Opened(open, field) ==
  Append(IF Writing(open) /\ IsBlank(Last(open).text)
           THEN OnLast(open, LAMBDA f : [f EXCEPT !.nested = TRUE])
           ELSE open, field)

Separated(open) == OnLast(open, LAMBDA f : [f EXCEPT !.result = TRUE])

Instructed(open, piece) == OnLast(open, LAMBDA f : [f EXCEPT !.text = Append(@, piece)])

-----------------------------------------------------------------------------
(* scan_fields *)

ScanElement(scan, el) ==
  IF el.e = "begin" THEN [scan EXCEPT !.open = Opened(@, OpenField({}))]
  ELSE IF el.e = "separate" /\ scan.open # <<>> THEN [scan EXCEPT !.open = Separated(@)]
  ELSE IF el.e = "end" /\ scan.open # <<>>
    THEN [open |-> Front(scan.open), found |-> Append(scan.found, ClassOf(Last(scan.open)))]
  ELSE IF el.e = "instr" /\ Writing(scan.open)
    THEN [scan EXCEPT !.open = Instructed(@, el.of)]
  ELSE IF el.e = "simple" THEN [scan EXCEPT !.found = Append(@, Classify(<<el.of>>, FALSE))]
  ELSE scan

(* What it has after each element. *)
Scans(part) ==
  LET scan[i \in 0 .. Len(part)] ==
        IF i = 0 THEN [open |-> <<>>, found |-> <<>>] ELSE ScanElement(scan[i - 1], part[i])
  IN scan

Scanned(part) == Scans(part)[Len(part)]

(* A field that is never closed is a field too. *)
FieldsFound(part) ==
  LET scan == Scanned(part) IN scan.found \o [i \in DOMAIN scan.open |-> ClassOf(scan.open[i])]

ScanFields(part) == ToSet(FieldsFound(part))

-----------------------------------------------------------------------------
(* strip_fields *)

(* The run of each element, by the place of the first element of the run. *)
RunOf(part, i) == CHOOSE j \in 1 .. i : /\ j = 1 \/ ~part[j].joined
                                        /\ \A k \in j + 1 .. i : part[k].joined

(* A run that begins belongs to every field whose instruction is open. *)
WithRun(open, run) ==
  [i \in DOMAIN open |-> IF open[i].result THEN open[i]
                         ELSE [open[i] EXCEPT !.region = @ \cup {run}]]

StripElement(strip, i, part, keepSafe) ==
  LET el == part[i]
      run == RunOf(part, i)
      open == IF run = i /\ el.e # "simple" THEN WithRun(strip.open, run) ELSE strip.open
      inRun(f) == [f EXCEPT !.region = @ \cup {run}]
  IN IF el.e = "begin" THEN [strip EXCEPT !.open = Opened(open, OpenField({run}))]
     ELSE IF el.e = "separate" /\ open # <<>>
       THEN [strip EXCEPT !.open = OnLast(Separated(open), inRun)]
     ELSE IF el.e = "end" /\ open # <<>>
       THEN [strip EXCEPT
              !.open = Front(open),
              !.doomed = IF keepSafe /\ ClassOf(Last(open)) = "safe" THEN @
                         ELSE Append(@, inRun(Last(open)))]
     ELSE IF el.e = "instr"
       THEN IF Writing(open) THEN [strip EXCEPT !.open = Instructed(open, el.of)]
            ELSE [strip EXCEPT !.open = open, !.strays = @ \cup {i}]
     ELSE [strip EXCEPT !.open = open]

(* What it has after each element. *)
Strips(part, keepSafe) ==
  LET strip[i \in 0 .. Len(part)] ==
        IF i = 0 THEN [open |-> <<>>, doomed |-> <<>>, strays |-> {}]
        ELSE StripElement(strip[i - 1], i, part, keepSafe)
  IN strip

(* Mutant: a field that is never closed stays. *)
StrippingClosed(part, keepSafe) ==
  LET done == Strips(part, keepSafe)[Len(part)]
  IN [doomed |-> done.doomed, strays |-> done.strays]

(* The fields to remove: the bad ones and all that are not closed. *)
Stripping(part, keepSafe) ==
  LET done == Strips(part, keepSafe)[Len(part)]
  IN [doomed |-> done.doomed \o done.open, strays |-> done.strays]

(* A simple field gives way to its content, which is in the runs around. *)
Unwraps(el, keepSafe) ==
  el.e = "simple" /\ ~(keepSafe /\ Classify(<<el.of>>, FALSE) = "safe")

(* The places of a part that stay. *)
Spared(part, keepSafe, strip) ==
  LET gone == UNION {strip.doomed[k].region : k \in DOMAIN strip.doomed}
  IN {i \in DOMAIN part : IF part[i].e = "simple" THEN ~Unwraps(part[i], keepSafe)
                          ELSE RunOf(part, i) \notin gone /\ i \notin strip.strays}

Remaining(part, keepSafe) == Spared(part, keepSafe, Stripping(part, keepSafe))

(* What begins the rest of a run is not joined any more. *)
Reduced(part, remaining) ==
  LET first(i) == \A j \in 1 .. i - 1 : RunOf(part, j) = RunOf(part, i) => j \notin remaining
  IN Picked([i \in DOMAIN part |-> [part[i] EXCEPT !.joined = @ /\ ~first(i)]], remaining)

StripFields(part, keepSafe) == Reduced(part, Remaining(part, keepSafe))

(* How many fields it says it removed. *)
FieldsStripped(part, keepSafe) ==
  Len(Stripping(part, keepSafe).doomed)
    + Cardinality({i \in DOMAIN part : Unwraps(part[i], keepSafe)})

(* The text of a part, by what stands in it. *)
TextOf(part) == Picked(part, {i \in DOMAIN part : part[i].e = "text"})
=============================================================================
