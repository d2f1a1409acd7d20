----------------------------- MODULE DocumentProofs ----------------------------
(***************************************************************************)
(* What the analysis and the rebuilding of a file keep to, for every PDF,  *)
(* picture, Word document and archive, and for every order of the elements *)
(* of its fields.                                                          *)
(*                                                                         *)
(* Fields.  The pass over the events and the pass over the tree know the   *)
(* same of the fields that are open, but for the region (PassesAreAlike),  *)
(* and so find the same fields.  That what is removed is what was found    *)
(* rests on the regions, which are followed in both directions: forwards,  *)
(* how those of the open fields lie in each other (Stacked), and backwards *)
(* from the end, which of them go (Judged).  A field goes as a whole or    *)
(* stays as a whole (GoneAsAWhole), and so a pass over what is left does   *)
(* the steps that the pass over all did for the fields that stay.          *)
(*                                                                         *)
(* Files.  What the sanitizers wrote has the type it was written as        *)
(* (WrittenSniff); what the stages would name in it was dropped, or its    *)
(* check would have refused it, but for what breaks the walk over a PDF    *)
(* (RebuiltIsQuiet), and of what the stages let through nothing is left    *)
(* that the check refuses, but for what they do not look at                *)
(* (OrdinaryPasses, StumblesAlone).  Of an archive the names are followed  *)
(* as they are written (WellPacked).                                       *)
(***************************************************************************)
EXTENDS Sanitizers, WordStory, SequenceTheorems, FiniteSetTheorems, WellFoundedInduction, TLAPS

-----------------------------------------------------------------------------
(* Induction over the places of a sequence, and the four recursions over   *)
(* them.                                                                   *)

LEMMA LeastPlace ==
  ASSUME NEW S \in SUBSET Nat, S # {}
  PROVE  \E least \in S : \A other \in S : least <= other
  <1>1. \E x \in S : \A y \in S : ~ (<<y, x>> \in OpToRel(<, Nat))
    BY WFMin, NatLessThanWellFounded
  <1>2. PICK x \in S : \A y \in S : ~ (y < x)
    BY <1>1 DEF OpToRel
  <1>3. \A y \in S : x <= y
    BY <1>2
  <1> QED
    BY <1>3

LEMMA PlaceInduction ==
  ASSUME NEW n \in Nat, NEW S, 0 \in S, \A i \in 0 .. n - 1 : i \in S => i + 1 \in S
  PROVE  \A i \in 0 .. n : i \in S
  <1> DEFINE Bad == {i \in 0 .. n : i \notin S}
  <1>1. SUFFICES ASSUME Bad # {} PROVE FALSE
    OBVIOUS
  <1>2. PICK least \in Bad : \A other \in Bad : least <= other
    <2>1. Bad \in SUBSET Nat
      OBVIOUS
    <2> QED
      BY <1>1, <2>1, LeastPlace
  <1>3. least # 0 /\ least - 1 \in 0 .. n - 1 /\ least - 1 \notin Bad
    BY <1>2
  <1>4. least - 1 \in S
    BY <1>3
  <1> QED
    BY <1>2, <1>3, <1>4

ScanStart == [open |-> <<>>, found |-> <<>>]

IsScan(part, n, g) ==
  g = [i \in 0 .. n |-> IF i = 0 THEN ScanStart ELSE ScanElement(g[i - 1], part[i])]

LEMMA ScanExists ==
  ASSUME NEW part, NEW n \in Nat
  PROVE  \E g : IsScan(part, n, g)
  <1> DEFINE S == {m \in Nat : \E g : IsScan(part, m, g)}
  <1>1. 0 \in S
    <2> DEFINE h == [i \in 0 .. 0 |-> ScanStart]
    <2>1. IsScan(part, 0, h)
      BY DEF IsScan
    <2> QED
      BY <2>1
  <1>2. ASSUME NEW m \in 0 .. n - 1, m \in S PROVE m + 1 \in S
    <2>1. PICK g : IsScan(part, m, g)
      BY <1>2
    <2> DEFINE h == [i \in 0 .. m + 1 |->
                       IF i = m + 1 THEN ScanElement(g[m], part[m + 1]) ELSE g[i]]
               k == [i \in 0 .. m + 1 |->
                       IF i = 0 THEN ScanStart ELSE ScanElement(h[i - 1], part[i])]
    <2>2. ASSUME NEW i \in 0 .. m + 1 PROVE h[i] = k[i]
      <3>1. i # m + 1 => g[i] = IF i = 0 THEN ScanStart ELSE ScanElement(g[i - 1], part[i])
        BY <2>1 DEF IsScan
      <3>2. i # 0 => h[i - 1] = g[i - 1]
        OBVIOUS
      <3> QED
        BY <3>1, <3>2
    <2>3. h = k
      BY <2>2
    <2>4. IsScan(part, m + 1, h)
      BY <2>3 DEF IsScan
    <2> QED
      BY <2>4
  <1>3. n \in S
    <2>1. \A m \in 0 .. n - 1 : m \in S => m + 1 \in S
      BY <1>2
    <2> HIDE DEF S
    <2>2. \A m \in 0 .. n : m \in S
      BY <1>1, <2>1, PlaceInduction
    <2> QED
      BY <2>2
  <1> QED
    BY <1>3

LEMMA ScansAre ==
  ASSUME NEW part, Len(part) \in Nat
  PROVE  /\ Scans(part)[0] = ScanStart
         /\ \A i \in 1 .. Len(part) : Scans(part)[i] = ScanElement(Scans(part)[i - 1], part[i])
  <1>1. PICK g : IsScan(part, Len(part), g)
    BY ScanExists
  <1>2. IsScan(part, Len(part), Scans(part))
    BY <1>1 DEF Scans, IsScan, ScanStart
  <1> QED
    BY <1>2 DEF IsScan

StripStart == [open |-> <<>>, doomed |-> <<>>, strays |-> {}]

IsStrip(part, keepSafe, n, g) ==
  g = [i \in 0 .. n |-> IF i = 0 THEN StripStart ELSE StripElement(g[i - 1], i, part, keepSafe)]

LEMMA StripExists ==
  ASSUME NEW part, NEW keepSafe, NEW n \in Nat
  PROVE  \E g : IsStrip(part, keepSafe, n, g)
  <1> DEFINE S == {m \in Nat : \E g : IsStrip(part, keepSafe, m, g)}
  <1>1. 0 \in S
    <2> DEFINE h == [i \in 0 .. 0 |-> StripStart]
    <2>1. IsStrip(part, keepSafe, 0, h)
      BY DEF IsStrip
    <2> QED
      BY <2>1
  <1>2. ASSUME NEW m \in 0 .. n - 1, m \in S PROVE m + 1 \in S
    <2>1. PICK g : IsStrip(part, keepSafe, m, g)
      BY <1>2
    <2> DEFINE h == [i \in 0 .. m + 1 |->
                       IF i = m + 1 THEN StripElement(g[m], m + 1, part, keepSafe) ELSE g[i]]
               k == [i \in 0 .. m + 1 |->
                       IF i = 0 THEN StripStart ELSE StripElement(h[i - 1], i, part, keepSafe)]
    <2>2. ASSUME NEW i \in 0 .. m + 1 PROVE h[i] = k[i]
      <3>1. i # m + 1 =>
              g[i] = IF i = 0 THEN StripStart ELSE StripElement(g[i - 1], i, part, keepSafe)
        BY <2>1 DEF IsStrip
      <3>2. i # 0 => h[i - 1] = g[i - 1]
        OBVIOUS
      <3> QED
        BY <3>1, <3>2
    <2>3. h = k
      BY <2>2
    <2>4. IsStrip(part, keepSafe, m + 1, h)
      BY <2>3 DEF IsStrip
    <2> QED
      BY <2>4
  <1>3. n \in S
    <2>1. \A m \in 0 .. n - 1 : m \in S => m + 1 \in S
      BY <1>2
    <2> HIDE DEF S
    <2>2. \A m \in 0 .. n : m \in S
      BY <1>1, <2>1, PlaceInduction
    <2> QED
      BY <2>2
  <1> QED
    BY <1>3

LEMMA StripsAre ==
  ASSUME NEW part, NEW keepSafe, Len(part) \in Nat
  PROVE  /\ Strips(part, keepSafe)[0] = StripStart
         /\ \A i \in 1 .. Len(part) :
              Strips(part, keepSafe)[i]
                = StripElement(Strips(part, keepSafe)[i - 1], i, part, keepSafe)
  <1>1. PICK g : IsStrip(part, keepSafe, Len(part), g)
    BY StripExists
  <1>2. IsStrip(part, keepSafe, Len(part), Strips(part, keepSafe))
    BY <1>1 DEF Strips, IsStrip, StripStart
  <1> QED
    BY <1>2 DEF IsStrip

PickedNext(part, places, before, i) ==
  IF i \in places THEN Append(before, part[i]) ELSE before

IsPicked(part, places, n, g) ==
  g = [i \in 0 .. n |-> IF i = 0 THEN <<>> ELSE PickedNext(part, places, g[i - 1], i)]

LEMMA PickedExists ==
  ASSUME NEW part, NEW places, NEW n \in Nat
  PROVE  \E g : IsPicked(part, places, n, g)
  <1> DEFINE S == {m \in Nat : \E g : IsPicked(part, places, m, g)}
  <1>1. 0 \in S
    <2> DEFINE h == [i \in 0 .. 0 |-> <<>>]
    <2>1. IsPicked(part, places, 0, h)
      BY DEF IsPicked
    <2> QED
      BY <2>1
  <1>2. ASSUME NEW m \in 0 .. n - 1, m \in S PROVE m + 1 \in S
    <2>1. PICK g : IsPicked(part, places, m, g)
      BY <1>2
    <2> DEFINE h == [i \in 0 .. m + 1 |->
                       IF i = m + 1 THEN PickedNext(part, places, g[m], m + 1) ELSE g[i]]
               k == [i \in 0 .. m + 1 |->
                       IF i = 0 THEN <<>> ELSE PickedNext(part, places, h[i - 1], i)]
    <2>2. ASSUME NEW i \in 0 .. m + 1 PROVE h[i] = k[i]
      <3>1. i # m + 1 => g[i] = IF i = 0 THEN <<>> ELSE PickedNext(part, places, g[i - 1], i)
        BY <2>1 DEF IsPicked
      <3>2. i # 0 => h[i - 1] = g[i - 1]
        OBVIOUS
      <3> QED
        BY <3>1, <3>2
    <2>3. h = k
      BY <2>2
    <2>4. IsPicked(part, places, m + 1, h)
      BY <2>3 DEF IsPicked
    <2> QED
      BY <2>4
  <1>3. n \in S
    <2>1. \A m \in 0 .. n - 1 : m \in S => m + 1 \in S
      BY <1>2
    <2> HIDE DEF S
    <2>2. \A m \in 0 .. n : m \in S
      BY <1>1, <2>1, PlaceInduction
    <2> QED
      BY <2>2
  <1> QED
    BY <1>3

(* The elements at some places, by the recursion that collects them. *)
LEMMA PickedIs ==
  ASSUME NEW part, NEW places, Len(part) \in Nat
  PROVE  \E g : /\ IsPicked(part, places, Len(part), g)
                /\ Picked(part, places) = g[Len(part)]
  <1> DEFINE h == CHOOSE g : IsPicked(part, places, Len(part), g)
  <1>1. \E g : IsPicked(part, places, Len(part), g)
    BY PickedExists
  <1>2. IsPicked(part, places, Len(part), h)
    BY <1>1
  <1>3. Picked(part, places) = h[Len(part)]
    BY DEF Picked, IsPicked, PickedNext
  <1> HIDE DEF h
  <1> QED
    BY <1>2, <1>3

-----------------------------------------------------------------------------
(* The fields that are open, and what each element does to them. *)

Pieces == [e : STRING, of : STRING, joined : BOOLEAN]

Fields == [text : Seq(STRING), nested : BOOLEAN, result : BOOLEAN, region : SUBSET Nat]

LEMMA OpenFieldIs ==
  ASSUME NEW region \in SUBSET Nat
  PROVE  /\ OpenField(region) \in Fields
         /\ OpenField(region).text = <<>>
         /\ OpenField(region).nested = FALSE
         /\ OpenField(region).result = FALSE
         /\ OpenField(region).region = region
  BY DEF OpenField, Fields

Nesting(field) == [field EXCEPT !.nested = TRUE]
Resulting(field) == [field EXCEPT !.result = TRUE]
Wording(field, piece) == [field EXCEPT !.text = Append(@, piece)]
InRun(field, run) == [field EXCEPT !.region = @ \cup {run}]

LEMMA FieldTypes ==
  ASSUME NEW field \in Fields
  PROVE  /\ field.text \in Seq(STRING) /\ field.nested \in BOOLEAN
         /\ field.result \in BOOLEAN /\ field.region \in SUBSET Nat
  BY DEF Fields

LEMMA NestingIs ==
  ASSUME NEW field \in Fields
  PROVE  /\ Nesting(field) \in Fields
         /\ Nesting(field).text = field.text
         /\ Nesting(field).nested = TRUE
         /\ Nesting(field).result = field.result
         /\ Nesting(field).region = field.region
  BY DEF Nesting, Fields

LEMMA ResultingIs ==
  ASSUME NEW field \in Fields
  PROVE  /\ Resulting(field) \in Fields
         /\ Resulting(field).text = field.text
         /\ Resulting(field).nested = field.nested
         /\ Resulting(field).result = TRUE
         /\ Resulting(field).region = field.region
  BY DEF Resulting, Fields

LEMMA WordingIs ==
  ASSUME NEW field \in Fields, NEW piece \in STRING
  PROVE  /\ Wording(field, piece) \in Fields
         /\ Wording(field, piece).text = Append(field.text, piece)
         /\ Wording(field, piece).nested = field.nested
         /\ Wording(field, piece).result = field.result
         /\ Wording(field, piece).region = field.region
  <1>1. Append(field.text, piece) \in Seq(STRING)
    BY FieldTypes
  <1> QED
    BY <1>1 DEF Wording, Fields

LEMMA InRunIs ==
  ASSUME NEW field \in Fields, NEW run \in Nat
  PROVE  /\ InRun(field, run) \in Fields
         /\ InRun(field, run).text = field.text
         /\ InRun(field, run).nested = field.nested
         /\ InRun(field, run).result = field.result
         /\ InRun(field, run).region = field.region \cup {run}
  BY DEF InRun, Fields

(* The last of the open fields is another one now. *)
LEMMA LastReplaced ==
  ASSUME NEW open \in Seq(Fields), NEW field \in Fields, open # <<>>
  PROVE  /\ [open EXCEPT ![Len(open)] = field] \in Seq(Fields)
         /\ Len([open EXCEPT ![Len(open)] = field]) = Len(open)
         /\ \A p \in 1 .. Len(open) :
              [open EXCEPT ![Len(open)] = field][p] = IF p = Len(open) THEN field ELSE open[p]
  <1>1. Len(open) > 0
    BY EmptySeq
  <1> QED
    BY <1>1

LEMMA WritingIs ==
  ASSUME NEW open \in Seq(Fields)
  PROVE  Writing(open) = (Len(open) > 0 /\ ~open[Len(open)].result)
  <1>1. (open # <<>>) = (Len(open) > 0)
    BY EmptySeq
  <1> QED
    BY <1>1 DEF Writing, Last

LEMMA OpenedIs ==
  ASSUME NEW open \in Seq(Fields), NEW field \in Fields
  PROVE  /\ Opened(open, field) \in Seq(Fields)
         /\ Len(Opened(open, field)) = Len(open) + 1
         /\ Opened(open, field)[Len(open) + 1] = field
         /\ \A p \in 1 .. Len(open) :
              Opened(open, field)[p] =
                IF p = Len(open) /\ ~open[p].result /\ IsBlank(open[p].text)
                  THEN Nesting(open[p]) ELSE open[p]
  <1>1. CASE Writing(open) /\ IsBlank(Last(open).text)
    <2>1. Len(open) > 0 /\ ~open[Len(open)].result /\ IsBlank(open[Len(open)].text)
      BY <1>1, WritingIs DEF Last
    <2>2. open[Len(open)] \in Fields /\ open # <<>>
      BY <2>1
    <2> DEFINE outer == [open EXCEPT ![Len(open)] = Nesting(open[Len(open)])]
    <2>3. Opened(open, field) = Append(outer, field)
      BY <1>1 DEF Opened, OnLast, Nesting
    <2>4. /\ outer \in Seq(Fields) /\ Len(outer) = Len(open)
          /\ \A p \in 1 .. Len(open) :
               outer[p] = IF p = Len(open) THEN Nesting(open[Len(open)]) ELSE open[p]
      BY <2>2, NestingIs, LastReplaced
    <2> HIDE DEF outer
    <2>5. /\ Append(outer, field) \in Seq(Fields)
          /\ Len(Append(outer, field)) = Len(open) + 1
          /\ Append(outer, field)[Len(open) + 1] = field
          /\ \A p \in 1 .. Len(open) : Append(outer, field)[p] = outer[p]
      BY <2>4
    <2> QED
      BY <2>1, <2>3, <2>4, <2>5
  <1>2. CASE ~(Writing(open) /\ IsBlank(Last(open).text))
    <2>1. Opened(open, field) = Append(open, field)
      BY <1>2 DEF Opened
    <2>2. Len(open) > 0 => open[Len(open)].result \/ ~IsBlank(open[Len(open)].text)
      BY <1>2, WritingIs DEF Last
    <2> QED
      BY <2>1, <2>2
  <1> QED
    BY <1>1, <1>2

LEMMA SeparatedIs ==
  ASSUME NEW open \in Seq(Fields), open # <<>>
  PROVE  /\ Separated(open) \in Seq(Fields)
         /\ Len(Separated(open)) = Len(open)
         /\ \A p \in 1 .. Len(open) :
              Separated(open)[p] = IF p = Len(open) THEN Resulting(open[p]) ELSE open[p]
  <1>1. Separated(open) = [open EXCEPT ![Len(open)] = Resulting(open[Len(open)])]
    BY DEF Separated, OnLast, Resulting
  <1>2. Len(open) > 0
    BY EmptySeq
  <1>3. open[Len(open)] \in Fields /\ Resulting(open[Len(open)]) \in Fields
    <2>1. open[Len(open)] \in Fields
      BY <1>2
    <2> QED
      BY <2>1, ResultingIs
  <1> QED
    BY <1>1, <1>3, LastReplaced

LEMMA InstructedIs ==
  ASSUME NEW open \in Seq(Fields), open # <<>>, NEW piece \in STRING
  PROVE  /\ Instructed(open, piece) \in Seq(Fields)
         /\ Len(Instructed(open, piece)) = Len(open)
         /\ \A p \in 1 .. Len(open) :
              Instructed(open, piece)[p] =
                IF p = Len(open) THEN Wording(open[p], piece) ELSE open[p]
  <1>1. Instructed(open, piece) = [open EXCEPT ![Len(open)] = Wording(open[Len(open)], piece)]
    BY DEF Instructed, OnLast, Wording
  <1>2. Len(open) > 0
    BY EmptySeq
  <1>3. open[Len(open)] \in Fields /\ Wording(open[Len(open)], piece) \in Fields
    <2>1. open[Len(open)] \in Fields
      BY <1>2
    <2> QED
      BY <2>1, WordingIs
  <1> DEFINE new == Wording(open[Len(open)], piece)
  <1>4. /\ [open EXCEPT ![Len(open)] = new] \in Seq(Fields)
        /\ Len([open EXCEPT ![Len(open)] = new]) = Len(open)
        /\ \A p \in 1 .. Len(open) :
             [open EXCEPT ![Len(open)] = new][p] = IF p = Len(open) THEN new ELSE open[p]
    BY <1>3, LastReplaced
  <1> QED
    BY <1>1, <1>4

LEMMA ClosedIs ==
  ASSUME NEW open \in Seq(Fields), open # <<>>
  PROVE  /\ Front(open) \in Seq(Fields)
         /\ Len(Front(open)) = Len(open) - 1
         /\ \A p \in 1 .. Len(open) - 1 : Front(open)[p] = open[p]
         /\ Last(open) = open[Len(open)] /\ Last(open) \in Fields
  <1>1. Len(open) \in Nat /\ Len(open) > 0
    BY EmptySeq
  <1>2. Front(open) = [p \in 1 .. Len(open) - 1 |-> open[p]]
    BY <1>1 DEF Front
  <1>3. \A p \in 1 .. Len(open) : open[p] \in Fields
    OBVIOUS
  <1> QED
    BY <1>1, <1>2, <1>3 DEF Last

LEMMA WithRunIs ==
  ASSUME NEW open \in Seq(Fields), NEW run \in Nat
  PROVE  /\ WithRun(open, run) \in Seq(Fields)
         /\ Len(WithRun(open, run)) = Len(open)
         /\ \A p \in 1 .. Len(open) :
              WithRun(open, run)[p] = IF open[p].result THEN open[p] ELSE InRun(open[p], run)
  <1>1. DOMAIN open = 1 .. Len(open)
    OBVIOUS
  <1>2. WithRun(open, run) =
          [p \in 1 .. Len(open) |-> IF open[p].result THEN open[p] ELSE InRun(open[p], run)]
    BY <1>1 DEF WithRun, InRun
  <1>3. \A p \in 1 .. Len(open) :
          (IF open[p].result THEN open[p] ELSE InRun(open[p], run)) \in Fields
    BY InRunIs
  <1> QED
    BY <1>2, <1>3

(* The end of a separator: its run belongs to the field as well. *)
LEMMA SeparatedInRunIs ==
  ASSUME NEW open \in Seq(Fields), open # <<>>, NEW run \in Nat
  PROVE  LET after == OnLast(Separated(open), LAMBDA f : [f EXCEPT !.region = @ \cup {run}])
         IN /\ after \in Seq(Fields)
            /\ Len(after) = Len(open)
            /\ \A p \in 1 .. Len(open) :
                 after[p] = IF p = Len(open) THEN InRun(Resulting(open[p]), run) ELSE open[p]
  <1> DEFINE sep == Separated(open)
  <1>1. /\ sep \in Seq(Fields) /\ Len(sep) = Len(open)
        /\ \A p \in 1 .. Len(open) :
             sep[p] = IF p = Len(open) THEN Resulting(open[p]) ELSE open[p]
    BY SeparatedIs, SMTT(30)
  <1>2. Len(open) \in Nat /\ Len(open) > 0
    BY EmptySeq
  <1> HIDE DEF sep
  <1>3. InRun(sep[Len(open)], run) \in Fields /\ sep # <<>>
    BY <1>1, <1>2, InRunIs, SMTT(30)
  <1>4. OnLast(sep, LAMBDA f : [f EXCEPT !.region = @ \cup {run}])
          = [sep EXCEPT ![Len(sep)] = InRun(sep[Len(open)], run)]
    BY <1>1 DEF OnLast, InRun
  <1>5. LET after == [sep EXCEPT ![Len(sep)] = InRun(sep[Len(open)], run)]
        IN /\ after \in Seq(Fields)
           /\ Len(after) = Len(open)
           /\ \A p \in 1 .. Len(open) :
                after[p] = IF p = Len(open) THEN InRun(sep[Len(open)], run) ELSE sep[p]
    BY <1>1, <1>3, LastReplaced
  <1> QED
    BY <1>1, <1>2, <1>4, <1>5 DEF sep

(* A run begins at or before the elements in it. *)
LEMMA RunIs ==
  ASSUME NEW part \in Seq(Pieces), NEW i \in 1 .. Len(part)
  PROVE  /\ RunOf(part, i) \in 1 .. i
         /\ ~part[i].joined => RunOf(part, i) = i
  <1> DEFINE Back == {d \in 0 .. i - 1 : i - d = 1 \/ ~part[i - d].joined}
             Starts(j) == /\ j = 1 \/ ~part[j].joined
                          /\ \A k \in j + 1 .. i : part[k].joined
  <1>1. i - 1 \in Back /\ Back \in SUBSET Nat
    OBVIOUS
  <1>2. PICK least \in Back : \A other \in Back : least <= other
    <2> HIDE DEF Back
    <2> QED
      BY <1>1, LeastPlace
  <1>3. i - least \in 1 .. i /\ Starts(i - least)
    <2>1. ASSUME NEW k \in i - least + 1 .. i PROVE part[k].joined
      <3>1. i - k \in 0 .. i - 1 /\ i - k < least /\ i - (i - k) = k
        BY <1>2, <2>1
      <3>2. i - k \notin Back
        <4>1. least \in Nat /\ ~(least <= i - k)
          BY <1>2, <3>1
        <4> HIDE DEF Back
        <4> QED
          BY <1>2, <4>1
      <3> QED
        BY <3>1, <3>2
    <2> QED
      BY <1>2, <2>1
  <1>4. RunOf(part, i) \in 1 .. i /\ Starts(RunOf(part, i))
    BY <1>3 DEF RunOf
  <1> QED
    BY <1>4

-----------------------------------------------------------------------------
(* One element, for each pass. *)

Classes == {"obfuscated", "dde", "include", "safe", "other"}

ScanStates == [open : Seq(Fields), found : Seq(Classes)]

StripStates == [open : Seq(Fields), doomed : Seq(Fields), strays : SUBSET Nat]

LEMMA ConcatIs ==
  ASSUME NEW S, NEW s \in Seq(S), NEW t \in Seq(S)
  PROVE  /\ Len(s) \in Nat /\ Len(t) \in Nat
         /\ s \o t \in Seq(S)
         /\ Len(s \o t) = Len(s) + Len(t)
         /\ \A k \in 1 .. Len(s) : (s \o t)[k] = s[k]
         /\ \A k \in 1 .. Len(t) : (s \o t)[Len(s) + k] = t[k]
  OBVIOUS

LEMMA ClassIs ==
  /\ \A text, nested : Classify(text, nested) \in Classes
  /\ \A field : ClassOf(field) \in Classes
  <1>1. ASSUME NEW text, NEW nested PROVE Classify(text, nested) \in Classes
    BY Zenon DEF Classify, Classes
  <1> QED
    BY <1>1 DEF ClassOf

LEMMA ScanStateIs ==
  ASSUME NEW scan \in ScanStates
  PROVE  scan.open \in Seq(Fields) /\ scan.found \in Seq(Classes)
  BY DEF ScanStates

LEMMA StripStateIs ==
  ASSUME NEW strip \in StripStates
  PROVE  strip.open \in Seq(Fields) /\ strip.doomed \in Seq(Fields) /\ strip.strays \in SUBSET Nat
  BY DEF StripStates

LEMMA ScanBegin ==
  ASSUME NEW scan \in ScanStates, NEW el \in Pieces, el.e = "begin"
  PROVE  /\ ScanElement(scan, el).open = Opened(scan.open, OpenField({}))
         /\ ScanElement(scan, el).found = scan.found
         /\ ScanElement(scan, el) \in ScanStates
  <1>1. Opened(scan.open, OpenField({})) \in Seq(Fields)
    BY ScanStateIs, OpenFieldIs, OpenedIs
  <1> QED
    BY <1>1 DEF ScanElement, ScanStates

LEMMA ScanSeparate ==
  ASSUME NEW scan \in ScanStates, NEW el \in Pieces, el.e = "separate", scan.open # <<>>
  PROVE  /\ ScanElement(scan, el).open = Separated(scan.open)
         /\ ScanElement(scan, el).found = scan.found
         /\ ScanElement(scan, el) \in ScanStates
  <1>1. Separated(scan.open) \in Seq(Fields)
    BY ScanStateIs, SeparatedIs
  <1> QED
    BY <1>1 DEF ScanElement, ScanStates

LEMMA ScanEnd ==
  ASSUME NEW scan \in ScanStates, NEW el \in Pieces, el.e = "end", scan.open # <<>>
  PROVE  /\ ScanElement(scan, el).open = Front(scan.open)
         /\ ScanElement(scan, el).found = Append(scan.found, ClassOf(Last(scan.open)))
         /\ ScanElement(scan, el) \in ScanStates
  <1>1. Front(scan.open) \in Seq(Fields)
    BY ScanStateIs, ClosedIs
  <1>2. Append(scan.found, ClassOf(Last(scan.open))) \in Seq(Classes)
    BY ScanStateIs, ClassIs
  <1> QED
    BY <1>1, <1>2 DEF ScanElement, ScanStates

LEMMA ScanInstr ==
  ASSUME NEW scan \in ScanStates, NEW el \in Pieces, el.e = "instr", Writing(scan.open)
  PROVE  /\ ScanElement(scan, el).open = Instructed(scan.open, el.of)
         /\ ScanElement(scan, el).found = scan.found
         /\ ScanElement(scan, el) \in ScanStates
  <1>1. scan.open # <<>> /\ el.of \in STRING
    BY DEF Writing, Pieces
  <1>2. Instructed(scan.open, el.of) \in Seq(Fields)
    BY <1>1, ScanStateIs, InstructedIs
  <1> QED
    BY <1>2 DEF ScanElement, ScanStates

LEMMA ScanSimple ==
  ASSUME NEW scan \in ScanStates, NEW el \in Pieces, el.e = "simple"
  PROVE  /\ ScanElement(scan, el).open = scan.open
         /\ ScanElement(scan, el).found = Append(scan.found, Classify(<<el.of>>, FALSE))
         /\ ScanElement(scan, el) \in ScanStates
  <1> DEFINE class == Classify(<<el.of>>, FALSE)
  <1>1. class \in Classes
    BY ClassIs
  <1> HIDE DEF class
  <1>2. Append(scan.found, class) \in Seq(Classes)
    BY <1>1, ScanStateIs
  <1> QED
    BY <1>2 DEF ScanElement, ScanStates, class

(* An element that means nothing where it stands. *)
Idle(open, el) ==
  /\ el.e \notin {"begin", "simple"}
  /\ el.e \in {"separate", "end"} => open = <<>>
  /\ el.e = "instr" => ~Writing(open)

LEMMA ScanIdle ==
  ASSUME NEW scan \in ScanStates, NEW el \in Pieces, Idle(scan.open, el)
  PROVE  ScanElement(scan, el) = scan
  BY DEF ScanElement, Idle

LEMMA ElementCases ==
  ASSUME NEW open, NEW el
  PROVE  \/ el.e = "begin"
         \/ el.e = "separate" /\ open # <<>>
         \/ el.e = "end" /\ open # <<>>
         \/ el.e = "instr" /\ Writing(open)
         \/ el.e = "simple"
         \/ Idle(open, el)
  BY DEF Idle

(* The fields that are open once the run of the element has been reached. *)
Reached(open, part, i) ==
  IF RunOf(part, i) = i /\ part[i].e # "simple" THEN WithRun(open, RunOf(part, i)) ELSE open

LEMMA ReachedIs ==
  ASSUME NEW part \in Seq(Pieces), NEW i \in 1 .. Len(part), NEW open \in Seq(Fields)
  PROVE  /\ Reached(open, part, i) \in Seq(Fields)
         /\ Len(Reached(open, part, i)) = Len(open)
         /\ \A p \in 1 .. Len(open) :
              Reached(open, part, i)[p] =
                IF RunOf(part, i) = i /\ part[i].e # "simple" /\ ~open[p].result
                  THEN InRun(open[p], i) ELSE open[p]
  <1>1. RunOf(part, i) \in Nat
    BY RunIs
  <1> QED
    BY <1>1, WithRunIs DEF Reached

LEMMA StripBegin ==
  ASSUME NEW part \in Seq(Pieces), NEW i \in 1 .. Len(part), NEW keepSafe,
         NEW strip \in StripStates, part[i].e = "begin"
  PROVE  LET after == StripElement(strip, i, part, keepSafe)
             open == Reached(strip.open, part, i)
         IN /\ after.open = Opened(open, OpenField({RunOf(part, i)}))
            /\ after.doomed = strip.doomed /\ after.strays = strip.strays
            /\ after \in StripStates
  <1> DEFINE open == Reached(strip.open, part, i)
  <1>1. RunOf(part, i) \in Nat /\ open \in Seq(Fields)
    BY RunIs, ReachedIs, StripStateIs
  <1>2. Opened(open, OpenField({RunOf(part, i)})) \in Seq(Fields)
    BY <1>1, OpenFieldIs, OpenedIs
  <1> QED
    BY <1>2 DEF StripElement, Reached, StripStates

LEMMA StripSeparate ==
  ASSUME NEW part \in Seq(Pieces), NEW i \in 1 .. Len(part), NEW keepSafe,
         NEW strip \in StripStates, part[i].e = "separate", strip.open # <<>>
  PROVE  LET after == StripElement(strip, i, part, keepSafe)
             open == Reached(strip.open, part, i)
         IN /\ after.open \in Seq(Fields)
            /\ Len(after.open) = Len(open)
            /\ \A p \in 1 .. Len(open) :
                 after.open[p] = IF p = Len(open) THEN InRun(Resulting(open[p]), RunOf(part, i))
                                 ELSE open[p]
            /\ after.doomed = strip.doomed /\ after.strays = strip.strays
            /\ after \in StripStates
  <1> DEFINE open == Reached(strip.open, part, i)
             new == OnLast(Separated(open), LAMBDA f : [f EXCEPT !.region = @ \cup {RunOf(part, i)}])
  <1>1. RunOf(part, i) \in Nat /\ open \in Seq(Fields) /\ Len(open) = Len(strip.open)
    BY RunIs, ReachedIs, StripStateIs
  <1>2. open # <<>>
    BY <1>1, StripStateIs, EmptySeq
  <1>3. /\ new \in Seq(Fields)
        /\ Len(new) = Len(open)
        /\ \A p \in 1 .. Len(open) :
             new[p] = IF p = Len(open) THEN InRun(Resulting(open[p]), RunOf(part, i)) ELSE open[p]
    BY <1>1, <1>2, SeparatedInRunIs
  <1>4. StripElement(strip, i, part, keepSafe) = [strip EXCEPT !.open = new]
    BY <1>2 DEF StripElement, Reached
  <1> QED
    BY <1>3, <1>4 DEF StripStates

LEMMA StripEnd ==
  ASSUME NEW part \in Seq(Pieces), NEW i \in 1 .. Len(part), NEW keepSafe,
         NEW strip \in StripStates, part[i].e = "end", strip.open # <<>>
  PROVE  LET after == StripElement(strip, i, part, keepSafe)
             open == Reached(strip.open, part, i)
         IN /\ after.open = Front(open)
            /\ after.doomed = (IF keepSafe /\ ClassOf(Last(open)) = "safe" THEN strip.doomed
                               ELSE Append(strip.doomed, InRun(Last(open), RunOf(part, i))))
            /\ after.strays = strip.strays
            /\ after \in StripStates
  <1> DEFINE open == Reached(strip.open, part, i)
             bad == Append(strip.doomed, InRun(Last(open), RunOf(part, i)))
  <1>1. RunOf(part, i) \in Nat /\ open \in Seq(Fields) /\ Len(open) = Len(strip.open)
    BY RunIs, ReachedIs, StripStateIs
  <1>2. open # <<>>
    BY <1>1, StripStateIs, EmptySeq
  <1>3. Front(open) \in Seq(Fields) /\ Last(open) \in Fields
    BY <1>1, <1>2, ClosedIs
  <1>4. bad \in Seq(Fields)
    BY <1>1, <1>3, InRunIs, StripStateIs
  <1>5. StripElement(strip, i, part, keepSafe) =
          [strip EXCEPT !.open = Front(open),
                        !.doomed = IF keepSafe /\ ClassOf(Last(open)) = "safe" THEN @ ELSE bad]
    BY <1>2 DEF StripElement, Reached, InRun
  <1> QED
    BY <1>3, <1>4, <1>5 DEF StripStates

LEMMA StripInstr ==
  ASSUME NEW part \in Seq(Pieces), NEW i \in 1 .. Len(part), NEW keepSafe,
         NEW strip \in StripStates, part[i].e = "instr",
         Writing(Reached(strip.open, part, i))
  PROVE  LET after == StripElement(strip, i, part, keepSafe)
             open == Reached(strip.open, part, i)
         IN /\ after.open = Instructed(open, part[i].of)
            /\ after.doomed = strip.doomed /\ after.strays = strip.strays
            /\ after \in StripStates
  <1> DEFINE open == Reached(strip.open, part, i)
  <1>1. open \in Seq(Fields) /\ part[i].of \in STRING
    <2>1. part[i] \in Pieces
      OBVIOUS
    <2> QED
      BY <2>1, ReachedIs, StripStateIs DEF Pieces
  <1>2. open # <<>>
    BY DEF Writing
  <1>3. Instructed(open, part[i].of) \in Seq(Fields)
    BY <1>1, <1>2, InstructedIs
  <1> QED
    BY <1>3 DEF StripElement, Reached, StripStates

(* What changes no field: a simple field, and what means nothing. *)
LEMMA StripElse ==
  ASSUME NEW part \in Seq(Pieces), NEW i \in 1 .. Len(part), NEW keepSafe,
         NEW strip \in StripStates,
         part[i].e = "simple" \/ Idle(Reached(strip.open, part, i), part[i])
  PROVE  LET after == StripElement(strip, i, part, keepSafe)
             open == Reached(strip.open, part, i)
         IN /\ after.open = open
            /\ after.doomed = strip.doomed
            /\ after.strays = (IF part[i].e = "instr" THEN strip.strays \cup {i} ELSE strip.strays)
            /\ after \in StripStates
  <1> DEFINE open == Reached(strip.open, part, i)
  <1>1. open \in Seq(Fields)
    BY ReachedIs, StripStateIs
  <1>2. strip.strays \cup {i} \in SUBSET Nat
    BY StripStateIs
  <1>3. StripElement(strip, i, part, keepSafe) =
          IF part[i].e = "instr" THEN [strip EXCEPT !.open = open, !.strays = @ \cup {i}]
          ELSE [strip EXCEPT !.open = open]
    BY DEF StripElement, Reached, Idle
  <1> QED
    BY <1>1, <1>2, <1>3 DEF StripStates

-----------------------------------------------------------------------------
(* The two passes see the same fields: what they know of the open ones     *)
(* differs in nothing but the region.                                      *)

SameField(f, g) == f.text = g.text /\ f.nested = g.nested /\ f.result = g.result

Alike(seen, open) ==
  /\ Len(seen) = Len(open)
  /\ \A p \in 1 .. Len(seen) : SameField(seen[p], open[p])

LEMMA AlikeReached ==
  ASSUME NEW part \in Seq(Pieces), NEW i \in 1 .. Len(part),
         NEW seen \in Seq(Fields), NEW open \in Seq(Fields), Alike(seen, open)
  PROVE  Alike(seen, Reached(open, part, i))
  <1>1. \A p \in 1 .. Len(open) : SameField(open[p], Reached(open, part, i)[p])
    <2>1. ASSUME NEW p \in 1 .. Len(open) PROVE SameField(open[p], Reached(open, part, i)[p])
      <3>1. open[p] \in Fields /\ i \in Nat
        OBVIOUS
      <3>2. SameField(open[p], InRun(open[p], i))
        BY <3>1, InRunIs DEF SameField
      <3> QED
        BY <3>2, ReachedIs DEF SameField
    <2> QED
      BY <2>1
  <1>2. Len(Reached(open, part, i)) = Len(open)
    BY ReachedIs
  <1> QED
    BY <1>1, <1>2 DEF Alike, SameField

LEMMA AlikeWriting ==
  ASSUME NEW seen \in Seq(Fields), NEW open \in Seq(Fields), Alike(seen, open)
  PROVE  /\ (seen = <<>>) = (open = <<>>)
         /\ Writing(seen) = Writing(open)
  <1>1. (seen = <<>>) = (Len(seen) = 0) /\ (open = <<>>) = (Len(open) = 0)
    BY EmptySeq
  <1>2. Len(seen) \in Nat /\ Len(seen) = Len(open)
    BY DEF Alike
  <1>3. Len(seen) > 0 => seen[Len(seen)].result = open[Len(open)].result
    BY <1>2 DEF Alike, SameField
  <1> QED
    BY <1>1, <1>2, <1>3, WritingIs

LEMMA AlikeWording ==
  ASSUME NEW f \in Fields, NEW g \in Fields, SameField(f, g), NEW piece \in STRING
  PROVE  SameField(Wording(f, piece), Wording(g, piece))
  <1>1. /\ Wording(f, piece).text = Append(f.text, piece)
        /\ Wording(f, piece).nested = f.nested /\ Wording(f, piece).result = f.result
    BY WordingIs
  <1>2. /\ Wording(g, piece).text = Append(g.text, piece)
        /\ Wording(g, piece).nested = g.nested /\ Wording(g, piece).result = g.result
    BY WordingIs
  <1>3. Append(f.text, piece) = Append(g.text, piece)
    BY Zenon DEF SameField
  <1> HIDE DEF SameField
  <1> QED
    BY <1>1, <1>2, <1>3, Zenon DEF SameField

LEMMA AlikeOpened ==
  ASSUME NEW seen \in Seq(Fields), NEW open \in Seq(Fields), Alike(seen, open),
         NEW f \in Fields, NEW g \in Fields, SameField(f, g)
  PROVE  Alike(Opened(seen, f), Opened(open, g))
  <1> DEFINE s == Opened(seen, f)
             t == Opened(open, g)
  <1>1. Len(seen) = Len(open) /\ Len(s) = Len(seen) + 1 /\ Len(t) = Len(open) + 1
    BY OpenedIs DEF Alike
  <1>2. SameField(s[Len(seen) + 1], t[Len(seen) + 1])
    BY <1>1, OpenedIs
  <1>3. ASSUME NEW p \in 1 .. Len(seen) PROVE SameField(s[p], t[p])
    <2>1. seen[p] \in Fields /\ open[p] \in Fields /\ SameField(seen[p], open[p])
      BY <1>1 DEF Alike
    <2>2. SameField(Nesting(seen[p]), Nesting(open[p]))
      BY <2>1, NestingIs DEF SameField
    <2>3. s[p] = IF p = Len(seen) /\ ~seen[p].result /\ IsBlank(seen[p].text)
                   THEN Nesting(seen[p]) ELSE seen[p]
      BY OpenedIs
    <2>4. t[p] = IF p = Len(open) /\ ~open[p].result /\ IsBlank(open[p].text)
                   THEN Nesting(open[p]) ELSE open[p]
      BY <1>1, OpenedIs, ZenonT(40)
    <2> QED
      BY <1>1, <2>1, <2>2, <2>3, <2>4 DEF SameField
  <1> HIDE DEF s, t
  <1>4. \A p \in 1 .. Len(seen) + 1 : p \in 1 .. Len(seen) \/ p = Len(seen) + 1
    OBVIOUS
  <1>5. Alike(s, t)
    BY <1>1, <1>2, <1>3, <1>4 DEF Alike
  <1> QED
    BY <1>5 DEF s, t

(* What an element adds to what was found and to what is to go. *)
Accounted(el, keepSafe, scan, seen, strip, after) ==
  \/ /\ el.e # "simple"
     /\ seen.found = scan.found /\ after.doomed = strip.doomed
  \/ /\ el.e = "simple"
     /\ seen.found = Append(scan.found, Classify(<<el.of>>, FALSE))
     /\ after.doomed = strip.doomed
  \/ /\ el.e # "simple"
     /\ \E field \in Fields :
          /\ seen.found = Append(scan.found, ClassOf(field))
          /\ after.doomed = IF keepSafe /\ ClassOf(field) = "safe" THEN strip.doomed
                            ELSE Append(strip.doomed, field)

LEMMA AlikeElement ==
  ASSUME NEW part \in Seq(Pieces), NEW i \in 1 .. Len(part), NEW keepSafe,
         NEW scan \in ScanStates, NEW strip \in StripStates, Alike(scan.open, strip.open),
         NEW seen, seen = ScanElement(scan, part[i]),
         NEW after, after = StripElement(strip, i, part, keepSafe)
  PROVE  /\ seen \in ScanStates /\ after \in StripStates
         /\ Alike(seen.open, after.open)
         /\ Accounted(part[i], keepSafe, scan, seen, strip, after)
  <1> DEFINE el == part[i]
             open == Reached(strip.open, part, i)
             run == RunOf(part, i)
  <1>1. el \in Pieces /\ run \in Nat
    BY RunIs
  <1>2. scan.open \in Seq(Fields) /\ strip.open \in Seq(Fields) /\ open \in Seq(Fields)
    BY ScanStateIs, StripStateIs, ReachedIs
  <1>3. Alike(scan.open, open)
    BY <1>2, AlikeReached
  <1>4. (scan.open = <<>>) = (open = <<>>) /\ (scan.open = <<>>) = (strip.open = <<>>)
    BY <1>2, <1>3, AlikeWriting
  <1>5. Writing(scan.open) = Writing(open)
    BY <1>2, <1>3, AlikeWriting
  <1>6. Len(scan.open) = Len(open) /\ Len(open) \in Nat
    BY <1>2, <1>3 DEF Alike
  <1>7. CASE el.e = "begin"
    <2>1. SameField(OpenField({}), OpenField({run}))
      BY <1>1, OpenFieldIs DEF SameField
    <2>2. Alike(Opened(scan.open, OpenField({})), Opened(open, OpenField({run})))
      <3>1. OpenField({}) \in Fields /\ OpenField({run}) \in Fields
        BY <1>1, OpenFieldIs
      <3> QED
        BY <1>2, <1>3, <2>1, <3>1, AlikeOpened
    <2> QED
      BY <1>1, <1>7, <2>2, ScanBegin, StripBegin DEF Accounted
  <1>8. CASE el.e = "separate" /\ scan.open # <<>>
    <2>1. /\ seen.open = Separated(scan.open)
          /\ seen.found = scan.found /\ seen \in ScanStates
      BY <1>1, <1>8, ScanSeparate
    <2>2. /\ Len(after.open) = Len(open)
          /\ \A p \in 1 .. Len(open) :
               after.open[p] = IF p = Len(open) THEN InRun(Resulting(open[p]), run) ELSE open[p]
          /\ after.doomed = strip.doomed /\ after \in StripStates
      BY <1>4, <1>8, StripSeparate
    <2>3. /\ Len(seen.open) = Len(scan.open)
          /\ \A p \in 1 .. Len(scan.open) :
               seen.open[p] = IF p = Len(scan.open) THEN Resulting(scan.open[p]) ELSE scan.open[p]
      BY <1>2, <1>8, <2>1, SeparatedIs
    <2>4. ASSUME NEW p \in 1 .. Len(open) PROVE SameField(seen.open[p], after.open[p])
      <3>1. scan.open[p] \in Fields /\ open[p] \in Fields /\ SameField(scan.open[p], open[p])
        BY <1>2, <1>3, <1>6 DEF Alike
      <3>2. SameField(Resulting(scan.open[p]), InRun(Resulting(open[p]), run))
        BY <1>1, <3>1, ResultingIs, InRunIs DEF SameField
      <3> QED
        BY <1>6, <2>2, <2>3, <3>1, <3>2
    <2>5. Alike(seen.open, after.open)
      BY <1>6, <2>2, <2>3, <2>4 DEF Alike
    <2> QED
      BY <1>8, <2>1, <2>2, <2>5 DEF Accounted
  <1>9. CASE el.e = "end" /\ scan.open # <<>>
    <2> DEFINE field == InRun(Last(open), run)
    <2>1. /\ seen.open = Front(scan.open) /\ seen \in ScanStates
          /\ seen.found = Append(scan.found, ClassOf(Last(scan.open)))
      BY <1>1, <1>9, ScanEnd
    <2>2. /\ after.open = Front(open) /\ after \in StripStates
          /\ after.doomed = IF keepSafe /\ ClassOf(Last(open)) = "safe" THEN strip.doomed
                            ELSE Append(strip.doomed, field)
      BY <1>4, <1>9, StripEnd
    <2>3. Last(scan.open) \in Fields /\ Last(open) \in Fields /\ SameField(Last(scan.open), Last(open))
      <3>1. Len(open) > 0
        BY <1>2, <1>4, <1>9, EmptySeq
      <3>2. SameField(scan.open[Len(open)], open[Len(open)])
        BY <1>3, <1>6, <3>1 DEF Alike
      <3> QED
        BY <1>2, <1>4, <1>6, <1>9, <3>2, ClosedIs
    <2>4. field \in Fields /\ SameField(Last(scan.open), field) /\ SameField(Last(open), field)
      BY <1>1, <2>3, InRunIs DEF SameField
    <2>5. ClassOf(Last(scan.open)) = ClassOf(field) /\ ClassOf(Last(open)) = ClassOf(field)
      BY <2>4 DEF ClassOf, SameField
    <2>6. Alike(seen.open, after.open)
      <3>1. /\ Len(Front(scan.open)) = Len(scan.open) - 1
            /\ \A p \in 1 .. Len(scan.open) - 1 : Front(scan.open)[p] = scan.open[p]
        BY <1>2, <1>9, ClosedIs
      <3>2. /\ Len(Front(open)) = Len(open) - 1
            /\ \A p \in 1 .. Len(open) - 1 : Front(open)[p] = open[p]
        BY <1>2, <1>4, <1>9, ClosedIs
      <3> QED
        BY <1>3, <1>6, <2>1, <2>2, <3>1, <3>2 DEF Alike
    <2> HIDE DEF field, el, open
    <2>7. \E f \in Fields :
            /\ seen.found = Append(scan.found, ClassOf(f))
            /\ after.doomed = IF keepSafe /\ ClassOf(f) = "safe" THEN strip.doomed
                              ELSE Append(strip.doomed, f)
      BY <2>1, <2>2, <2>4, <2>5
    <2> QED
      BY <1>9, <2>1, <2>2, <2>6, <2>7 DEF el, open, Accounted
  <1>10. CASE el.e = "instr" /\ Writing(scan.open)
    <2>1. open # <<>> /\ scan.open # <<>> /\ el.of \in STRING
      BY <1>1, <1>4, <1>10 DEF Writing, Pieces
    <2>2. /\ seen.open = Instructed(scan.open, el.of)
          /\ seen.found = scan.found /\ seen \in ScanStates
      BY <1>1, <1>10, ScanInstr
    <2>3. /\ after.open = Instructed(open, el.of)
          /\ after.doomed = strip.doomed /\ after \in StripStates
      BY <1>5, <1>10, StripInstr
    <2>4. /\ Len(seen.open) = Len(scan.open)
          /\ \A p \in 1 .. Len(scan.open) :
               seen.open[p] =
                 IF p = Len(scan.open) THEN Wording(scan.open[p], el.of) ELSE scan.open[p]
      BY <1>2, <2>1, <2>2, InstructedIs
    <2>5. /\ Len(after.open) = Len(open)
          /\ \A p \in 1 .. Len(open) :
               after.open[p] = IF p = Len(open) THEN Wording(open[p], el.of) ELSE open[p]
      <3> HIDE DEF open, el
      <3>1. /\ Len(Instructed(open, el.of)) = Len(open)
            /\ \A p \in 1 .. Len(open) :
                 Instructed(open, el.of)[p] =
                   IF p = Len(open) THEN Wording(open[p], el.of) ELSE open[p]
        BY <1>2, <2>1, InstructedIs
      <3> QED
        BY <2>3, <3>1
    <2>6. ASSUME NEW p \in 1 .. Len(open) PROVE SameField(seen.open[p], after.open[p])
      <3>1. scan.open[p] \in Fields /\ open[p] \in Fields /\ SameField(scan.open[p], open[p])
        BY <1>2, <1>3, <1>6 DEF Alike
      <3> HIDE DEF open, el
      <3>2. SameField(Wording(scan.open[p], el.of), Wording(open[p], el.of))
        BY <2>1, <3>1, AlikeWording
      <3> QED
        BY <1>6, <2>4, <2>5, <3>1, <3>2
    <2>7. Alike(seen.open, after.open)
      BY <1>6, <2>4, <2>5, <2>6 DEF Alike
    <2> QED
      BY <1>10, <2>2, <2>3, <2>7 DEF Accounted
  <1>11. CASE el.e = "simple"
    <2>1. Reached(strip.open, part, i) = strip.open
      BY <1>11 DEF Reached
    <2>2. /\ seen.open = scan.open /\ seen \in ScanStates
          /\ seen.found = Append(scan.found, Classify(<<el.of>>, FALSE))
      BY <1>1, <1>11, ScanSimple
    <2>3. after.open = open /\ after.doomed = strip.doomed /\ after \in StripStates
      BY <1>11, StripElse
    <2> QED
      BY <1>3, <1>11, <2>2, <2>3 DEF Accounted
  <1>12. CASE Idle(scan.open, el)
    <2>1. Idle(open, el)
      BY <1>4, <1>5, <1>12 DEF Idle
    <2>2. seen = scan
      BY <1>1, <1>12, ScanIdle
    <2>3. after.open = open /\ after.doomed = strip.doomed /\ after \in StripStates
      BY <2>1, StripElse
    <2> QED
      BY <1>3, <1>12, <2>2, <2>3 DEF Idle, Accounted
  <1> QED
    BY <1>7, <1>8, <1>9, <1>10, <1>11, <1>12, ElementCases

LEMMA PassesAreAlike ==
  ASSUME NEW part \in Seq(Pieces), NEW keepSafe
  PROVE  \A i \in 0 .. Len(part) :
           /\ Scans(part)[i] \in ScanStates /\ Strips(part, keepSafe)[i] \in StripStates
           /\ Alike(Scans(part)[i].open, Strips(part, keepSafe)[i].open)
  <1> DEFINE scan == Scans(part)
             strip == Strips(part, keepSafe)
             S == {i \in 0 .. Len(part) :
                     /\ scan[i] \in ScanStates /\ strip[i] \in StripStates
                     /\ Alike(scan[i].open, strip[i].open)}
  <1>1. Len(part) \in Nat
    OBVIOUS
  <1>2. 0 \in S
    <2>1. scan[0] = ScanStart /\ strip[0] = StripStart
      BY <1>1, ScansAre, StripsAre
    <2>2. ScanStart \in ScanStates /\ StripStart \in StripStates
      BY DEF ScanStart, StripStart, ScanStates, StripStates
    <2>3. Alike(ScanStart.open, StripStart.open)
      BY DEF ScanStart, StripStart, Alike
    <2> QED
      BY <1>1, <2>1, <2>2, <2>3
  <1>3. ASSUME NEW i \in 0 .. Len(part) - 1, i \in S PROVE i + 1 \in S
    <2>1. /\ scan[i] \in ScanStates /\ strip[i] \in StripStates
          /\ Alike(scan[i].open, strip[i].open)
      BY <1>3
    <2>2. i + 1 \in 1 .. Len(part) /\ i + 1 \in 0 .. Len(part) /\ (i + 1) - 1 = i
      BY <1>1
    <2>3. /\ scan[i + 1] = ScanElement(scan[i], part[i + 1])
          /\ strip[i + 1] = StripElement(strip[i], i + 1, part, keepSafe)
      BY <1>1, <2>2, ScansAre, StripsAre
    <2> HIDE DEF scan, strip
    <2>4. /\ scan[i + 1] \in ScanStates /\ strip[i + 1] \in StripStates
          /\ Alike(scan[i + 1].open, strip[i + 1].open)
      BY <2>1, <2>2, <2>3, AlikeElement
    <2> QED
      BY <2>2, <2>4
  <1>4. \A i \in 0 .. Len(part) : i \in S
    <2>1. \A i \in 0 .. Len(part) - 1 : i \in S => i + 1 \in S
      BY <1>3
    <2> HIDE DEF S
    <2> QED
      BY <1>1, <1>2, <2>1, PlaceInduction
  <1> QED
    BY <1>4

SimpleUpTo(part, i) == {j \in 1 .. i : part[j].e = "simple"}

LEMMA SimpleCount ==
  ASSUME NEW part, NEW i \in Nat
  PROVE  /\ Cardinality(SimpleUpTo(part, i)) \in Nat
         /\ Cardinality(SimpleUpTo(part, 0)) = 0
         /\ Cardinality(SimpleUpTo(part, i + 1)) =
              Cardinality(SimpleUpTo(part, i)) + (IF part[i + 1].e = "simple" THEN 1 ELSE 0)
  <1>1. IsFiniteSet(1 .. i)
    BY FS_Interval
  <1>2. IsFiniteSet(SimpleUpTo(part, i))
    <2>1. SimpleUpTo(part, i) \subseteq 1 .. i
      BY DEF SimpleUpTo
    <2> QED
      BY <1>1, <2>1, FS_Subset
  <1>3. Cardinality(SimpleUpTo(part, i)) \in Nat
    BY <1>2, FS_CardinalityType
  <1>4. Cardinality(SimpleUpTo(part, 0)) = 0
    <2>1. SimpleUpTo(part, 0) = {}
      BY DEF SimpleUpTo
    <2> QED
      BY <2>1, FS_EmptySet
  <1>5. SimpleUpTo(part, i + 1) =
          IF part[i + 1].e = "simple" THEN SimpleUpTo(part, i) \cup {i + 1} ELSE SimpleUpTo(part, i)
    <2>1. 1 .. i + 1 = (1 .. i) \cup {i + 1}
      OBVIOUS
    <2> QED
      BY <2>1 DEF SimpleUpTo
  <1>6. i + 1 \notin SimpleUpTo(part, i)
    BY DEF SimpleUpTo
  <1>7. Cardinality(SimpleUpTo(part, i) \cup {i + 1}) = Cardinality(SimpleUpTo(part, i)) + 1
    BY <1>2, <1>6, FS_AddElement
  <1> QED
    BY <1>3, <1>4, <1>5, <1>7

(* With the list of allowed fields, or without one. *)
KeepsSafe(keepSafe) == keepSafe
KeepsNone(keepSafe) == ~keepSafe

(* As many fields are removed as are found, when none may stay. *)
LEMMA FoundIsDoomed ==
  ASSUME NEW part \in Seq(Pieces), NEW keepSafe, KeepsNone(keepSafe)
  PROVE  \A i \in 0 .. Len(part) :
           Len(Scans(part)[i].found) =
             Len(Strips(part, keepSafe)[i].doomed) + Cardinality(SimpleUpTo(part, i))
  <1> DEFINE scan == Scans(part)
             strip == Strips(part, keepSafe)
             S == {i \in 0 .. Len(part) :
                     Len(scan[i].found) =
                       Len(strip[i].doomed) + Cardinality(SimpleUpTo(part, i))}
  <1>1. Len(part) \in Nat
    OBVIOUS
  <1>2. \A i \in 0 .. Len(part) :
          /\ scan[i] \in ScanStates /\ strip[i] \in StripStates
          /\ Alike(scan[i].open, strip[i].open)
    BY PassesAreAlike
  <1>3. 0 \in S
    <2>1. scan[0].found = <<>> /\ strip[0].doomed = <<>>
      BY <1>1, ScansAre, StripsAre DEF ScanStart, StripStart
    <2>2. Cardinality(SimpleUpTo(part, 0)) = 0
      BY SimpleCount
    <2> QED
      BY <1>1, <2>1, <2>2
  <1>4. ASSUME NEW i \in 0 .. Len(part) - 1, i \in S PROVE i + 1 \in S
    <2>1. i + 1 \in 1 .. Len(part) /\ i + 1 \in 0 .. Len(part) /\ (i + 1) - 1 = i
      BY <1>1
    <2>2. /\ scan[i + 1] = ScanElement(scan[i], part[i + 1])
          /\ strip[i + 1] = StripElement(strip[i], i + 1, part, keepSafe)
      BY <1>1, <2>1, ScansAre, StripsAre
    <2>3. scan[i].found \in Seq(Classes) /\ strip[i].doomed \in Seq(Fields)
      <3>1. scan[i] \in ScanStates /\ strip[i] \in StripStates
        BY <1>2
      <3> QED
        BY <3>1, ScanStateIs, StripStateIs
    <2>4. Len(scan[i].found) = Len(strip[i].doomed) + Cardinality(SimpleUpTo(part, i))
      BY <1>4
    <2>5. /\ Cardinality(SimpleUpTo(part, i)) \in Nat
          /\ Cardinality(SimpleUpTo(part, i + 1)) =
               Cardinality(SimpleUpTo(part, i)) + (IF part[i + 1].e = "simple" THEN 1 ELSE 0)
      BY SimpleCount
    <2>6. Accounted(part[i + 1], keepSafe, scan[i], scan[i + 1], strip[i], strip[i + 1])
      <3> HIDE DEF scan, strip
      <3> QED
        <4>1. /\ scan[i] \in ScanStates /\ strip[i] \in StripStates
              /\ Alike(scan[i].open, strip[i].open)
          BY <1>2, SMTT(30)
        <4> QED
          BY <2>1, <2>2, <4>1, AlikeElement
    <2> HIDE DEF scan, strip
    <2>7. Len(scan[i + 1].found) =
            Len(strip[i + 1].doomed) + Cardinality(SimpleUpTo(part, i + 1))
      <3>1. CASE part[i + 1].e = "simple"
        <4> DEFINE class == Classify(<<part[i + 1].of>>, FALSE)
        <4>1. class \in Classes
          BY ClassIs
        <4>2. scan[i + 1].found = Append(scan[i].found, class) /\ strip[i + 1].doomed = strip[i].doomed
          BY <2>6, <3>1 DEF Accounted
        <4> HIDE DEF class
        <4>3. Len(Append(scan[i].found, class)) = Len(scan[i].found) + 1
          BY <2>3, <4>1
        <4>4. Len(strip[i].doomed) \in Nat
          BY <2>3
        <4>5. Len(scan[i + 1].found) = Len(scan[i].found) + 1
          BY <4>2, <4>3, Zenon
        <4>6. Len(strip[i + 1].doomed) = Len(strip[i].doomed)
          BY <4>2, Zenon
        <4>7. Cardinality(SimpleUpTo(part, i + 1)) = Cardinality(SimpleUpTo(part, i)) + 1
          BY <2>5, <3>1
        <4>8. Cardinality(SimpleUpTo(part, i)) \in Nat
          BY <2>5
        <4>9. Len(scan[i].found) + 1 =
                Len(strip[i].doomed) + (Cardinality(SimpleUpTo(part, i)) + 1)
          BY <2>4, <4>4, <4>8, SMTT(30)
        <4> QED
          BY <4>5, <4>6, <4>7, <4>9, Zenon
      <3>2. CASE /\ part[i + 1].e # "simple"
                 /\ scan[i + 1].found = scan[i].found /\ strip[i + 1].doomed = strip[i].doomed
        BY <2>4, <2>5, <3>2
      <3>3. ASSUME part[i + 1].e # "simple", NEW field \in Fields,
                   scan[i + 1].found = Append(scan[i].found, ClassOf(field)),
                   strip[i + 1].doomed = Append(strip[i].doomed, field)
            PROVE  Len(scan[i + 1].found) =
                     Len(strip[i + 1].doomed) + Cardinality(SimpleUpTo(part, i + 1))
        <4>1. ClassOf(field) \in Classes
          BY ClassIs
        <4>2. Len(Append(scan[i].found, ClassOf(field))) = Len(scan[i].found) + 1
          BY <2>3, <4>1
        <4>3. Len(Append(strip[i].doomed, field)) = Len(strip[i].doomed) + 1
          BY <2>3
        <4>4. Len(strip[i].doomed) \in Nat
          BY <2>3
        <4> QED
          BY <2>4, <2>5, <3>3, <4>2, <4>3, <4>4
      <3> QED
        BY <2>6, <3>1, <3>2, <3>3 DEF Accounted, KeepsNone
    <2> QED
      BY <2>1, <2>7
  <1>5. \A i \in 0 .. Len(part) : i \in S
    <2>1. \A i \in 0 .. Len(part) - 1 : i \in S => i + 1 \in S
      BY <1>4
    <2> HIDE DEF S
    <2> QED
      BY <1>1, <1>3, <2>1, PlaceInduction
  <1> QED
    BY <1>5

SomeBad(found) == \E k \in 1 .. Len(found) : found[k] # "safe"

SomeGone(part, i, doomed) == Len(doomed) > 0 \/ \E j \in 1 .. i : Unwraps(part[j], TRUE)

(* A field that may not stay is one that goes. *)
LEMMA BadIsGone ==
  ASSUME NEW part \in Seq(Pieces), NEW keepSafe, KeepsSafe(keepSafe)
  PROVE  \A i \in 0 .. Len(part) :
           SomeBad(Scans(part)[i].found) => SomeGone(part, i, Strips(part, keepSafe)[i].doomed)
  <1> DEFINE scan == Scans(part)
             strip == Strips(part, keepSafe)
             S == {i \in 0 .. Len(part) :
                     SomeBad(scan[i].found) => SomeGone(part, i, strip[i].doomed)}
  <1>1. Len(part) \in Nat
    OBVIOUS
  <1>2. \A i \in 0 .. Len(part) :
          /\ scan[i] \in ScanStates /\ strip[i] \in StripStates
          /\ Alike(scan[i].open, strip[i].open)
    BY PassesAreAlike
  <1>3. 0 \in S
    <2>1. scan[0].found = <<>>
      BY <1>1, ScansAre DEF ScanStart
    <2>2. ~SomeBad(scan[0].found)
      BY <2>1 DEF SomeBad
    <2> HIDE DEF scan, strip
    <2> QED
      BY <1>1, <2>2
  <1>4. ASSUME NEW i \in 0 .. Len(part) - 1, i \in S PROVE i + 1 \in S
    <2>1. i + 1 \in 1 .. Len(part) /\ i + 1 \in 0 .. Len(part) /\ (i + 1) - 1 = i
      BY <1>1
    <2>2. /\ scan[i + 1] = ScanElement(scan[i], part[i + 1])
          /\ strip[i + 1] = StripElement(strip[i], i + 1, part, keepSafe)
      BY <1>1, <2>1, ScansAre, StripsAre
    <2>3. scan[i] \in ScanStates /\ strip[i] \in StripStates /\ Alike(scan[i].open, strip[i].open)
      <3>1. i \in 0 .. Len(part)
        BY <1>1
      <3> HIDE DEF scan, strip
      <3> QED
        BY <1>2, <3>1
    <2>4. scan[i].found \in Seq(Classes) /\ strip[i].doomed \in Seq(Fields)
      BY <2>3, ScanStateIs, StripStateIs
    <2>5. SomeBad(scan[i].found) => SomeGone(part, i, strip[i].doomed)
      BY <1>4
    <2> HIDE DEF scan, strip
    <2>6. Accounted(part[i + 1], keepSafe, scan[i], scan[i + 1], strip[i], strip[i + 1])
      BY <2>1, <2>2, <2>3, AlikeElement
    <2>7. SomeGone(part, i, strip[i].doomed) => SomeGone(part, i + 1, strip[i].doomed)
      <3>1. \A j \in 1 .. i : j \in 1 .. i + 1
        OBVIOUS
      <3> QED
        BY <3>1 DEF SomeGone
    <2>8. ASSUME NEW class \in Classes, scan[i + 1].found = Append(scan[i].found, class),
                 SomeBad(scan[i + 1].found)
          PROVE  SomeBad(scan[i].found) \/ class # "safe"
      <3>1. /\ Len(scan[i + 1].found) = Len(scan[i].found) + 1
            /\ scan[i + 1].found[Len(scan[i].found) + 1] = class
            /\ \A k \in 1 .. Len(scan[i].found) : scan[i + 1].found[k] = scan[i].found[k]
        BY <2>4, <2>8
      <3>2. Len(scan[i].found) \in Nat
        BY <2>4
      <3>3. PICK k \in 1 .. Len(scan[i + 1].found) : scan[i + 1].found[k] # "safe"
        BY <2>8 DEF SomeBad
      <3>4. k \in 1 .. Len(scan[i].found) \/ k = Len(scan[i].found) + 1
        BY <3>1, <3>2
      <3> QED
        BY <3>1, <3>3, <3>4 DEF SomeBad
    <2>9. ASSUME SomeBad(scan[i + 1].found)
          PROVE  SomeGone(part, i + 1, strip[i + 1].doomed)
      <3>1. CASE /\ part[i + 1].e # "simple"
                 /\ scan[i + 1].found = scan[i].found /\ strip[i + 1].doomed = strip[i].doomed
        BY <2>5, <2>7, <2>9, <3>1
      <3>2. CASE /\ part[i + 1].e = "simple"
                 /\ scan[i + 1].found = Append(scan[i].found, Classify(<<part[i + 1].of>>, FALSE))
                 /\ strip[i + 1].doomed = strip[i].doomed
        <4>1. SomeBad(scan[i].found) \/ Classify(<<part[i + 1].of>>, FALSE) # "safe"
          <5> DEFINE class == Classify(<<part[i + 1].of>>, FALSE)
          <5>1. class \in Classes /\ scan[i + 1].found = Append(scan[i].found, class)
            BY <3>2, ClassIs
          <5> HIDE DEF class
          <5>2. SomeBad(scan[i].found) \/ class # "safe"
            BY <2>8, <2>9, <5>1
          <5> QED
            BY <5>2 DEF class
        <4>2. CASE Classify(<<part[i + 1].of>>, FALSE) # "safe"
          <5>1. Unwraps(part[i + 1], TRUE)
            BY <3>2, <4>2 DEF Unwraps
          <5>2. i + 1 \in 1 .. i + 1
            OBVIOUS
          <5> QED
            BY <5>1, <5>2 DEF SomeGone
        <4> QED
          BY <2>5, <2>7, <3>2, <4>1, <4>2
      <3>3. ASSUME NEW field \in Fields,
                   scan[i + 1].found = Append(scan[i].found, ClassOf(field)),
                   strip[i + 1].doomed = IF keepSafe /\ ClassOf(field) = "safe" THEN strip[i].doomed
                                         ELSE Append(strip[i].doomed, field)
            PROVE  SomeGone(part, i + 1, strip[i + 1].doomed)
        <4>1. SomeBad(scan[i].found) \/ ClassOf(field) # "safe"
          BY <2>8, <2>9, <3>3, ClassIs
        <4>2. CASE ClassOf(field) # "safe"
          <5>1. strip[i + 1].doomed = Append(strip[i].doomed, field)
            BY <3>3, <4>2
          <5>2. Len(strip[i + 1].doomed) > 0
            BY <2>4, <5>1
          <5> QED
            BY <5>2 DEF SomeGone
        <4>3. CASE ClassOf(field) = "safe"
          <5>1. strip[i + 1].doomed = strip[i].doomed
            BY <3>3, <4>3 DEF KeepsSafe
          <5> QED
            BY <2>5, <2>7, <4>1, <4>3, <5>1
        <4> QED
          BY <4>2, <4>3
      <3> QED
        BY <2>6, <3>1, <3>2, <3>3 DEF Accounted
    <2> QED
      BY <2>1, <2>9
  <1>5. \A i \in 0 .. Len(part) : i \in S
    <2>1. \A i \in 0 .. Len(part) - 1 : i \in S => i + 1 \in S
      BY <1>4
    <2> HIDE DEF S
    <2> QED
      BY <1>1, <1>3, <2>1, PlaceInduction
  <1> QED
    BY <1>5

LEMMA Regrouped ==
  ASSUME NEW d \in Nat, NEW o \in Nat, NEW c \in Nat
  PROVE  /\ d + o + c = (d + c) + o
         /\ d > 0 \/ o > 0 \/ c # 0 => d + o + c > 0
  OBVIOUS

(* How many are found, how many are said to be removed. *)
LEMMA CountsAgree ==
  ASSUME NEW part \in Seq(Pieces), NEW keepSafe, KeepsNone(keepSafe)
  PROVE  FieldsStripped(part, keepSafe) = Len(FieldsFound(part))
  <1> DEFINE scan == Scans(part)[Len(part)]
             strip == Strips(part, keepSafe)[Len(part)]
             left == [k \in DOMAIN scan.open |-> ClassOf(scan.open[k])]
  <1>1. Len(part) \in Nat /\ Len(part) \in 0 .. Len(part)
    OBVIOUS
  <1>2. scan \in ScanStates /\ strip \in StripStates /\ Alike(scan.open, strip.open)
    BY <1>1, PassesAreAlike
  <1>3. Len(scan.found) = Len(strip.doomed) + Cardinality(SimpleUpTo(part, Len(part)))
    BY <1>1, FoundIsDoomed
  <1>4. scan.open \in Seq(Fields) /\ scan.found \in Seq(Classes)
    BY <1>2, ScanStateIs
  <1>5. strip.open \in Seq(Fields) /\ strip.doomed \in Seq(Fields)
    BY <1>2, StripStateIs
  <1>6. FieldsFound(part) = scan.found \o left
    BY DEF FieldsFound, Scanned
  <1>7. Stripping(part, keepSafe).doomed = strip.doomed \o strip.open
    BY DEF Stripping
  <1>8. {i \in DOMAIN part : Unwraps(part[i], keepSafe)} = SimpleUpTo(part, Len(part))
    <2>1. DOMAIN part = 1 .. Len(part)
      OBVIOUS
    <2> QED
      BY <2>1 DEF Unwraps, SimpleUpTo, KeepsNone
  <1>9. Cardinality(SimpleUpTo(part, Len(part))) \in Nat
    BY <1>1, SimpleCount
  <1> HIDE DEF scan, strip
  <1>10. left \in Seq(Classes) /\ Len(left) = Len(scan.open)
    <2>1. DOMAIN scan.open = 1 .. Len(scan.open) /\ Len(scan.open) \in Nat
      BY <1>4
    <2> QED
      BY <2>1, ClassIs
  <1> HIDE DEF left
  <1>11. Len(scan.found \o left) = Len(scan.found) + Len(left)
    BY <1>4, <1>10, ConcatIs
  <1>12. Len(strip.doomed \o strip.open) = Len(strip.doomed) + Len(strip.open)
    BY <1>5
  <1>13. FieldsStripped(part, keepSafe) =
           Len(strip.doomed) + Len(strip.open) + Cardinality(SimpleUpTo(part, Len(part)))
    BY <1>7, <1>8, <1>12 DEF FieldsStripped
  <1>14. Len(FieldsFound(part)) = Len(scan.found) + Len(strip.open)
    BY <1>2, <1>6, <1>10, <1>11 DEF Alike
  <1>15. Len(strip.doomed) \in Nat /\ Len(strip.open) \in Nat
    BY <1>5
  <1> QED
    <2> DEFINE simple == Cardinality(SimpleUpTo(part, Len(part)))
    <2>1. Len(strip.doomed) + Len(strip.open) + simple
            = (Len(strip.doomed) + simple) + Len(strip.open)
      BY <1>9, <1>15, Regrouped
    <2> QED
      BY <1>3, <1>13, <1>14, <2>1, Zenon

LEMMA BadIsCounted ==
  ASSUME NEW part \in Seq(Pieces), NEW keepSafe, KeepsSafe(keepSafe), ScanFields(part) \ {"safe"} # {}
  PROVE  FieldsStripped(part, keepSafe) > 0
  <1> DEFINE scan == Scans(part)[Len(part)]
             strip == Strips(part, keepSafe)[Len(part)]
             left == [k \in DOMAIN scan.open |-> ClassOf(scan.open[k])]
             simple == {i \in DOMAIN part : Unwraps(part[i], keepSafe)}
  <1>1. Len(part) \in Nat /\ Len(part) \in 0 .. Len(part) /\ DOMAIN part = 1 .. Len(part)
    OBVIOUS
  <1>2. scan \in ScanStates /\ strip \in StripStates /\ Alike(scan.open, strip.open)
    BY <1>1, PassesAreAlike
  <1>3. SomeBad(scan.found) => SomeGone(part, Len(part), strip.doomed)
    BY <1>1, BadIsGone
  <1>4. scan.open \in Seq(Fields) /\ scan.found \in Seq(Classes)
    BY <1>2, ScanStateIs
  <1>5. strip.open \in Seq(Fields) /\ strip.doomed \in Seq(Fields)
    BY <1>2, StripStateIs
  <1>6. FieldsFound(part) = scan.found \o left
    BY DEF FieldsFound, Scanned
  <1>7. Stripping(part, keepSafe).doomed = strip.doomed \o strip.open
    BY DEF Stripping
  <1>8. IsFiniteSet(simple)
    <2>1. IsFiniteSet(1 .. Len(part))
      BY <1>1, FS_Interval
    <2>2. simple \subseteq 1 .. Len(part)
      BY <1>1
    <2> QED
      BY <2>1, <2>2, FS_Subset
  <1>9. Cardinality(simple) \in Nat /\ (simple # {} => Cardinality(simple) # 0)
    BY <1>8, FS_CardinalityType, FS_EmptySet
  <1>10. simple = {} \/ simple # {}
    OBVIOUS
  <1>11. (\E j \in 1 .. Len(part) : Unwraps(part[j], TRUE)) => simple # {}
    BY <1>1 DEF Unwraps, KeepsSafe
  <1> HIDE DEF scan, strip, simple
  <1>12. left \in Seq(Classes) /\ Len(left) = Len(scan.open)
    <2>1. DOMAIN scan.open = 1 .. Len(scan.open) /\ Len(scan.open) \in Nat
      BY <1>4
    <2> QED
      BY <2>1, ClassIs
  <1> HIDE DEF left
  <1>13. SomeBad(scan.found) \/ Len(strip.open) > 0
    <2>1. PICK class \in ScanFields(part) : class # "safe"
      OBVIOUS
    <2>2. PICK k \in DOMAIN (scan.found \o left) : (scan.found \o left)[k] = class
      BY <1>6, <2>1 DEF ScanFields, ToSet
    <2>3. /\ Len(scan.found) \in Nat /\ Len(left) \in Nat
          /\ k \in 1 .. Len(scan.found) + Len(left)
          /\ k <= Len(scan.found) => (scan.found \o left)[k] = scan.found[k]
      <3>1. /\ Len(scan.found) \in Nat /\ Len(left) \in Nat
            /\ scan.found \o left \in Seq(Classes)
            /\ Len(scan.found \o left) = Len(scan.found) + Len(left)
            /\ \A j \in 1 .. Len(scan.found) : (scan.found \o left)[j] = scan.found[j]
        <4>1. scan.found \in Seq(Classes) /\ left \in Seq(Classes)
          BY <1>4, <1>12
        <4> DEFINE found == scan.found
        <4>2. found \in Seq(Classes)
          BY <4>1
        <4> HIDE DEF found
        <4>3. /\ Len(found) \in Nat /\ Len(left) \in Nat
              /\ found \o left \in Seq(Classes)
              /\ Len(found \o left) = Len(found) + Len(left)
              /\ \A j \in 1 .. Len(found) : (found \o left)[j] = found[j]
          BY <4>1, <4>2, ConcatIs
        <4> QED
          BY <4>3 DEF found
      <3>2. DOMAIN (scan.found \o left) = 1 .. Len(scan.found \o left)
        BY <3>1
      <3>3. k \in 1 .. Len(scan.found) + Len(left)
        BY <2>2, <3>1, <3>2
      <3> QED
        BY <3>1, <3>3
    <2>4. Len(left) = Len(strip.open)
      BY <1>2, <1>12 DEF Alike
    <2>5. CASE k <= Len(scan.found)
      BY <2>1, <2>2, <2>3, <2>5 DEF SomeBad
    <2>6. CASE ~(k <= Len(scan.found))
      BY <2>3, <2>4, <2>6
    <2> QED
      BY <2>5, <2>6
  <1>14. Len(strip.doomed) > 0 \/ Len(strip.open) > 0 \/ simple # {}
    BY <1>3, <1>11, <1>13 DEF SomeGone
  <1>15. Len(strip.doomed \o strip.open) = Len(strip.doomed) + Len(strip.open)
    BY <1>5
  <1>16. FieldsStripped(part, keepSafe) =
           Len(strip.doomed) + Len(strip.open) + Cardinality(simple)
    BY <1>7, <1>15 DEF FieldsStripped, simple
  <1>17. Len(strip.doomed) \in Nat /\ Len(strip.open) \in Nat
    BY <1>5
  <1> QED
    BY <1>9, <1>14, <1>16, <1>17, Regrouped, ZenonT(40)

LEMMA StoryIsPart == StorySpec => [](story \in Seq(Pieces))
  <1>1. StoryInit => story \in Seq(Pieces)
    BY DEF StoryInit
  <1>2. ASSUME story \in Seq(Pieces), [Write]_story PROVE (story \in Seq(Pieces))'
    <2>1. ASSUME NEW el \in Elements, story' = Append(story, el) PROVE story' \in Seq(Pieces)
      <3>1. el \in Pieces
        BY StoryAssumption DEF Pieces
      <3> QED
        BY <1>2, <2>1, <3>1
    <2> QED
      BY <1>2, <2>1 DEF Write
  <1> QED
    BY <1>1, <1>2, PTL DEF StorySpec

LEMMA AgreeAlways ==
  ASSUME NEW part \in Seq(Pieces)
  PROVE  /\ FieldsStripped(part, FALSE) = Len(FieldsFound(part))
         /\ ScanFields(part) \ {"safe"} # {} => FieldsStripped(part, TRUE) > 0
  BY CountsAgree, BadIsCounted, Zenon DEF KeepsNone, KeepsSafe

(* The pass over the events and the pass over the tree see the same fields, in
   whatever order the elements of a part stand: as many are removed as are found
   where none may stay, and where some may, one that may not never goes unseen. *)
THEOREM PassesAgree == StorySpec => []BothPassesAgree
  <1>1. story \in Seq(Pieces) => BothPassesAgree
    BY AgreeAlways DEF BothPassesAgree
  <1> QED
    BY <1>1, StoryIsPart, PTL

-----------------------------------------------------------------------------
(* The type of a file that was written anew is the one it was written as. *)

WrittenTypes == {"pdf", "jpeg", "png", "docx", "docm"}

LEMMA MatchIs ==
  ASSUME NEW file, NEW i \in 1 .. 9, Signatures[i] \in file.head,
         \A j \in 1 .. 9 : Signatures[j] \in file.head => j = i
  PROVE  MatchSignature(file) = Signatures[i]
  <1> DEFINE rows == {k \in DOMAIN Signatures : Signatures[k] \in file.head}
  <1>1. DOMAIN Signatures = 1 .. 9
    BY DEF Signatures
  <1>2. rows = {i}
    BY <1>1
  <1>3. (CHOOSE k \in {i} : \A j \in {i} : k <= j) = i
    OBVIOUS
  <1> QED
    BY <1>2, <1>3, Zenon DEF MatchSignature

LEMMA SignatureRows ==
  /\ Signatures[1] = "pdf" /\ Signatures[2] = "jpeg" /\ Signatures[3] = "png"
  /\ Signatures[4] = "gif" /\ Signatures[5] = "tiff" /\ Signatures[6] = "zip"
  /\ Signatures[7] = "otherArchive" /\ Signatures[8] = "binary" /\ Signatures[9] = "media"
  BY DEF Signatures

LEMMA WrittenSniff ==
  ASSUME NEW type \in WrittenTypes, NEW body
  PROVE  /\ Sniff(File(type, body)) = type
         /\ MatchSignature(File(type, body)) = IF type \in DocxTypes THEN "zip" ELSE type
         /\ File(type, body).body = body
  <1> DEFINE f == File(type, body)
  <1>1. f.head = {IF type \in DocxTypes THEN "zip" ELSE type} /\ f.body = body
    BY DEF File
  <1>2. f.inner = IF type = "docx" THEN {"types", "word"}
                  ELSE IF type = "docm" THEN {"types", "word", "macroEnabled"} ELSE {}
    BY DEF File
  <1> HIDE DEF f
  <1>3. CASE type = "pdf"
    <2>1. MatchSignature(f) = Signatures[1]
      BY <1>1, <1>3, MatchIs, SignatureRows DEF DocxTypes
    <2> QED
      BY <1>1, <1>3, <2>1, SignatureRows DEF Sniff, DocxTypes, f
  <1>4. CASE type = "jpeg"
    <2>1. MatchSignature(f) = Signatures[2]
      BY <1>1, <1>4, MatchIs, SignatureRows DEF DocxTypes
    <2> QED
      BY <1>1, <1>4, <2>1, SignatureRows DEF Sniff, DocxTypes, f
  <1>5. CASE type = "png"
    <2>1. MatchSignature(f) = Signatures[3]
      BY <1>1, <1>5, MatchIs, SignatureRows DEF DocxTypes
    <2> QED
      BY <1>1, <1>5, <2>1, SignatureRows DEF Sniff, DocxTypes, f
  <1>6. CASE type \in DocxTypes
    <2>1. MatchSignature(f) = Signatures[6]
      BY <1>1, <1>6, MatchIs, SignatureRows
    <2>2. RefineZip(f.inner) = type
      <3>1. CASE type = "docx"
        BY <1>2, <3>1 DEF RefineZip
      <3>2. CASE type = "docm"
        BY <1>2, <3>2 DEF RefineZip
      <3> QED
        BY <1>6, <3>1, <3>2 DEF DocxTypes
    <2> QED
      BY <1>1, <1>6, <2>1, <2>2, SignatureRows DEF Sniff, f
  <1> QED
    BY <1>3, <1>4, <1>5, <1>6 DEF WrittenTypes, DocxTypes

LEMMA ExtensionIs ==
  /\ Extension["pdf"] = ".pdf" /\ Extension["jpeg"] = ".jpg" /\ Extension["png"] = ".png"
  /\ Extension["docx"] = ".docx" /\ Extension["docm"] = ".docm"
  BY DEF Extension

(* The first stage has nothing to say of it. *)
LEMMA WrittenIsKnown ==
  ASSUME NEW type \in WrittenTypes, NEW body
  PROVE  TypeCodes(File(type, body), OwnRequest(File(type, body))) = {}
  <1> DEFINE f == File(type, body)
  <1>1. Sniff(f) = type /\ MatchSignature(f) = IF type \in DocxTypes THEN "zip" ELSE type
    BY WrittenSniff
  <1>2. f.head # {} /\ f.magic = type /\ f.tail = "none"
    BY DEF File
  <1> HIDE DEF f
  <1>3. ~Conflict(f)
    <2>1. KnownTypes \cap DocxTypes = {}
      <3>1. DOMAIN Signatures = 1 .. 9
        BY DEF Signatures
      <3> QED
        BY <3>1, SignatureRows DEF KnownTypes, DocxTypes
    <2> QED
      BY <1>1, <1>2, <2>1 DEF Conflict
  <1>4. ~Polyglot(f)
    BY <1>2 DEF Polyglot
  <1>5. type \in SupportedTypes /\ type \notin ExecutableTypes /\ type # "none"
    BY DEF WrittenTypes, SupportedTypes, ImageTypes, DocxTypes, ExecutableTypes
  <1>6. RequestCodes(f, OwnRequest(f)) = {}
    <2>1. OwnRequest(f).declared = type /\ OwnRequest(f).ext = Extension[type]
      BY <1>1 DEF OwnRequest
    <2>2. Extension[type] \notin DangerousExtensions
      BY ExtensionIs DEF WrittenTypes, DangerousExtensions
    <2> QED
      BY <1>1, <2>1, <2>2 DEF RequestCodes
  <1>7. TypeCodes(f, OwnRequest(f)) = {}
    <2>1. {f.head} \cap {{}} = {}
      BY <1>2
    <2>2. {Conflict(f)} \cap {TRUE} = {}
      BY <1>3
    <2>3. {Polyglot(f)} \cap {TRUE} = {}
      BY <1>4
    <2> QED
      BY <1>1, <1>5, <1>6, <2>1, <2>2, <2>3 DEF TypeCodes
  <1> QED
    BY <1>7 DEF f

-----------------------------------------------------------------------------
(* A PDF that was written anew and that its check accepted. *)

LEMMA DrawnIsBare ==
  ASSUME NEW pdf
  PROVE  PdfCodes(Drawn(pdf)) = {}
  <1> DEFINE e == Drawn(pdf)
  <1>1. /\ e.graph = {} /\ e.opens = "yes" /\ ~e.packed /\ ~e.uri /\ e.substance = {} /\ e.odd = {}
        /\ e.warnings = {} /\ e.revisions = 1 /\ e.eof /\ e.startxref /\ ~e.tail /\ ~e.hidden
    BY DEF Drawn, EmptyPdf
  <1> HIDE DEF e
  <1>2. VisibleNames(e) = {}
    BY <1>1 DEF VisibleNames, NamesOf
  <1>3. XrefCodes(e) = {}
    BY <1>1 DEF XrefCodes
  <1>4. ByteCodes(e) = {}
    BY <1>1, <1>2, <1>3 DEF ByteCodes
  <1>5. GraphCodes(e) = {}
    BY <1>1 DEF GraphCodes, AutoCodes, AnnotationCodes
  <1>6. ~WalkBreaks(e)
    BY <1>1 DEF WalkBreaks
  <1> QED
    BY <1>1, <1>4, <1>5, <1>6 DEF PdfCodes, ParsedCodes, e

LEMMA MarkerCodes ==
  ASSUME NEW n \in DOMAIN PdfMarkers
  PROVE  PdfMarkers[n] \in NeverDelivered => n \in {"JavaScript", "Launch", "EmbeddedFile"}
  <1>1. n \in {"JavaScript", "Launch", "EmbeddedFile", "RichMedia", "GoToE", "GoToR", "SubmitForm",
               "ImportData", "SetOCGState", "Rendition", "Movie", "Sound", "JBIG2Decode", "ObjStm"}
    BY DEF PdfMarkers
  <1>2. /\ PdfMarkers["RichMedia"] = "PDF_RICHMEDIA" /\ PdfMarkers["GoToE"] = "PDF_GOTOE"
        /\ PdfMarkers["GoToR"] = "PDF_GOTOR" /\ PdfMarkers["SubmitForm"] = "PDF_SUBMITFORM"
        /\ PdfMarkers["ImportData"] = "PDF_IMPORTDATA"
        /\ PdfMarkers["SetOCGState"] = "PDF_SETOCGSTATE"
        /\ PdfMarkers["Rendition"] = "PDF_RENDITION" /\ PdfMarkers["Movie"] = "PDF_MOVIE"
        /\ PdfMarkers["Sound"] = "PDF_SOUND" /\ PdfMarkers["JBIG2Decode"] = "PDF_JBIG2"
        /\ PdfMarkers["ObjStm"] = "PDF_OBJSTM"
    BY DEF PdfMarkers
  <1>3. {"PDF_RICHMEDIA", "PDF_GOTOE", "PDF_GOTOR", "PDF_SUBMITFORM", "PDF_IMPORTDATA",
         "PDF_SETOCGSTATE", "PDF_RENDITION", "PDF_MOVIE", "PDF_SOUND", "PDF_JBIG2", "PDF_OBJSTM"}
          \cap NeverDelivered = {}
    BY DEF NeverDelivered, UnscannableCodes
  <1> QED
    BY <1>1, <1>2, <1>3

LEMMA SubstanceStays == SubstanceCodes \cap NeverDelivered = {}
  BY DEF SubstanceCodes, NeverDelivered, UnscannableCodes

(* What the bytes of a packed file show is what a stream holds. *)
LEMMA PackedShowsNoKeys ==
  ASSUME NEW pdf, KeysFit(pdf), NEW e, e.graph \subseteq pdf.graph, e.packed = TRUE,
         PdfProblems(e) = {}
  PROVE  UnparsedCodes(e) = {}
  <1>1. SUFFICES ASSUME NEW n \in DOMAIN FallbackMarkers, n \in VisibleNames(e) PROVE FALSE
    BY DEF UnparsedCodes
  <1>2. n \in {"OpenAction", "AA"} \/ n \in DOMAIN ShortKeys
    BY <1>1 DEF FallbackMarkers, ShortKeys
  <1>3. "ObjStm" \notin DOMAIN FallbackMarkers
    BY DEF FallbackMarkers
  <1>4. PICK x \in e.graph : x.at = "stream" /\ (x.key = n \/ x.does = n)
    BY <1>1, <1>3 DEF VisibleNames, NamesOf
  <1>5. x.does # n
    BY <1>1, <1>4 DEF KeysFit
  <1>6. x.key \notin DOMAIN ShortKeys
    BY DEF PdfProblems
  <1>7. x.key \notin {"OpenAction", "AA"}
    BY <1>4 DEF KeysFit
  <1> QED
    BY <1>2, <1>4, <1>5, <1>6, <1>7

LEMMA RebuiltPdfIsQuiet ==
  ASSUME NEW pdf \in PdfDocuments, KeysFit(pdf), ~PdfRebuildFails(pdf),
         NEW prof, NEW e, e = RebuiltPdf(pdf, prof), PdfProblems(e) = {}
  PROVE  PdfCodes(e) \cap NeverDelivered \subseteq PdfCodes(pdf) \cap {"PDF_MALFORMED"}
  <1>1. /\ e.graph = {x \in pdf.graph : ~Dropped(x)}
        /\ e.opens = "yes" /\ e.packed = TRUE /\ e.uri = FALSE /\ e.warnings = {}
        /\ e.revisions = 1 /\ e.eof = TRUE /\ e.startxref = TRUE /\ e.tail = FALSE
        /\ e.substance = pdf.substance /\ e.odd = pdf.odd
    BY DEF RebuiltPdf, Written, PdfDocuments
  <1>2. pdf.substance \subseteq SubstanceCodes
    BY DEF PdfDocuments
  <1>3. VisibleNames(e) \cap ByteMarkers = {}
    BY DEF PdfProblems
  <1>4. ASSUME NEW x \in e.graph
        PROVE  /\ x.key \notin DOMAIN ShortKeys
               /\ ~(x.key \in ActionHolders /\ x.does \in SuspiciousActions)
    BY DEF PdfProblems
  <1>5. XrefCodes(e) = {}
    BY <1>1 DEF XrefCodes
  <1>6. ByteCodes(e) \cap NeverDelivered = {}
    <2>1. {"PDF_EXTERNAL_URI" : u \in {e.uri} \cap {TRUE}} = {}
      BY <1>1
    <2>2. ASSUME NEW n \in VisibleNames(e) \cap DOMAIN PdfMarkers
          PROVE  PdfMarkers[n] \notin NeverDelivered
      BY <1>3, <2>2, MarkerCodes DEF ByteMarkers
    <2> QED
      BY <1>5, <2>1, <2>2 DEF ByteCodes
  <1>7. AutoCodes(e) = {}
    <2>1. ASSUME NEW x \in e.graph
          PROVE  /\ ~(x.at = "root" /\ x.key = "OpenAction")
                 /\ ~(x.at \in {"root", "page"} /\ x.key = "AA")
                 /\ ~(x.at = "annot" /\ x.key = "AA")
      BY <1>1 DEF Dropped, RootKeysToDrop, PageKeysToDrop
    <2> QED
      BY <2>1 DEF AutoCodes
  <1>8. AnnotationCodes(e) \cap NeverDelivered = {}
    <2>1. {x \in e.graph : x.at = "annot" /\ x.key = "AA"} = {}
      BY <1>1 DEF Dropped
    <2>2. {"PDF_ANNOT_AUTO_ACTION" : x \in {x \in e.graph : x.at = "annot" /\ x.key = "AA"}} = {}
      BY <2>1
    <2>3. {"PDF_ANNOT_ACTION", "PDF_ANNOT_HIDDEN_ACTION"} \cap NeverDelivered = {}
      BY DEF NeverDelivered, UnscannableCodes
    <2>4. AnnotationCodes(e) \subseteq {"PDF_ANNOT_ACTION", "PDF_ANNOT_HIDDEN_ACTION"}
      BY <2>2 DEF AnnotationCodes
    <2> QED
      BY <2>3, <2>4
  <1>9. {ShortKeys[x.key] : x \in {x \in e.graph : x.key \in DOMAIN ShortKeys}} = {}
    BY <1>4
  <1>10. GraphCodes(e) \cap NeverDelivered = {}
    BY <1>1, <1>2, <1>7, <1>8, <1>9, SubstanceStays DEF GraphCodes
  <1>11. PdfCodes(e) = ByteCodes(e) \cup ParsedCodes(e)
    BY <1>1 DEF PdfCodes
  <1>12. UnparsedCodes(e) = {}
    BY <1>1, PackedShowsNoKeys
  <1>13. ParsedCodes(e) \cap NeverDelivered \subseteq {c \in {"PDF_MALFORMED"} : WalkBreaks(e)}
    BY <1>10, <1>12 DEF ParsedCodes, MalformedCodes
  <1>14. WalkBreaks(e) => "PDF_MALFORMED" \in PdfCodes(pdf)
    <2>1. WalkBreaks(e) = WalkBreaks(pdf)
      BY <1>1 DEF WalkBreaks
    <2>2. pdf.opens = "yes" \/ pdf.opens = "owner"
      BY DEF PdfRebuildFails
    <2>3. ParsedCodes(pdf) \subseteq PdfCodes(pdf)
      BY <2>2 DEF PdfCodes
    <2> QED
      BY <2>1, <2>3 DEF ParsedCodes, MalformedCodes
  <1> QED
    BY <1>6, <1>11, <1>13, <1>14

-----------------------------------------------------------------------------
(* A picture that was drawn anew. *)

LEMMA RebuiltImageIsQuiet ==
  ASSUME NEW file, NEW prof, NEW new \in RebuiltImage(file, prof), file.body \in Pictures
  PROVE  ImageCodes(new.body) \cap NeverDelivered = {}
  <1> DEFINE body == [CleanImage EXCEPT !.pixels = file.body.pixels, !.dense = file.body.dense]
  <1>1. Opens(file.body) /\ new = File(OutputFor(Sniff(file), prof), body)
    BY DEF RebuiltImage, Loads
  <1>2. new.body = body
    BY <1>1 DEF File
  <1>3. /\ body.pixels = file.body.pixels /\ body.readable = TRUE
        /\ body.frames = FALSE /\ body.exif = FALSE
    BY DEF CleanImage
  <1>4. Opens(body)
    BY <1>1, <1>3 DEF Opens
  <1> HIDE DEF body
  <1>5. ImageCodes(body) \subseteq {"IMG_PIXEL_BOMB", "IMG_DECOMPRESSION_BOMB"}
    <2>1. {body.frames} \cap {TRUE} = {} /\ {body.exif} \cap {TRUE} = {}
      BY <1>3
    <2> QED
      BY <1>4, <2>1 DEF ImageCodes
  <1>6. {"IMG_PIXEL_BOMB", "IMG_DECOMPRESSION_BOMB"} \cap NeverDelivered = {}
    BY DEF NeverDelivered, UnscannableCodes
  <1> QED
    BY <1>2, <1>5, <1>6

-----------------------------------------------------------------------------
(* A Word document that was built anew and that its check accepted: what   *)
(* its parts are called, what leads out of them, and what stands in them   *)
(* are three questions.                                                    *)

LEMMA KeptIsNotDropped == KeptLight \cap DroppedParts = {} /\ KeptParts \subseteq KeptLight
  BY DEF KeptLight, KeptParts, MediaParts, MetadataParts, DroppedParts

LEMMA KeepIs ==
  ASSUME NEW pkg, NEW prof
  PROVE  Keep(pkg, prof) \subseteq KeptLight \cap pkg.parts
  BY KeptIsNotDropped DEF Keep

LEMMA NoNameCodes ==
  ASSUME NEW pkg, pkg.parts \subseteq KeptLight, \A t \in pkg.types : t.value = "plain"
  PROVE  NameCodes(pkg) = {}
  <1>1. pkg.parts \cap {"vba"} = {} /\ pkg.parts \cap {"activex"} = {}
        /\ pkg.parts \cap {"embeddedBin"} = {} /\ pkg.parts \cap {"embeddedDoc"} = {}
    BY KeptIsNotDropped DEF DroppedParts
  <1>2. {t \in pkg.types : t.value = "vba"} = {}
    OBVIOUS
  <1> QED
    BY <1>1, <1>2 DEF NameCodes

LEMMA NoRelationCodes ==
  ASSUME NEW rel,
         \/ rel.external /\ rel.kind = "hyperlink" /\ SafeHyperlink(rel.to)
         \/ ~rel.external /\ rel.kind \notin ActiveKinds
  PROVE  RelationshipCodes(rel) = {}
  <1>1. CASE rel.external /\ rel.kind = "hyperlink" /\ SafeHyperlink(rel.to)
    <2>1. {t \in {rel.to} : ~SafeHyperlink(t)} = {}
      BY <1>1
    <2> QED
      BY <1>1, <2>1 DEF RelationshipCodes
  <1>2. CASE ~rel.external /\ rel.kind \notin ActiveKinds
    <2>1. {rel.kind} \cap {"oleObject"} = {} /\ {rel.kind} \cap {"package"} = {}
      BY <1>2 DEF ActiveKinds
    <2> QED
      BY <1>2, <2>1 DEF RelationshipCodes, ActiveKinds
  <1> QED
    BY <1>1, <1>2

LEMMA NoFieldCodes ==
  ASSUME NEW pkg, NEW p, ScanKinds(pkg, p) \subseteq {"safe"}
  PROVE  FieldCodes(pkg, p) = {}
  <1>1. "safe" \notin DOMAIN FieldCode
    BY DEF FieldCode
  <1> QED
    BY <1>1 DEF FieldCodes

(* A package of allowed parts, of plain types, whose relationships and fields
   are harmless, and of which everything was read, gives the stage nothing. *)
LEMMA NoStageCodes ==
  ASSUME NEW pkg, pkg.listing = {}, pkg.parts \subseteq KeptLight,
         \A t \in pkg.types : t.value = "plain",
         \A rel \in pkg.rels : RelationshipCodes(rel) = {},
         \A p \in pkg.parts \cap XmlParts : /\ Readable(pkg, p)
                                            /\ ScanKinds(pkg, p) \subseteq {"safe"}
  PROVE  StageCodes(pkg) = {}
  <1>1. NameCodes(pkg) = {}
    BY NoNameCodes
  <1>2. ASSUME NEW p \in pkg.parts \cap XmlParts PROVE PartCodes(pkg, p) = {}
    <2>1. p \notin pkg.huge /\ p \notin pkg.dtd /\ p \notin pkg.bad
      BY <1>2 DEF Readable
    <2>2. FieldCodes(pkg, p) = {}
      BY <1>2, NoFieldCodes
    <2> QED
      BY <2>1, <2>2 DEF PartCodes
  <1> QED
    BY <1>1, <1>2 DEF StageCodes

LEMMA RebuiltIs ==
  ASSUME NEW pkg \in Packages, NEW prof, NEW e, e = Rebuilt(pkg, prof),
         ~Refuses(pkg), ~RebuildFails(pkg, Keep(pkg, prof))
  PROVE  /\ e.parts = Keep(pkg, prof) /\ e.main = pkg.main /\ e.listing = {}
         /\ e.types = ContentTypes(pkg, Keep(pkg, prof))
         /\ e.rels = {rel \in Carried(pkg, Keep(pkg, prof)) : KeepsRelation(rel, Keep(pkg, prof))}
         /\ e.marks = CleanedMarks(pkg, Keep(pkg, prof))
         /\ e.dtd = {} /\ e.bad = {} /\ e.huge = pkg.huge
         /\ \A p \in Keep(pkg, prof) \cap XmlParts : Readable(pkg, p) /\ Readable(e, p)
  <1>1. pkg.listing = {}
    BY DEF Refuses
  <1>2. /\ e.parts = Keep(pkg, prof) /\ e.main = pkg.main /\ e.listing = pkg.listing
        /\ e.types = ContentTypes(pkg, Keep(pkg, prof))
        /\ e.rels = {rel \in Carried(pkg, Keep(pkg, prof)) : KeepsRelation(rel, Keep(pkg, prof))}
        /\ e.marks = CleanedMarks(pkg, Keep(pkg, prof))
        /\ e.dtd = {} /\ e.bad = {} /\ e.huge = pkg.huge
    BY DEF Rebuilt, Packages
  <1>3. \A p \in Keep(pkg, prof) \cap XmlParts : Readable(pkg, p)
    BY DEF RebuildFails
  <1> QED
    BY <1>1, <1>2, <1>3 DEF Readable

(* No relationship of an active kind is left. *)
LEMMA RebuiltRelations ==
  ASSUME NEW pkg \in Packages, RelationsFit(pkg), NEW prof,
         NEW rel \in Carried(pkg, Keep(pkg, prof)), KeepsRelation(rel, Keep(pkg, prof))
  PROVE  /\ RelationshipCodes(rel) = {}
         /\ rel.external => rel.kind = "hyperlink" /\ SafeHyperlink(rel.to)
         /\ rel.kind \notin ActiveKinds
  <1>1. rel \in pkg.rels /\ rel \in Relations
    BY DEF Carried, Packages
  <1>2. rel.external => rel.kind = "hyperlink" /\ SafeHyperlink(rel.to)
    BY DEF KeepsRelation
  <1>3. ~rel.external => rel.to \in KeptLight
    BY KeepIs DEF KeepsRelation
  <1>4. rel.kind \notin ActiveKinds
    <2>1. rel.kind \in ActiveKinds => rel.external \/ rel.to \in DroppedParts
      BY <1>1 DEF RelationsFit
    <2>2. "hyperlink" \notin ActiveKinds
      BY DEF ActiveKinds
    <2> QED
      BY <1>2, <1>3, <2>1, <2>2, KeptIsNotDropped
  <1> QED
    BY <1>2, <1>4, NoRelationCodes

LEMMA RebuiltDocxIsQuiet ==
  ASSUME NEW pkg \in Packages, RelationsFit(pkg), NEW prof, NEW e, e = Rebuilt(pkg, prof),
         ~Refuses(pkg), ~RebuildFails(pkg, Keep(pkg, prof)), PackageProblems(e) = {}
  PROVE  StageCodes(e) = {}
  <1> DEFINE keep == Keep(pkg, prof)
  <1>1. /\ e.parts = keep /\ e.listing = {} /\ e.types = ContentTypes(pkg, keep)
        /\ e.rels = {rel \in Carried(pkg, keep) : KeepsRelation(rel, keep)}
        /\ \A p \in keep \cap XmlParts : Readable(e, p)
    BY RebuiltIs
  <1>2. \A t \in e.types : t.value = "plain"
    BY <1>1 DEF ContentTypes, PlainXmlType
  <1>3. \A rel \in e.rels : RelationshipCodes(rel) = {}
    BY <1>1, RebuiltRelations
  <1>4. \A p \in e.parts \cap XmlParts : ScanKinds(e, p) \subseteq {"safe"}
    BY DEF PackageProblems
  <1>5. e.parts \subseteq KeptLight
    BY <1>1, KeepIs
  <1> HIDE DEF keep
  <1> QED
    BY <1>1, <1>2, <1>3, <1>4, <1>5, NoStageCodes

LEMMA FromTextIs ==
  ASSUME NEW pkg, NEW e, e = FromText(pkg)
  PROVE  /\ e.parts \subseteq {"main", "image"} /\ "main" \in e.parts
         /\ e.types = {} /\ e.listing = {} /\ e.main = pkg.main
         /\ e.dtd = {} /\ e.bad = {} /\ e.huge = {}
         /\ e.rels \subseteq {Relation("main", "image", "image")}
         /\ e.rels # {} => "image" \in e.parts
         /\ e.marks \subseteq
              {Mark("main", "drawing", Relation("main", "image", "image"), "drawing")}
         /\ e.marks # {} => e.rels # {}
  BY DEF FromText, EmptyPackage

LEMMA FromTextIsQuiet ==
  ASSUME NEW pkg, NEW e, e = FromText(pkg), PackageProblems(e) = {}
  PROVE  StageCodes(e) = {}
  <1>1. /\ e.parts \subseteq {"main", "image"} /\ e.types = {} /\ e.listing = {}
        /\ e.dtd = {} /\ e.bad = {} /\ e.huge = {}
        /\ e.rels \subseteq {Relation("main", "image", "image")}
    BY FromTextIs
  <1>2. ASSUME NEW rel \in e.rels PROVE RelationshipCodes(rel) = {}
    <2>1. ~rel.external /\ rel.kind = "image"
      BY <1>1, <1>2 DEF Relation
    <2> QED
      BY <2>1, NoRelationCodes DEF ActiveKinds
  <1>3. \A p \in e.parts \cap XmlParts : ScanKinds(e, p) \subseteq {"safe"}
    BY DEF PackageProblems
  <1>4. e.parts \subseteq KeptLight
    BY <1>1 DEF KeptLight, KeptParts, MediaParts
  <1>5. \A p \in e.parts \cap XmlParts : Readable(e, p)
    BY <1>1 DEF Readable
  <1> QED
    BY <1>1, <1>2, <1>3, <1>4, <1>5, NoStageCodes

-----------------------------------------------------------------------------
(* What is promised of a file that was rebuilt. *)

LEMMA SanitizedTypes ==
  ASSUME NEW file, Sniff(file) \notin {"zip"}, NEW prof, NEW new \in SanitizedAlone(file, prof)
  PROVE  /\ ~file.large
         /\ \/ Sniff(file) = "pdf" /\ new \in SanitizedPdf(file, prof)
            \/ Sniff(file) \in ImageTypes /\ new \in RebuiltImage(file, prof)
            \/ Sniff(file) \in DocxTypes /\ new \in SanitizedDocx(file, prof)
  <1>1. ~file.large
    BY DEF SanitizedAlone
  <1>2. "pdf" \notin ImageTypes /\ "pdf" \notin DocxTypes /\ ImageTypes \cap DocxTypes = {}
    BY DEF ImageTypes, DocxTypes
  <1> QED
    BY <1>1, <1>2 DEF SanitizedAlone

LEMMA SanitizedPdfIs ==
  ASSUME NEW file, NEW prof, NEW new \in SanitizedPdf(file, prof)
  PROVE  \/ prof = "strict" /\ file.body.draws /\ new = File("pdf", Drawn(file.body))
         \/ /\ prof # "strict" /\ ~PdfRebuildFails(file.body)
            /\ new = File("pdf", RebuiltPdf(file.body, prof))
  BY DEF SanitizedPdf

LEMMA SanitizedDocxIs ==
  ASSUME NEW file, NEW prof, NEW new \in SanitizedDocx(file, prof)
  PROVE  \E type \in DocxTypes :
           /\ ~Refuses(file.body)
           /\ \/ /\ prof = "strict" /\ ~StrictFails(file.body)
                 /\ new = File(type, FromText(file.body))
              \/ /\ prof # "strict" /\ ~RebuildFails(file.body, Keep(file.body, prof))
                 /\ new = File(type, Rebuilt(file.body, prof))
  <1> DEFINE type == IF file.body.main = "macroDocument" THEN "docm" ELSE "docx"
  <1>1. type \in DocxTypes
    BY DEF DocxTypes
  <1>2. ~Refuses(file.body)
    BY DEF SanitizedDocx
  <1>3. prof = "strict" => ~StrictFails(file.body) /\ new = File(type, FromText(file.body))
    BY <1>2 DEF SanitizedDocx
  <1>4. prof # "strict" => /\ ~RebuildFails(file.body, Keep(file.body, prof))
                           /\ new = File(type, Rebuilt(file.body, prof))
    BY <1>2 DEF SanitizedDocx
  <1> HIDE DEF type
  <1> QED
    BY <1>1, <1>2, <1>3, <1>4

LEMMA WrittenCodes ==
  ASSUME NEW type \in WrittenTypes, NEW body, NEW new, new = File(type, body)
  PROVE  /\ type = "pdf" => CodesAlone(new, OwnRequest(new)) = PdfCodes(body)
         /\ type \in ImageTypes => CodesAlone(new, OwnRequest(new)) = ImageCodes(body)
         /\ type \in DocxTypes => CodesAlone(new, OwnRequest(new)) = StageCodes(body)
         /\ type = "pdf" => ProblemsAlone(new) = PdfProblems(body)
         /\ type \in DocxTypes => ProblemsAlone(new) = PackageProblems(body)
  <1>1. Sniff(new) = type /\ new.body = body /\ TypeCodes(new, OwnRequest(new)) = {}
    BY WrittenSniff, WrittenIsKnown
  <1>2. "pdf" \notin ImageTypes /\ "pdf" \notin DocxTypes /\ ImageTypes \cap DocxTypes = {}
    BY DEF ImageTypes, DocxTypes
  <1> QED
    BY <1>1, <1>2 DEF CodesAlone, ProblemsAlone

(* Of any well-formed file that is no archive (WellFormed: its keys and its
   relationships stand where the formats have them), what the sanitizer of its type
   wrote and the check of that sanitizer accepted has for the stages that read an
   upload no active content, the type it says it has and the name that fits it
   (cdr/pdf.py, cdr/image.py, cdr/docx.py against stages/structure.py); but of a PDF
   that broke off the walk over its graph they say once more that it is malformed. *)
THEOREM RebuiltIsQuiet ==
  ASSUME NEW file, WellFormed(file), Sniff(file) # "zip", NEW request, NEW prof,
         NEW new \in SanitizedAlone(file, prof), ProblemsAlone(new) = {}
  PROVE  CodesAlone(new, OwnRequest(new)) \cap NeverDelivered
           \subseteq CodesAlone(file, request) \cap {"PDF_MALFORMED"}
  <1>1. CASE Sniff(file) = "pdf" /\ new \in SanitizedPdf(file, prof)
    <2>1. file.body \in PdfDocuments /\ KeysFit(file.body)
      BY <1>1 DEF WellFormed
    <2>2. PICK body : /\ new = File("pdf", body)
                      /\ \/ body = Drawn(file.body)
                         \/ body = RebuiltPdf(file.body, prof) /\ ~PdfRebuildFails(file.body)
      BY <1>1, SanitizedPdfIs
    <2>3. CodesAlone(new, OwnRequest(new)) = PdfCodes(body) /\ PdfProblems(body) = {}
      BY <2>2, WrittenCodes DEF WrittenTypes
    <2>4. PdfCodes(body) \cap NeverDelivered \subseteq PdfCodes(file.body) \cap {"PDF_MALFORMED"}
      BY <2>1, <2>2, <2>3, DrawnIsBare, RebuiltPdfIsQuiet
    <2>5. PdfCodes(file.body) \subseteq CodesAlone(file, request)
      <3>1. "pdf" \notin ImageTypes /\ "pdf" \notin DocxTypes
        BY DEF ImageTypes, DocxTypes
      <3> QED
        BY <1>1, <3>1 DEF CodesAlone
    <2> QED
      BY <2>3, <2>4, <2>5
  <1>2. CASE Sniff(file) \in ImageTypes /\ new \in RebuiltImage(file, prof)
    <2>1. file.body \in Pictures
      BY <1>2 DEF WellFormed
    <2>2. ImageCodes(new.body) \cap NeverDelivered = {}
      BY <1>2, <2>1, RebuiltImageIsQuiet
    <2> DEFINE body == new.body
    <2>3. PICK type \in {"jpeg", "png"} : new = File(type, body)
      BY <1>2 DEF RebuiltImage, OutputFor, File
    <2>4. type \in WrittenTypes /\ type \in ImageTypes /\ new.body = body
      BY <2>3, WrittenSniff DEF WrittenTypes, ImageTypes
    <2>5. CodesAlone(new, OwnRequest(new)) = ImageCodes(body)
      BY <2>3, <2>4, WrittenCodes
    <2> QED
      BY <2>2, <2>4, <2>5
  <1>3. CASE Sniff(file) \in DocxTypes /\ new \in SanitizedDocx(file, prof)
    <2>1. file.body \in Packages /\ RelationsFit(file.body)
      BY <1>3 DEF WellFormed
    <2>2. PICK type \in DocxTypes :
            /\ ~Refuses(file.body)
            /\ \/ new = File(type, FromText(file.body))
               \/ /\ ~RebuildFails(file.body, Keep(file.body, prof))
                  /\ new = File(type, Rebuilt(file.body, prof))
      BY <1>3, SanitizedDocxIs
    <2>3. PICK body : /\ new = File(type, body)
                      /\ \/ body = FromText(file.body)
                         \/ /\ ~RebuildFails(file.body, Keep(file.body, prof))
                            /\ body = Rebuilt(file.body, prof)
      BY <2>2
    <2>4. type \in WrittenTypes
      BY DEF WrittenTypes, DocxTypes
    <2>5. CodesAlone(new, OwnRequest(new)) = StageCodes(body) /\ PackageProblems(body) = {}
      BY <2>3, <2>4, WrittenCodes
    <2>6. StageCodes(body) = {}
      BY <2>1, <2>2, <2>3, <2>5, FromTextIsQuiet, RebuiltDocxIsQuiet
    <2> QED
      BY <2>5, <2>6
  <1> QED
    BY <1>1, <1>2, <1>3, SanitizedTypes

(* Of a PDF that was drawn and of a document that was retyped the stages say
   nothing at all. *)
THEOREM StrictSaysNothing ==
  ASSUME NEW file, WellFormed(file), Sniff(file) \in {"pdf"} \cup DocxTypes,
         NEW new \in SanitizedAlone(file, "strict"), ProblemsAlone(new) = {}
  PROVE  CodesAlone(new, OwnRequest(new)) = {}
  <1>1. Sniff(file) # "zip" /\ Sniff(file) \notin ImageTypes
    BY DEF DocxTypes, ImageTypes
  <1>2. CASE Sniff(file) = "pdf" /\ new \in SanitizedPdf(file, "strict")
    <2>1. new = File("pdf", Drawn(file.body))
      BY <1>2, SanitizedPdfIs
    <2> QED
      BY <2>1, WrittenCodes, DrawnIsBare DEF WrittenTypes
  <1>3. CASE Sniff(file) \in DocxTypes /\ new \in SanitizedDocx(file, "strict")
    <2>1. PICK type \in DocxTypes : new = File(type, FromText(file.body))
      BY <1>3, SanitizedDocxIs
    <2>2. type \in WrittenTypes
      BY DEF WrittenTypes, DocxTypes
    <2>3. /\ CodesAlone(new, OwnRequest(new)) = StageCodes(FromText(file.body))
          /\ PackageProblems(FromText(file.body)) = {}
      BY <2>1, <2>2, WrittenCodes
    <2> QED
      BY <2>3, FromTextIsQuiet
  <1> QED
    BY <1>1, <1>2, <1>3, SanitizedTypes

(* A document that was rebuilt opens: its relationships lead to parts that are
   there, its elements name relationships that are there, and what lost a piece is
   gone as a whole. *)
THEOREM RebuiltOpens ==
  ASSUME NEW file, WellFormed(file), Sniff(file) \in DocxTypes, NEW prof,
         NEW new \in SanitizedAlone(file, prof)
  PROVE  WholeDocument(file.body, new.body, prof)
  <1> DEFINE pkg == file.body
             keep == Keep(pkg, prof)
  <1>1. pkg \in Packages /\ RelationsFit(pkg)
    BY DEF WellFormed
  <1>2. Sniff(file) # "zip" /\ Sniff(file) # "pdf" /\ Sniff(file) \notin ImageTypes
    BY DEF DocxTypes, ImageTypes
  <1>3. new \in SanitizedDocx(file, prof)
    BY <1>2, SanitizedTypes
  <1>4. PICK type \in DocxTypes :
          /\ ~Refuses(pkg)
          /\ \/ prof = "strict" /\ new = File(type, FromText(pkg))
             \/ /\ prof # "strict" /\ ~RebuildFails(pkg, keep)
                /\ new = File(type, Rebuilt(pkg, prof))
    BY <1>3, SanitizedDocxIs
  <1>5. \A body : File(type, body).body = body
    BY DEF File
  <1>6. CASE prof = "strict" /\ new = File(type, FromText(pkg))
    <2>1. new.body = FromText(pkg)
      BY <1>5, <1>6
    <2>2. /\ new.body.parts \subseteq {"main", "image"} /\ "main" \in new.body.parts
          /\ new.body.rels \subseteq {Relation("main", "image", "image")}
          /\ new.body.rels # {} => "image" \in new.body.parts
          /\ new.body.marks \subseteq
               {Mark("main", "drawing", Relation("main", "image", "image"), "drawing")}
          /\ new.body.marks # {} => new.body.rels # {}
      BY <2>1, FromTextIs
    <2>3. ASSUME NEW rel \in new.body.rels
          PROVE  rel.from \in new.body.parts /\ rel.to \in new.body.parts
      BY <2>2, <2>3 DEF Relation
    <2>4. ASSUME NEW m \in new.body.marks PROVE m.rel \in new.body.rels
      <3>1. m.rel = Relation("main", "image", "image")
        BY <2>2, <2>4 DEF Mark
      <3>2. Relation("main", "image", "image") \in new.body.rels
        BY <2>2, <2>4
      <3> QED
        BY <3>1, <3>2
    <2> QED
      BY <1>6, <2>3, <2>4 DEF WholeDocument
  <1>7. CASE /\ prof # "strict" /\ ~RebuildFails(pkg, keep)
             /\ new = File(type, Rebuilt(pkg, prof))
    <2>1. new.body = Rebuilt(pkg, prof)
      BY <1>5, <1>7
    <2>2. /\ new.body.parts = keep
          /\ new.body.rels = {rel \in Carried(pkg, keep) : KeepsRelation(rel, keep)}
          /\ new.body.marks = CleanedMarks(pkg, keep)
      <3>1. ~Refuses(pkg) /\ ~RebuildFails(pkg, Keep(pkg, prof))
        BY <1>4, <1>7
      <3> HIDE DEF pkg, keep
      <3>2. /\ new.body.parts = Keep(pkg, prof)
            /\ new.body.rels =
                 {rel \in Carried(pkg, Keep(pkg, prof)) : KeepsRelation(rel, Keep(pkg, prof))}
            /\ new.body.marks = CleanedMarks(pkg, Keep(pkg, prof))
        BY <1>1, <2>1, <3>1, RebuiltIs
      <3> QED
        BY <3>2, Zenon DEF keep
    <2>3. ASSUME NEW rel \in new.body.rels
          PROVE  /\ rel.from \in new.body.parts \cup {"package"}
                 /\ rel.external \/ rel.to \in new.body.parts
      BY <2>2, <2>3 DEF Carried, KeepsRelation
    <2>4. ASSUME NEW m \in new.body.marks
          PROVE  m \in pkg.marks /\ m.in \in keep /\ m \notin Torn(pkg, keep)
      BY <2>2, <2>4 DEF CleanedMarks
    <2>5. ASSUME NEW m \in new.body.marks
          PROVE  m.rel \in new.body.rels \cup {NoRelation}
      <3>1. m.rel = NoRelation \/ (m.rel \in pkg.rels /\ m.rel.from = m.in)
        BY <1>1, <2>4, <2>5 DEF RelationsFit
      <3>2. m.rel \in pkg.rels /\ m.rel.from = m.in => m.rel \in Carried(pkg, keep)
        BY <2>4, <2>5 DEF Carried
      <3> QED
        BY <2>2, <2>4, <2>5, <3>1, <3>2 DEF Torn
    <2>6. ASSUME NEW m \in new.body.marks, NEW n \in pkg.marks,
                 m.in = n.in, m.unit = n.unit, m.unit # "none"
          PROVE  n \in new.body.marks
      <3>1. \A d \in Doomed(pkg, keep) :
              ~(m = d \/ (m.in = d.in /\ m.unit = d.unit /\ m.unit # "none"))
        BY <2>2, <2>6 DEF CleanedMarks
      <3>2. n.in \in keep
        BY <2>4, <2>6
      <3>3. n \notin Doomed(pkg, keep)
        BY <2>6, <3>1
      <3>4. n \notin Torn(pkg, keep)
        <4>1. n.tag # "hyperlink"
          BY <1>1, <2>6 DEF RelationsFit
        <4> QED
          BY <3>3, <4>1 DEF Doomed
      <3>5. \A d \in Doomed(pkg, keep) :
              ~(n = d \/ (n.in = d.in /\ n.unit = d.unit /\ n.unit # "none"))
        BY <2>6, <3>1, <3>3
      <3> QED
        BY <2>2, <3>2, <3>4, <3>5 DEF CleanedMarks
    <2> QED
      BY <2>3, <2>5, <2>6 DEF WholeDocument
  <1> QED
    BY <1>4, <1>6, <1>7

-----------------------------------------------------------------------------
(* Which runs go, where every element is a run of its own.  A field is     *)
(* judged when it ends, long after its elements have been passed: what is  *)
(* known of the regions on the way (Stacked), what their end says of them  *)
(* (Judged, GoneIsOpen), and that a field goes as a whole or stays as a    *)
(* whole (GoneAsAWhole).                                                   *)

Touched(field, i) == IF field.result THEN field ELSE InRun(field, i)

LEMMA TouchedIs ==
  ASSUME NEW field \in Fields, NEW i \in Nat
  PROVE  /\ Touched(field, i) \in Fields
         /\ Touched(field, i).text = field.text
         /\ Touched(field, i).nested = field.nested
         /\ Touched(field, i).result = field.result
         /\ field.result => Touched(field, i).region = field.region
         /\ ~field.result => Touched(field, i).region = field.region \cup {i}
  BY InRunIs DEF Touched

LEMMA TouchedIsSame ==
  ASSUME NEW field \in Fields, NEW i \in Nat
  PROVE  SameField(field, Touched(field, i)) /\ ClassOf(Touched(field, i)) = ClassOf(field)
  BY TouchedIs DEF SameField, ClassOf

LEMMA ReachedAlone ==
  ASSUME NEW part \in Seq(Pieces), OneRunEach(part), NEW i \in 1 .. Len(part),
         part[i].e # "simple", NEW open \in Seq(Fields)
  PROVE  /\ RunOf(part, i) = i
         /\ Reached(open, part, i) \in Seq(Fields)
         /\ Len(Reached(open, part, i)) = Len(open)
         /\ \A p \in 1 .. Len(open) : Reached(open, part, i)[p] = Touched(open[p], i)
  <1>1. ~part[i].joined
    BY DEF OneRunEach
  <1>2. RunOf(part, i) = i
    BY <1>1, RunIs
  <1> QED
    BY <1>2, ReachedIs DEF Touched

(* The steps of the pass over the tree. *)

BeginStep(i, s, t) ==
  /\ Len(t.open) = Len(s.open) + 1
  /\ t.open[Len(s.open) + 1] = OpenField({i})
  /\ \A p \in 1 .. Len(s.open) :
       t.open[p] = IF p = Len(s.open) /\ ~s.open[p].result /\ IsBlank(s.open[p].text)
                     THEN Nesting(Touched(s.open[p], i)) ELSE Touched(s.open[p], i)
  /\ t.doomed = s.doomed /\ t.strays = s.strays

SeparateStep(i, s, t) ==
  /\ Len(s.open) > 0 /\ Len(t.open) = Len(s.open)
  /\ \A p \in 1 .. Len(s.open) :
       t.open[p] = IF p = Len(s.open) THEN InRun(Resulting(Touched(s.open[p], i)), i)
                   ELSE Touched(s.open[p], i)
  /\ t.doomed = s.doomed /\ t.strays = s.strays

EndStep(i, s, t, keepSafe) ==
  /\ Len(s.open) > 0 /\ Len(t.open) = Len(s.open) - 1
  /\ \A p \in 1 .. Len(s.open) - 1 : t.open[p] = Touched(s.open[p], i)
  /\ t.doomed = IF keepSafe /\ ClassOf(s.open[Len(s.open)]) = "safe" THEN s.doomed
                ELSE Append(s.doomed, InRun(Touched(s.open[Len(s.open)], i), i))
  /\ t.strays = s.strays

InstrStep(i, s, t, piece) ==
  /\ Len(s.open) > 0 /\ Len(t.open) = Len(s.open)
  /\ ~s.open[Len(s.open)].result
  /\ \A p \in 1 .. Len(s.open) :
       t.open[p] = IF p = Len(s.open) THEN Wording(Touched(s.open[p], i), piece)
                   ELSE Touched(s.open[p], i)
  /\ t.doomed = s.doomed /\ t.strays = s.strays

IdleStep(i, s, t, stray) ==
  /\ Len(t.open) = Len(s.open)
  /\ \A p \in 1 .. Len(s.open) : t.open[p] = Touched(s.open[p], i)
  /\ t.doomed = s.doomed
  /\ t.strays = IF stray THEN s.strays \cup {i} ELSE s.strays

StripSteps(part, i, s, t, keepSafe) ==
  \/ part[i].e = "begin" /\ BeginStep(i, s, t)
  \/ part[i].e = "separate" /\ s.open # <<>> /\ SeparateStep(i, s, t)
  \/ part[i].e = "end" /\ s.open # <<>> /\ EndStep(i, s, t, keepSafe)
  \/ part[i].e = "instr" /\ InstrStep(i, s, t, part[i].of)
  \/ part[i].e = "simple" /\ t = s
  \/ Idle(s.open, part[i]) /\ IdleStep(i, s, t, part[i].e = "instr")

LEMMA StepsAre ==
  ASSUME NEW part \in Seq(Pieces), OneRunEach(part), NEW i \in 1 .. Len(part), NEW keepSafe,
         NEW s \in StripStates, NEW t, t = StripElement(s, i, part, keepSafe)
  PROVE  t \in StripStates /\ StripSteps(part, i, s, t, keepSafe)
  <1> DEFINE el == part[i]
             open == Reached(s.open, part, i)
  <1>1. s.open \in Seq(Fields) /\ Len(s.open) \in Nat /\ i \in Nat /\ part[i] \in Pieces
    BY StripStateIs
  <1>2. CASE part[i].e = "simple"
    <2>1. open = s.open
      BY <1>2 DEF Reached
    <2>2. t \in StripStates /\ t.open = s.open /\ t.doomed = s.doomed /\ t.strays = s.strays
      BY <1>2, <2>1, StripElse
    <2>3. t = s
      BY <2>2 DEF StripStates
    <2> QED
      BY <1>2, <2>2, <2>3 DEF StripSteps
  <1>3. ASSUME part[i].e # "simple"
        PROVE  /\ RunOf(part, i) = i
               /\ open \in Seq(Fields) /\ Len(open) = Len(s.open)
               /\ \A p \in 1 .. Len(s.open) : open[p] = Touched(s.open[p], i)
               /\ (open = <<>>) = (s.open = <<>>)
               /\ Writing(open) = Writing(s.open)
    <2>1. /\ RunOf(part, i) = i
          /\ open \in Seq(Fields) /\ Len(open) = Len(s.open)
          /\ \A p \in 1 .. Len(s.open) : open[p] = Touched(s.open[p], i)
      BY <1>1, <1>3, ReachedAlone
    <2>2. ASSUME NEW p \in 1 .. Len(s.open) PROVE SameField(s.open[p], open[p])
      <3>1. s.open[p] \in Fields
        BY <1>1
      <3> QED
        BY <1>1, <2>1, <3>1, TouchedIsSame
    <2>3. Alike(s.open, open)
      BY <2>1, <2>2 DEF Alike
    <2> QED
      BY <1>1, <2>1, <2>3, AlikeWriting
  <1>4. (s.open # <<>>) = (Len(s.open) > 0)
    BY <1>1, EmptySeq
  <1> HIDE DEF open
  <1>5. CASE part[i].e = "begin"
    <2>1. /\ t.open = Opened(open, OpenField({i}))
          /\ t.doomed = s.doomed /\ t.strays = s.strays /\ t \in StripStates
      <3>1. /\ t.open = Opened(open, OpenField({RunOf(part, i)}))
            /\ t.doomed = s.doomed /\ t.strays = s.strays /\ t \in StripStates
        BY <1>5, StripBegin DEF open
      <3>2. RunOf(part, i) = i
        BY <1>3, <1>5
      <3> QED
        BY <3>1, <3>2, Zenon
    <2>2. OpenField({i}) \in Fields /\ open \in Seq(Fields)
      BY <1>1, <1>3, <1>5, OpenFieldIs
    <2> DEFINE new == OpenField({i})
    <2> HIDE DEF new
    <2>3. new \in Fields
      BY <2>2 DEF new
    <2>4. /\ Len(Opened(open, new)) = Len(open) + 1
          /\ Opened(open, new)[Len(open) + 1] = new
          /\ \A p \in 1 .. Len(open) :
               Opened(open, new)[p] = IF p = Len(open) /\ ~open[p].result /\ IsBlank(open[p].text)
                                        THEN Nesting(open[p]) ELSE open[p]
      BY <2>2, <2>3, OpenedIs
    <2>5. /\ Len(t.open) = Len(open) + 1
          /\ t.open[Len(open) + 1] = OpenField({i})
          /\ \A p \in 1 .. Len(open) :
               t.open[p] = IF p = Len(open) /\ ~open[p].result /\ IsBlank(open[p].text)
                             THEN Nesting(open[p]) ELSE open[p]
      BY <2>1, <2>4, Zenon DEF new
    <2>6. ASSUME NEW p \in 1 .. Len(s.open)
          PROVE  t.open[p] = IF p = Len(s.open) /\ ~s.open[p].result /\ IsBlank(s.open[p].text)
                               THEN Nesting(Touched(s.open[p], i)) ELSE Touched(s.open[p], i)
      <3>1. open[p] = Touched(s.open[p], i) /\ s.open[p] \in Fields
        BY <1>1, <1>3, <1>5
      <3>2. open[p].result = s.open[p].result /\ open[p].text = s.open[p].text
        BY <1>1, <3>1, TouchedIsSame DEF SameField
      <3> QED
        BY <1>3, <1>5, <2>5, <3>1, <3>2
    <2> QED
      BY <1>3, <1>5, <2>1, <2>5, <2>6 DEF StripSteps, BeginStep
  <1>6. CASE part[i].e = "separate" /\ s.open # <<>>
    <2>1. /\ Len(t.open) = Len(open)
          /\ \A p \in 1 .. Len(open) :
               t.open[p] = IF p = Len(open) THEN InRun(Resulting(open[p]), i) ELSE open[p]
          /\ t.doomed = s.doomed /\ t.strays = s.strays /\ t \in StripStates
      BY <1>3, <1>6, StripSeparate DEF open
    <2> QED
      BY <1>3, <1>4, <1>6, <2>1 DEF StripSteps, SeparateStep
  <1>7. CASE part[i].e = "end" /\ s.open # <<>>
    <2>1. /\ t.open = Front(open)
          /\ t.doomed = (IF keepSafe /\ ClassOf(Last(open)) = "safe" THEN s.doomed
                         ELSE Append(s.doomed, InRun(Last(open), i)))
          /\ t.strays = s.strays /\ t \in StripStates
      BY <1>3, <1>7, StripEnd DEF open
    <2>2. /\ Len(Front(open)) = Len(open) - 1
          /\ \A p \in 1 .. Len(open) - 1 : Front(open)[p] = open[p]
          /\ Last(open) = open[Len(open)]
      BY <1>3, <1>7, ClosedIs
    <2>3. Last(open) = Touched(s.open[Len(s.open)], i)
      BY <1>1, <1>3, <1>4, <1>7, <2>2
    <2>4. ClassOf(Last(open)) = ClassOf(s.open[Len(s.open)])
      <3>1. s.open[Len(s.open)] \in Fields
        BY <1>1, <1>4, <1>7
      <3> QED
        BY <1>1, <2>3, <3>1, TouchedIsSame
    <2>5. \A p \in 1 .. Len(s.open) - 1 : t.open[p] = Touched(s.open[p], i)
      BY <1>1, <1>3, <1>7, <2>1, <2>2
    <2>6. Len(t.open) = Len(s.open) - 1
      BY <1>3, <1>7, <2>1, <2>2
    <2>7. t.doomed = IF keepSafe /\ ClassOf(s.open[Len(s.open)]) = "safe" THEN s.doomed
                     ELSE Append(s.doomed, InRun(Touched(s.open[Len(s.open)], i), i))
      BY <2>1, <2>3, <2>4, Zenon
    <2>8. EndStep(i, s, t, keepSafe)
      BY <1>4, <1>7, <2>1, <2>5, <2>6, <2>7, Zenon DEF EndStep
    <2> QED
      BY <1>7, <2>1, <2>8, Zenon DEF StripSteps
  <1>8. CASE part[i].e = "instr" /\ Writing(s.open)
    <2>1. /\ t.open = Instructed(open, part[i].of)
          /\ t.doomed = s.doomed /\ t.strays = s.strays /\ t \in StripStates
      BY <1>3, <1>8, StripInstr DEF open
    <2>2. Len(s.open) > 0 /\ ~s.open[Len(s.open)].result /\ open # <<>>
      BY <1>1, <1>3, <1>4, <1>8, WritingIs
    <2>3. part[i].of \in STRING
      BY <1>1 DEF Pieces
    <2>4. /\ Len(t.open) = Len(open)
          /\ \A p \in 1 .. Len(open) :
               t.open[p] = IF p = Len(open) THEN Wording(open[p], part[i].of) ELSE open[p]
      BY <1>3, <1>8, <2>1, <2>2, <2>3, InstructedIs
    <2> QED
      BY <1>3, <1>8, <2>1, <2>2, <2>4 DEF StripSteps, InstrStep
  <1>9. CASE Idle(s.open, part[i])
    <2>1. part[i].e # "simple"
      BY <1>9 DEF Idle
    <2>2. Idle(open, part[i])
      BY <1>3, <1>9, <2>1 DEF Idle
    <2>3. /\ t.open = open /\ t.doomed = s.doomed /\ t \in StripStates
          /\ t.strays = (IF part[i].e = "instr" THEN s.strays \cup {i} ELSE s.strays)
      BY <2>2, StripElse DEF open
    <2> QED
      BY <1>3, <1>9, <2>1, <2>3 DEF StripSteps, IdleStep
  <1> QED
    BY <1>2, <1>5, <1>6, <1>7, <1>8, <1>9, ElementCases

(* All that the regions have to know of a step. *)

Firm(field) == field.result \/ field.nested \/ ~IsBlank(field.text)

Survives(i, s, t, p) ==
  /\ t.open[p].region = s.open[p].region \/ t.open[p].region = s.open[p].region \cup {i}
  /\ ~s.open[p].result => t.open[p].region = s.open[p].region \cup {i}
  /\ s.open[p].nested => t.open[p].nested
  /\ p < Len(s.open) \/ p < Len(t.open) =>
       /\ t.open[p].result = s.open[p].result
       /\ t.open[p].text = s.open[p].text
       /\ s.open[p].result => t.open[p].region = s.open[p].region

Moves(i, s, t, keepSafe) ==
  /\ Len(t.open) \in {Len(s.open) - 1, Len(s.open), Len(s.open) + 1}
  /\ \A p \in 1 .. Len(s.open) : p <= Len(t.open) => Survives(i, s, t, p)
  /\ Len(t.open) = Len(s.open) + 1 =>
       /\ t.open[Len(t.open)].region = {i}
       /\ Len(s.open) > 0 => Firm(t.open[Len(s.open)])
  /\ Len(t.open) >= Len(s.open) => t.doomed = s.doomed
  /\ Len(t.open) < Len(s.open) =>
       \/ /\ KeepsSafe(keepSafe) /\ ~s.open[Len(s.open)].nested /\ t.doomed = s.doomed
       \/ \E field \in Fields : /\ field.region = s.open[Len(s.open)].region \cup {i}
                                /\ t.doomed = Append(s.doomed, field)
  /\ t.strays = s.strays \/ t.strays = s.strays \cup {i}

LEMMA TouchedSurvives ==
  ASSUME NEW i \in Nat, NEW s \in StripStates, NEW t, NEW p \in 1 .. Len(s.open),
         t.open[p] = Touched(s.open[p], i)
  PROVE  Survives(i, s, t, p)
  <1>1. s.open[p] \in Fields
    BY StripStateIs
  <1> DEFINE f == s.open[p]
             g == Touched(f, i)
  <1>2. /\ g.text = f.text /\ g.nested = f.nested /\ g.result = f.result
        /\ f.result => g.region = f.region
        /\ ~f.result => g.region = f.region \cup {i}
    BY <1>1, TouchedIs
  <1> QED
    BY <1>2 DEF Survives

LEMMA SafeIsNotNested ==
  ASSUME NEW field, ClassOf(field) = "safe" PROVE ~field.nested
  BY DEF ClassOf, Classify

LEMMA MovesAre ==
  ASSUME NEW part \in Seq(Pieces), NEW i \in 1 .. Len(part), NEW keepSafe,
         NEW s \in StripStates, NEW t \in StripStates, StripSteps(part, i, s, t, keepSafe)
  PROVE  (part[i].e = "simple" /\ t = s) \/ Moves(i, s, t, keepSafe)
  <1>1. /\ s.open \in Seq(Fields) /\ Len(s.open) \in Nat /\ i \in Nat
        /\ t.open \in Seq(Fields) /\ Len(t.open) \in Nat
        /\ \A p \in 1 .. Len(s.open) : s.open[p] \in Fields
    BY StripStateIs
  <1>2. CASE BeginStep(i, s, t)
    <2>1. ASSUME NEW p \in 1 .. Len(s.open) PROVE Survives(i, s, t, p)
      <3>1. CASE t.open[p] = Touched(s.open[p], i)
        BY <1>1, <3>1, TouchedSurvives
      <3>2. CASE t.open[p] = Nesting(Touched(s.open[p], i))
        <4> DEFINE f == s.open[p]
                   g == Touched(f, i)
        <4>1. f \in Fields /\ i \in Nat
          BY <1>1
        <4>2. /\ g \in Fields /\ g.text = f.text /\ g.result = f.result
              /\ f.result => g.region = f.region
              /\ ~f.result => g.region = f.region \cup {i}
          BY <4>1, TouchedIs
        <4> HIDE DEF g
        <4>3. /\ Nesting(g).text = g.text /\ Nesting(g).nested = TRUE
              /\ Nesting(g).result = g.result /\ Nesting(g).region = g.region
          BY <4>2, NestingIs
        <4>4. t.open[p] = Nesting(g)
          BY <3>2 DEF g
        <4> QED
          BY <4>2, <4>3, <4>4 DEF Survives
      <3> QED
        BY <1>2, <3>1, <3>2 DEF BeginStep
    <2>2. t.open[Len(t.open)].region = {i} /\ Len(t.open) = Len(s.open) + 1
      BY <1>1, <1>2, OpenFieldIs DEF BeginStep
    <2>3. ASSUME Len(s.open) > 0 PROVE Firm(t.open[Len(s.open)])
      <3> DEFINE p == Len(s.open)
                 f == s.open[p]
                 g == Touched(f, i)
      <3>1. p \in 1 .. Len(s.open) /\ f \in Fields
        BY <1>1, <2>3
      <3>2. g \in Fields /\ g.text = f.text /\ g.result = f.result
        BY <1>1, <3>1, TouchedIs
      <3>3. t.open[p] = IF ~f.result /\ IsBlank(f.text) THEN Nesting(g) ELSE g
        BY <1>2, <3>1 DEF BeginStep
      <3>4. CASE ~f.result /\ IsBlank(f.text)
        <4>1. t.open[p] = Nesting(g) /\ Nesting(g).nested = TRUE
          BY <3>2, <3>3, <3>4, NestingIs
        <4> QED
          BY <4>1 DEF Firm
      <3>5. CASE ~(~f.result /\ IsBlank(f.text))
        <4>1. t.open[p] = g
          BY <3>3, <3>5
        <4> HIDE DEF g
        <4> QED
          BY <3>2, <3>5, <4>1 DEF Firm
      <3> QED
        BY <3>4, <3>5
    <2>4. t.doomed = s.doomed /\ t.strays = s.strays
      BY <1>2 DEF BeginStep
    <2>5. ~(Len(t.open) < Len(s.open))
      BY <1>1, <2>2
    <2> QED
      BY <2>1, <2>2, <2>3, <2>4, <2>5 DEF Moves
  <1>3. CASE SeparateStep(i, s, t)
    <2>1. ASSUME NEW p \in 1 .. Len(s.open), p < Len(s.open) PROVE Survives(i, s, t, p)
      <3>1. t.open[p] = Touched(s.open[p], i)
        BY <1>3, <2>1 DEF SeparateStep
      <3> QED
        BY <1>1, <3>1, TouchedSurvives
    <2>2. ASSUME NEW p \in 1 .. Len(s.open), p = Len(s.open) PROVE Survives(i, s, t, p)
      <3> DEFINE f == s.open[p]
                 g == Touched(f, i)
                 h == Resulting(g)
      <3>1. f \in Fields /\ i \in Nat
        BY <1>1
      <3>2. /\ g \in Fields /\ g.nested = f.nested
            /\ f.result => g.region = f.region
            /\ ~f.result => g.region = f.region \cup {i}
        BY <3>1, TouchedIs
      <3> HIDE DEF g
      <3>3. h \in Fields /\ h.nested = g.nested /\ h.region = g.region
        BY <3>2, ResultingIs
      <3> HIDE DEF h
      <3>4. InRun(h, i).nested = h.nested /\ InRun(h, i).region = h.region \cup {i}
        BY <3>1, <3>3, InRunIs
      <3>5. t.open[p] = InRun(h, i) /\ ~(p < Len(t.open)) /\ ~(p < Len(s.open))
        BY <1>1, <1>3, <2>2 DEF SeparateStep, g, h
      <3> QED
        BY <3>2, <3>3, <3>4, <3>5 DEF Survives
    <2>3. \A p \in 1 .. Len(s.open) : p < Len(s.open) \/ p = Len(s.open)
      BY <1>1
    <2> QED
      BY <1>1, <1>3, <2>1, <2>2, <2>3 DEF SeparateStep, Moves
  <1>4. CASE EndStep(i, s, t, keepSafe)
    <2> DEFINE n == Len(s.open)
               f == s.open[n]
               g == Touched(f, i)
    <2>1. n \in 1 .. n /\ f \in Fields /\ Len(t.open) = n - 1
      BY <1>1, <1>4 DEF EndStep
    <2>2. ASSUME NEW p \in 1 .. Len(s.open), p <= Len(t.open) PROVE Survives(i, s, t, p)
      <3>1. p \in 1 .. Len(s.open) - 1
        BY <1>1, <2>1, <2>2
      <3>2. t.open[p] = Touched(s.open[p], i)
        BY <1>4, <3>1 DEF EndStep
      <3> QED
        BY <1>1, <3>2, TouchedSurvives
    <2>3. \/ /\ KeepsSafe(keepSafe) /\ ~f.nested /\ t.doomed = s.doomed
          \/ \E field \in Fields : /\ field.region = f.region \cup {i}
                                   /\ t.doomed = Append(s.doomed, field)
      <3>1. CASE keepSafe /\ ClassOf(f) = "safe"
        <4>1. t.doomed = s.doomed
          BY <1>4, <3>1 DEF EndStep
        <4> HIDE DEF f
        <4> QED
          BY <3>1, <4>1, SafeIsNotNested DEF KeepsSafe
      <3>2. CASE ~(keepSafe /\ ClassOf(f) = "safe")
        <4>1. t.doomed = Append(s.doomed, InRun(g, i))
          BY <1>4, <3>2 DEF EndStep
        <4>2. g \in Fields /\ (g.region = f.region \/ g.region = f.region \cup {i})
          BY <1>1, <2>1, TouchedIs
        <4> HIDE DEF g
        <4>3. InRun(g, i) \in Fields /\ InRun(g, i).region = f.region \cup {i}
          BY <1>1, <4>2, InRunIs
        <4> QED
          BY <4>1, <4>3
      <3> QED
        BY <3>1, <3>2
    <2>4. t.strays = s.strays
      BY <1>4 DEF EndStep
    <2>5. Len(t.open) < Len(s.open) /\ Len(t.open) # Len(s.open) + 1
      BY <1>1, <2>1
    <2>6. ~(Len(t.open) >= Len(s.open))
      BY <1>1, <2>1
    <2>7. \A p \in 1 .. Len(s.open) : p <= Len(t.open) => Survives(i, s, t, p)
      BY <1>1, <2>2
    <2>8. Moves(i, s, t, keepSafe)
      BY <1>1, <2>1, <2>3, <2>4, <2>5, <2>6, <2>7 DEF Moves
    <2> QED
      BY <2>8
  <1>5. CASE InstrStep(i, s, t, part[i].of)
    <2>1. ASSUME NEW p \in 1 .. Len(s.open), p < Len(s.open) PROVE Survives(i, s, t, p)
      <3>1. t.open[p] = Touched(s.open[p], i)
        BY <1>5, <2>1 DEF InstrStep
      <3> QED
        BY <1>1, <3>1, TouchedSurvives
    <2>2. ASSUME NEW p \in 1 .. Len(s.open), p = Len(s.open) PROVE Survives(i, s, t, p)
      <3> DEFINE f == s.open[p]
                 g == Touched(f, i)
      <3>1. f \in Fields /\ part[i].of \in STRING
        <4>1. part[i] \in Pieces
          OBVIOUS
        <4> QED
          BY <1>1, <4>1 DEF Pieces
      <3>2. /\ g \in Fields /\ g.nested = f.nested
            /\ f.result => g.region = f.region
            /\ ~f.result => g.region = f.region \cup {i}
        BY <1>1, <3>1, TouchedIs
      <3> HIDE DEF g
      <3>3. /\ Wording(g, part[i].of).nested = g.nested
            /\ Wording(g, part[i].of).region = g.region
        BY <3>1, <3>2, WordingIs
      <3>4. t.open[p] = Wording(g, part[i].of) /\ ~(p < Len(t.open)) /\ ~(p < Len(s.open))
        BY <1>1, <1>5, <2>2 DEF InstrStep, g
      <3> QED
        BY <3>2, <3>3, <3>4 DEF Survives
    <2>3. \A p \in 1 .. Len(s.open) : p < Len(s.open) \/ p = Len(s.open)
      BY <1>1
    <2> QED
      BY <1>1, <1>5, <2>1, <2>2, <2>3 DEF InstrStep, Moves
  <1>6. ASSUME NEW stray, IdleStep(i, s, t, stray) PROVE Moves(i, s, t, keepSafe)
    <2>1. ASSUME NEW p \in 1 .. Len(s.open) PROVE Survives(i, s, t, p)
      BY <1>1, <1>6, TouchedSurvives DEF IdleStep
    <2> QED
      BY <1>1, <1>6, <2>1 DEF IdleStep, Moves
  <1> QED
    BY <1>2, <1>3, <1>4, <1>5, <1>6 DEF StripSteps

(* On the way: a field inside the instruction of another lies in its region, one *)
(* inside its result outside of it; where a field begins tells it from all that  *)
(* lie above it and from all that are closed.                                    *)

IsBegin(b, region) == b \in region /\ \A r \in region : b <= r

Above(f, g) ==
  /\ ~f.result => g.region \subseteq f.region
  /\ f.result => g.region \cap f.region = {}
  /\ \A b \in f.region : IsBegin(b, f.region) => \A r \in g.region : b < r

Stacked(i, s) ==
  /\ \A p \in 1 .. Len(s.open) : s.open[p].region # {} /\ s.open[p].region \subseteq 1 .. i
  /\ \A k \in 1 .. Len(s.doomed) : s.doomed[k].region \subseteq 1 .. i
  /\ \A q \in 1 .. Len(s.open) : \A p \in 1 .. q - 1 : Above(s.open[p], s.open[q])
  /\ \A p \in 1 .. Len(s.open) : \A k \in 1 .. Len(s.doomed) : \A b \in s.open[p].region :
       IsBegin(b, s.open[p].region) => b \notin s.doomed[k].region
  /\ \A p \in 1 .. Len(s.open) - 1 : Firm(s.open[p])
  /\ s.strays \subseteq 1 .. i

LEMMA BeginExists ==
  ASSUME NEW region \in SUBSET Nat, region # {}
  PROVE  \E b \in region : IsBegin(b, region)
  BY LeastPlace DEF IsBegin

LEMMA BeginStays ==
  ASSUME NEW i \in Nat, NEW region, region # {}, region \subseteq 1 .. i - 1,
         NEW after, after = region \/ after = region \cup {i}
  PROVE  /\ \A b \in region : IsBegin(b, region) => IsBegin(b, after)
         /\ \A b \in after : IsBegin(b, after) => b \in region /\ IsBegin(b, region)
  <1>1. \A r \in region : r \in Nat /\ r < i
    OBVIOUS
  <1>2. CASE after = region
    BY <1>2
  <1>3. CASE after = region \cup {i}
    <2>1. ASSUME NEW b \in region, IsBegin(b, region) PROVE IsBegin(b, after)
      <3>1. b < i /\ b \in Nat
        BY <1>1, <2>1
      <3>2. b <= i
        BY <3>1
      <3> QED
        BY <1>3, <2>1, <3>2 DEF IsBegin
    <2>2. ASSUME NEW b \in after, IsBegin(b, after) PROVE b \in region /\ IsBegin(b, region)
      <3>1. PICK r \in region : TRUE
        OBVIOUS
      <3>2. b <= r /\ r < i /\ r \in Nat
        BY <1>1, <1>3, <2>2, <3>1 DEF IsBegin
      <3>3. b # i
        BY <3>2
      <3> QED
        BY <1>3, <2>2, <3>3 DEF IsBegin
    <2> QED
      BY <2>1, <2>2
  <1> QED
    BY <1>2, <1>3

LEMMA AboveStays ==
  ASSUME NEW i \in Nat, NEW f, NEW g, NEW f1, NEW g1, Above(f, g),
         f.region # {}, f.region \subseteq 1 .. i - 1, g.region \subseteq 1 .. i - 1,
         f1.result = f.result,
         f.result => f1.region = f.region,
         ~f.result => f1.region = f.region \cup {i},
         g1.region = g.region \/ g1.region = g.region \cup {i}
  PROVE  Above(f1, g1)
  <1>1. f1.region = f.region \/ f1.region = f.region \cup {i}
    OBVIOUS
  <1>2. ASSUME NEW b \in f1.region, IsBegin(b, f1.region), NEW r \in g1.region PROVE b < r
    <2>1. b \in f.region /\ IsBegin(b, f.region)
      BY <1>1, <1>2, BeginStays
    <2>2. CASE r \in g.region
      BY <2>1, <2>2 DEF Above
    <2>3. CASE r = i
      BY <2>1, <2>3
    <2> QED
      BY <1>2, <2>2, <2>3
  <1>3. i \notin f.region
    OBVIOUS
  <1>4. ~f1.result => g1.region \subseteq f1.region
    BY DEF Above
  <1>5. f1.result => g1.region \cap f1.region = {}
    BY <1>3 DEF Above
  <1> QED
    BY <1>2, <1>4, <1>5 DEF Above

LEMMA StackedMoves ==
  ASSUME NEW i \in Nat \ {0}, NEW keepSafe, NEW s \in StripStates, NEW t \in StripStates,
         Stacked(i - 1, s), Moves(i, s, t, keepSafe)
  PROVE  Stacked(i, t)
  <1> DEFINE n == Len(s.open)
             m == Len(t.open)
  <1>1. /\ s.open \in Seq(Fields) /\ s.doomed \in Seq(Fields)
        /\ t.open \in Seq(Fields) /\ t.doomed \in Seq(Fields)
        /\ n \in Nat /\ m \in Nat
    BY StripStateIs
  <1>2. /\ \A p \in 1 .. n : s.open[p].region # {} /\ s.open[p].region \subseteq 1 .. i - 1
        /\ \A k \in 1 .. Len(s.doomed) : s.doomed[k].region \subseteq 1 .. i - 1
        /\ s.strays \subseteq 1 .. i - 1
    BY DEF Stacked
  <1>3. m \in {n - 1, n, n + 1} /\ \A p \in 1 .. n : p <= m => Survives(i, s, t, p)
    BY DEF Moves
  <1>4. m = n + 1 => t.open[m].region = {i} /\ (n > 0 => Firm(t.open[n]))
    BY DEF Moves
  <1>5. ASSUME NEW p \in 1 .. m, p <= n
        PROVE  /\ t.open[p].region = s.open[p].region \/ t.open[p].region = s.open[p].region \cup {i}
               /\ p < n \/ p < m => /\ t.open[p].result = s.open[p].result
                                    /\ s.open[p].result => t.open[p].region = s.open[p].region
                                    /\ ~s.open[p].result =>
                                         t.open[p].region = s.open[p].region \cup {i}
    BY <1>1, <1>3, <1>5 DEF Survives
  <1>6. \A p \in 1 .. m : p <= n \/ (p = m /\ m = n + 1)
    BY <1>1, <1>3
  <1>7. ASSUME NEW p \in 1 .. m PROVE t.open[p].region # {} /\ t.open[p].region \subseteq 1 .. i
    <2>1. CASE p <= n
      <3>1. p \in 1 .. n
        BY <1>1, <2>1
      <3>2. s.open[p].region # {} /\ s.open[p].region \subseteq 1 .. i - 1
        BY <1>2, <3>1
      <3>3. 1 .. i - 1 \subseteq 1 .. i /\ i \in 1 .. i
        OBVIOUS
      <3> QED
        BY <1>5, <2>1, <3>2, <3>3
    <2>2. CASE p = m /\ m = n + 1
      BY <1>4, <2>2
    <2> QED
      BY <1>6, <2>1, <2>2
  <1>8. ASSUME NEW q \in 1 .. m, NEW p \in 1 .. q - 1 PROVE Above(t.open[p], t.open[q])
    <2>1. p \in 1 .. m /\ p <= n /\ p \in 1 .. n /\ p < m
      BY <1>1, <1>3
    <2>2. /\ t.open[p].result = s.open[p].result
          /\ s.open[p].result => t.open[p].region = s.open[p].region
          /\ ~s.open[p].result => t.open[p].region = s.open[p].region \cup {i}
          /\ t.open[p].region = s.open[p].region \/ t.open[p].region = s.open[p].region \cup {i}
      BY <1>5, <2>1
    <2>3. s.open[p].region # {} /\ s.open[p].region \subseteq 1 .. i - 1
      BY <1>2, <2>1
    <2>4. CASE q <= n
      <3>1. q \in 1 .. n
        BY <1>1, <2>4
      <3>2. Above(s.open[p], s.open[q]) /\ s.open[q].region \subseteq 1 .. i - 1
        BY <1>2, <3>1 DEF Stacked
      <3>3. t.open[q].region = s.open[q].region \/ t.open[q].region = s.open[q].region \cup {i}
        BY <1>5, <2>4
      <3> DEFINE f  == s.open[p]
                 g  == s.open[q]
                 f1 == t.open[p]
                 g1 == t.open[q]
      <3>4. /\ Above(f, g) /\ f.region # {} /\ f.region \subseteq 1 .. i - 1
            /\ g.region \subseteq 1 .. i - 1 /\ f1.result = f.result
            /\ f.result => f1.region = f.region
            /\ ~f.result => f1.region = f.region \cup {i}
            /\ g1.region = g.region \/ g1.region = g.region \cup {i}
        BY <2>2, <2>3, <3>2, <3>3
      <3>5. i \in Nat
        OBVIOUS
      <3> HIDE DEF f, g, f1, g1
      <3>6. Above(f1, g1)
        BY <3>4, <3>5, AboveStays
      <3> QED
        BY <3>6 DEF f1, g1
    <2>5. CASE q = m /\ m = n + 1
      <3>1. t.open[q].region = {i}
        BY <1>4, <2>5
      <3>2. i \notin s.open[p].region
        BY <2>3
      <3>3. ASSUME NEW b \in t.open[p].region, IsBegin(b, t.open[p].region) PROVE b < i
        <4> DEFINE before == s.open[p].region
                   after  == t.open[p].region
        <4>2. /\ i \in Nat /\ before # {} /\ before \subseteq 1 .. i - 1
              /\ after = before \/ after = before \cup {i}
              /\ b \in after /\ IsBegin(b, after)
          BY <2>2, <2>3, <3>3
        <4> HIDE DEF before, after
        <4>3. b \in before
          BY <4>2, BeginStays
        <4>1. b \in s.open[p].region
          BY <4>3 DEF before
        <4> QED
          BY <2>3, <4>1
      <3> QED
        BY <2>2, <3>1, <3>2, <3>3 DEF Above
    <2> QED
      BY <1>6, <2>4, <2>5
  <1>9. \/ t.doomed = s.doomed
        \/ /\ m < n
           /\ \E field \in Fields : /\ field.region = s.open[n].region \cup {i}
                                    /\ t.doomed = Append(s.doomed, field)
    BY <1>1, SMTT(30) DEF Moves
  <1>10. ASSUME NEW k \in 1 .. Len(t.doomed)
         PROVE  \/ k \in 1 .. Len(s.doomed) /\ t.doomed[k] = s.doomed[k]
                \/ m < n /\ t.doomed[k].region = s.open[n].region \cup {i}
    <2>1. CASE t.doomed = s.doomed
      BY <2>1
    <2>2. ASSUME NEW field \in Fields, field.region = s.open[n].region \cup {i}, m < n,
                 t.doomed = Append(s.doomed, field)
          PROVE  \/ k \in 1 .. Len(s.doomed) /\ t.doomed[k] = s.doomed[k]
                 \/ m < n /\ t.doomed[k].region = s.open[n].region \cup {i}
      <3>1. k \in 1 .. Len(s.doomed) \/ k = Len(s.doomed) + 1
        BY <1>1, <2>2
      <3>2. /\ Append(s.doomed, field)[Len(s.doomed) + 1] = field
            /\ \A j \in 1 .. Len(s.doomed) : Append(s.doomed, field)[j] = s.doomed[j]
        BY <1>1
      <3> QED
        BY <2>2, <3>1, <3>2
    <2> QED
      BY <1>9, <2>1, <2>2
  <1>11. m < n => n \in 1 .. n
    BY <1>1
  <1>12. ASSUME NEW k \in 1 .. Len(t.doomed) PROVE t.doomed[k].region \subseteq 1 .. i
    <2>1. 1 .. i - 1 \subseteq 1 .. i /\ i \in 1 .. i
      OBVIOUS
    <2>2. m < n => s.open[n].region \subseteq 1 .. i - 1
      BY <1>2, <1>11
    <2> QED
      BY <1>2, <1>10, <2>1, <2>2
  <1>13. ASSUME NEW p \in 1 .. m, NEW k \in 1 .. Len(t.doomed), NEW b \in t.open[p].region,
                IsBegin(b, t.open[p].region)
         PROVE  b \notin t.doomed[k].region
    <2>1. CASE p <= n
      <3>1. p \in 1 .. n /\ s.open[p].region # {} /\ s.open[p].region \subseteq 1 .. i - 1
        BY <1>1, <1>2, <2>1
      <3>2. b \in s.open[p].region /\ IsBegin(b, s.open[p].region)
        <4> DEFINE before == s.open[p].region
                   after  == t.open[p].region
        <4>1. /\ i \in Nat /\ before # {} /\ before \subseteq 1 .. i - 1
              /\ after = before \/ after = before \cup {i}
              /\ b \in after /\ IsBegin(b, after)
          BY <1>5, <1>13, <2>1, <3>1
        <4> HIDE DEF before, after
        <4>2. b \in before /\ IsBegin(b, before)
          BY <4>1, BeginStays
        <4> QED
          BY <4>2 DEF before
      <3>3. \A j \in 1 .. Len(s.doomed) : b \notin s.doomed[j].region
        BY <3>1, <3>2 DEF Stacked
      <3>4. CASE m < n /\ t.doomed[k].region = s.open[n].region \cup {i}
        <4>1. p \in 1 .. n - 1 /\ n \in 1 .. n
          BY <1>1, <3>4
        <4>2. Above(s.open[p], s.open[n])
          BY <4>1 DEF Stacked
        <4>3. \A r \in s.open[n].region : b < r
          BY <3>2, <4>2 DEF Above
        <4>4. b \in Nat /\ b # i
          BY <3>1, <3>2
        <4> QED
          BY <3>4, <4>3, <4>4
      <3> QED
        BY <1>10, <3>3, <3>4
    <2>2. CASE p = m /\ m = n + 1
      <3>1. b = i
        BY <1>4, <1>13, <2>2
      <3>2. k \in 1 .. Len(s.doomed) /\ t.doomed[k] = s.doomed[k]
        BY <1>1, <1>10, <2>2
      <3>3. t.doomed[k].region \subseteq 1 .. i - 1
        BY <1>2, <3>2
      <3> QED
        BY <3>1, <3>3
    <2> QED
      BY <1>6, <2>1, <2>2
  <1>14. ASSUME NEW p \in 1 .. m - 1 PROVE Firm(t.open[p])
    <2>1. p \in 1 .. n /\ p <= m /\ p < m
      BY <1>1, <1>3
    <2>2. Survives(i, s, t, p)
      BY <1>3, <2>1
    <2>3. CASE p < n
      <3>1. Firm(s.open[p])
        BY <1>1, <2>3 DEF Stacked
      <3> QED
        BY <2>2, <2>3, <3>1 DEF Survives, Firm
    <2>4. CASE p = n
      BY <1>1, <1>3, <1>4, <2>1, <2>4
    <2> QED
      BY <1>1, <2>1, <2>3, <2>4
  <1>15. t.strays \subseteq 1 .. i
    <2>1. 1 .. i - 1 \subseteq 1 .. i /\ i \in 1 .. i
      OBVIOUS
    <2>2. t.strays = s.strays \/ t.strays = s.strays \cup {i}
      BY DEF Moves
    <2> QED
      BY <1>2, <2>1, <2>2
  <1> QED
    BY <1>7, <1>8, <1>12, <1>13, <1>14, <1>15 DEF Stacked

(* What the end says of the way: every place that goes lies in a field that is   *)
(* closed for good or still open and on its way out, and an open field that will *)
(* stay holds no other one in its name.                                          *)

Lost(x, s, gone) ==
  \/ \E k \in 1 .. Len(s.doomed) : x \in s.doomed[k].region
  \/ \E p \in 1 .. Len(s.open) : x \in s.open[p].region /\ s.open[p].region \subseteq gone

Judged(i, s, gone, strays, keepSafe) ==
  /\ \A k \in 1 .. Len(s.doomed) : s.doomed[k].region \subseteq gone
  /\ \A x \in gone : x \in 1 .. i => Lost(x, s, gone)
  /\ \A p \in 1 .. Len(s.open) :
       s.open[p].region \subseteq gone \/ (KeepsSafe(keepSafe) /\ ~s.open[p].nested)
  /\ s.strays \subseteq strays
  /\ \A x \in strays : x \in 1 .. i => x \in s.strays

LEMMA DoomedStays ==
  ASSUME NEW i \in Nat \ {0}, NEW keepSafe, NEW s \in StripStates, NEW t \in StripStates,
         Moves(i, s, t, keepSafe), NEW k \in 1 .. Len(s.doomed)
  PROVE  k \in 1 .. Len(t.doomed) /\ t.doomed[k] = s.doomed[k]
  <1>1. s.doomed \in Seq(Fields) /\ Len(s.open) \in Nat /\ Len(t.open) \in Nat
    BY StripStateIs
  <1>2. t.doomed = s.doomed \/ \E field \in Fields : t.doomed = Append(s.doomed, field)
    BY <1>1 DEF Moves
  <1>3. ASSUME NEW field \in Fields, t.doomed = Append(s.doomed, field)
        PROVE  k \in 1 .. Len(t.doomed) /\ t.doomed[k] = s.doomed[k]
    BY <1>1, <1>3
  <1> QED
    BY <1>2, <1>3

(* A field that is closed by a step goes at once, or is one that may stay. *)
LEMMA ClosesOrStays ==
  ASSUME NEW i \in Nat \ {0}, NEW keepSafe, NEW s \in StripStates, NEW t \in StripStates,
         Moves(i, s, t, keepSafe), Len(t.open) < Len(s.open)
  PROVE  \/ /\ KeepsSafe(keepSafe) /\ ~s.open[Len(s.open)].nested /\ t.doomed = s.doomed
         \/ /\ Len(t.doomed) = Len(s.doomed) + 1
            /\ t.doomed[Len(t.doomed)].region = s.open[Len(s.open)].region \cup {i}
  <1>1. s.doomed \in Seq(Fields)
    BY StripStateIs
  <1>2. ASSUME NEW field \in Fields, field.region = s.open[Len(s.open)].region \cup {i},
               t.doomed = Append(s.doomed, field)
        PROVE  /\ Len(t.doomed) = Len(s.doomed) + 1
               /\ t.doomed[Len(t.doomed)].region = s.open[Len(s.open)].region \cup {i}
    BY <1>1, <1>2
  <1> QED
    BY <1>2 DEF Moves

LEMMA JudgedBefore ==
  ASSUME NEW i \in Nat \ {0}, NEW keepSafe, NEW s \in StripStates, NEW t \in StripStates,
         Stacked(i - 1, s), Moves(i, s, t, keepSafe),
         NEW gone, NEW strays, Judged(i, t, gone, strays, keepSafe)
  PROVE  Judged(i - 1, s, gone, strays, keepSafe)
  <1> DEFINE n == Len(s.open)
             m == Len(t.open)
  <1>1. n \in Nat /\ m \in Nat /\ m \in {n - 1, n, n + 1} /\ Len(s.doomed) \in Nat
    BY StripStateIs DEF Moves
  <1>2. \A k \in 1 .. Len(s.doomed) : s.doomed[k].region \subseteq gone
    BY DoomedStays, SMTT(30) DEF Judged
  <1>3. \A p \in 1 .. n : p <= m => Survives(i, s, t, p)
    BY DEF Moves
  <1>4. \A p \in 1 .. n : p <= m \/ (p = n /\ m < n)
    BY <1>1
  <1>5. m < n /\ Len(t.doomed) = Len(s.doomed) + 1
              /\ t.doomed[Len(t.doomed)].region = s.open[n].region \cup {i}
        => s.open[n].region \subseteq gone
    BY <1>1 DEF Judged
  <1>6. ASSUME NEW p \in 1 .. n
        PROVE  s.open[p].region \subseteq gone \/ (KeepsSafe(keepSafe) /\ ~s.open[p].nested)
    <2>1. CASE p <= m
      <3>1. Survives(i, s, t, p) /\ p \in 1 .. m
        BY <1>1, <1>3, <2>1
      <3>2. t.open[p].region \subseteq gone \/ (KeepsSafe(keepSafe) /\ ~t.open[p].nested)
        BY <3>1 DEF Judged
      <3> QED
        BY <3>1, <3>2 DEF Survives
    <2>2. CASE p = n /\ m < n
      BY <1>5, <2>2, ClosesOrStays
    <2> QED
      BY <1>4, <2>1, <2>2
  <1>7. ASSUME NEW x \in gone, x \in 1 .. i - 1 PROVE Lost(x, s, gone)
    <2>1. x \in 1 .. i /\ x # i
      BY <1>7
    <2>2. Lost(x, t, gone)
      BY <2>1 DEF Judged
    <2>3. ASSUME NEW k \in 1 .. Len(t.doomed), x \in t.doomed[k].region PROVE Lost(x, s, gone)
      <3>1. CASE t.doomed = s.doomed
        BY <2>3, <3>1 DEF Lost
      <3>2. ASSUME m < n, Len(t.doomed) = Len(s.doomed) + 1,
                   t.doomed[Len(t.doomed)].region = s.open[n].region \cup {i}
            PROVE  Lost(x, s, gone)
        <4>1. CASE k = Len(t.doomed)
          <5>1. x \in s.open[n].region /\ n \in 1 .. n
            BY <1>1, <2>1, <2>3, <3>2, <4>1
          <5> QED
            BY <1>5, <3>2, <5>1 DEF Lost
        <4>2. CASE k # Len(t.doomed)
          <5>1. k \in 1 .. Len(s.doomed)
            BY <1>1, <3>2, <4>2
          <5>2. t.doomed[k] = s.doomed[k]
            BY <5>1, DoomedStays
          <5> QED
            BY <2>3, <5>1, <5>2 DEF Lost
        <4> QED
          BY <4>1, <4>2
      <3>3. t.doomed = s.doomed \/ m < n
        BY <1>1 DEF Moves
      <3>4. m < n =>
              \/ t.doomed = s.doomed
              \/ /\ Len(t.doomed) = Len(s.doomed) + 1
                 /\ t.doomed[Len(t.doomed)].region = s.open[n].region \cup {i}
        BY ClosesOrStays
      <3> QED
        BY <3>1, <3>2, <3>3, <3>4, Zenon
    <2>4. ASSUME NEW p \in 1 .. m, x \in t.open[p].region, t.open[p].region \subseteq gone
          PROVE  Lost(x, s, gone)
      <3>1. CASE p <= n
        <4>1. p \in 1 .. n /\ Survives(i, s, t, p)
          BY <1>1, <1>3, <3>1
        <4>2. x \in s.open[p].region /\ s.open[p].region \subseteq gone
          BY <2>1, <2>4, <4>1 DEF Survives
        <4> QED
          BY <4>1, <4>2 DEF Lost
      <3>2. CASE p = m /\ m = n + 1
        <4>1. t.open[m].region = {i}
          BY <3>2 DEF Moves
        <4> QED
          BY <2>1, <2>4, <3>2, <4>1
      <3> QED
        BY <1>1, <3>1, <3>2
    <2> QED
      BY <2>2, <2>3, <2>4 DEF Lost
  <1>8. s.strays \subseteq strays
    BY DEF Moves, Judged
  <1>9. ASSUME NEW x \in strays, x \in 1 .. i - 1 PROVE x \in s.strays
    <2>1. x \in 1 .. i /\ x # i
      BY <1>9
    <2>2. x \in t.strays
      BY <2>1 DEF Judged
    <2> QED
      BY <2>1, <2>2 DEF Moves
  <1> QED
    BY <1>2, <1>6, <1>7, <1>8, <1>9 DEF Judged

(* A place that goes takes the innermost open field it stands in with it. *)
LEMMA GoneIsOpen ==
  ASSUME NEW i \in Nat, NEW keepSafe, NEW s \in StripStates, Stacked(i, s),
         NEW gone, NEW strays, Judged(i, s, gone, strays, keepSafe),
         NEW p \in 1 .. Len(s.open), NEW x \in s.open[p].region, x \in gone,
         \A k \in 1 .. Len(s.doomed) : x \notin s.doomed[k].region,
         \A q \in p + 1 .. Len(s.open) : x \notin s.open[q].region
  PROVE  s.open[p].region \subseteq gone
  <1>1. Len(s.open) \in Nat
    BY StripStateIs
  <1>2. x \in 1 .. i
    BY DEF Stacked
  <1>3. PICK q \in 1 .. Len(s.open) : x \in s.open[q].region /\ s.open[q].region \subseteq gone
    BY <1>2 DEF Judged, Lost
  <1>4. q = p \/ q \in 1 .. p - 1
    BY <1>1, <1>3
  <1>5. ASSUME q \in 1 .. p - 1 PROVE s.open[p].region \subseteq gone
    <2>1. Above(s.open[q], s.open[p])
      BY <1>5 DEF Stacked
    <2> QED
      BY <1>3, <2>1 DEF Above
  <1> QED
    BY <1>3, <1>4, <1>5

LEMMA BeginTells ==
  ASSUME NEW i \in Nat, NEW keepSafe, NEW s \in StripStates, Stacked(i, s),
         NEW gone, NEW strays, Judged(i, s, gone, strays, keepSafe),
         NEW p \in 1 .. Len(s.open), NEW b \in s.open[p].region,
         IsBegin(b, s.open[p].region), b \in gone
  PROVE  s.open[p].region \subseteq gone
  <1>1. Len(s.open) \in Nat
    BY StripStateIs
  <1>2. \A k \in 1 .. Len(s.doomed) : b \notin s.doomed[k].region
    BY DEF Stacked
  <1>3. ASSUME NEW q \in p + 1 .. Len(s.open) PROVE b \notin s.open[q].region
    <2>1. q \in 1 .. Len(s.open) /\ p \in 1 .. q - 1 /\ b \in 1 .. i
      BY <1>1 DEF Stacked
    <2>2. Above(s.open[p], s.open[q])
      BY <2>1 DEF Stacked
    <2>3. \A r \in s.open[q].region : b < r
      BY <2>2 DEF Above
    <2> QED
      BY <2>1, <2>3
  <1> QED
    BY <1>2, <1>3, GoneIsOpen

(* What goes once goes for good, and so does what stays. *)
LEMMA GoneAsAWhole ==
  ASSUME NEW i \in Nat \ {0}, NEW keepSafe, NEW s \in StripStates, NEW t \in StripStates,
         Stacked(i - 1, s), Stacked(i, t), Moves(i, s, t, keepSafe),
         NEW gone, NEW strays, Judged(i, t, gone, strays, keepSafe),
         NEW p \in 1 .. Len(s.open), p <= Len(t.open)
  PROVE  (s.open[p].region \subseteq gone) <=> (t.open[p].region \subseteq gone)
  <1> DEFINE before == s.open[p].region
             after  == t.open[p].region
  <1>1. p \in 1 .. Len(t.open)
    BY StripStateIs
  <1>2. after = before \/ after = before \cup {i}
    BY DEF Moves, Survives
  <1>3. before # {} /\ before \subseteq 1 .. i - 1 /\ before \in SUBSET Nat
    BY DEF Stacked
  <1>4. ASSUME before \subseteq gone PROVE after \subseteq gone
    <2>1. PICK b \in before : IsBegin(b, before)
      BY <1>3, BeginExists
    <2> HIDE DEF before, after
    <2>2. IsBegin(b, after) /\ b \in after
      BY <1>2, <1>3, <2>1, BeginStays DEF IsBegin
    <2>3. b \in gone
      BY <1>4, <2>1
    <2> USE DEF after
    <2> QED
      BY <1>1, <2>2, <2>3, BeginTells
  <1> QED
    BY <1>2, <1>4

(* The element of a step goes with the field it belongs to, or stays with it. *)
LEMMA TopGoes ==
  ASSUME NEW i \in Nat \ {0}, NEW keepSafe, NEW s \in StripStates, NEW t \in StripStates,
         Stacked(i - 1, s), Stacked(i, t), t.doomed = s.doomed,
         NEW gone, NEW strays, Judged(i, t, gone, strays, keepSafe),
         Len(t.open) > 0, i \in t.open[Len(t.open)].region
  PROVE  i \in gone <=> t.open[Len(t.open)].region \subseteq gone
  <1>1. Len(t.open) \in 1 .. Len(t.open) /\ Len(t.open) + 1 .. Len(t.open) = {}
    BY StripStateIs
  <1>2. \A k \in 1 .. Len(t.doomed) : i \notin t.doomed[k].region
    BY DEF Stacked
  <1> QED
    BY <1>1, <1>2, GoneIsOpen

LEMMA EndGoes ==
  ASSUME NEW i \in Nat \ {0}, NEW keepSafe, NEW s \in StripStates, NEW t \in StripStates,
         Stacked(i - 1, s), Stacked(i, t), Moves(i, s, t, keepSafe),
         EndStep(i, s, t, keepSafe),
         NEW gone, NEW strays, Judged(i, t, gone, strays, keepSafe),
         Judged(i - 1, s, gone, strays, keepSafe)
  PROVE  /\ i \in gone <=> s.open[Len(s.open)].region \subseteq gone
         /\ i \notin gone =>
              KeepsSafe(keepSafe) /\ ClassOf(s.open[Len(s.open)]) = "safe" /\ t.doomed = s.doomed
  <1> DEFINE n == Len(s.open)
             top == s.open[n].region
  <1>1. /\ n \in Nat /\ n \in 1 .. n /\ Len(t.open) = n - 1 /\ Len(s.doomed) \in Nat
        /\ s.doomed \in Seq(Fields) /\ s.open[n] \in Fields
    <2>1. s.open \in Seq(Fields) /\ s.doomed \in Seq(Fields)
      BY StripStateIs
    <2> QED
      BY <2>1 DEF EndStep
  <1>2. /\ top # {} /\ top \subseteq 1 .. i - 1 /\ top \in SUBSET Nat
        /\ \A k \in 1 .. Len(s.doomed) : s.doomed[k].region \subseteq 1 .. i - 1
    BY <1>1, SMTT(30) DEF Stacked
  <1>3. ASSUME t.doomed # s.doomed PROVE top \cup {i} \subseteq gone
    <2>1. /\ Len(t.doomed) = Len(s.doomed) + 1
          /\ t.doomed[Len(t.doomed)].region = top \cup {i}
      <3>1. Len(t.open) < Len(s.open)
        BY <1>1
      <3>2. PICK field \in Fields : /\ field.region = s.open[Len(s.open)].region \cup {i}
                                    /\ t.doomed = Append(s.doomed, field)
        BY <1>3, <3>1, Zenon DEF Moves
      <3>3. /\ Len(Append(s.doomed, field)) = Len(s.doomed) + 1
            /\ Append(s.doomed, field)[Len(s.doomed) + 1] = field
        BY <1>1
      <3> QED
        BY <3>2, <3>3, Zenon
    <2>2. Len(t.doomed) \in 1 .. Len(t.doomed)
      BY <1>1, <2>1
    <2> QED
      BY <2>1, <2>2 DEF Judged
  <1>4. ASSUME t.doomed = s.doomed
        PROVE  KeepsSafe(keepSafe) /\ ClassOf(s.open[n]) = "safe"
    <2>1. ASSUME ~(KeepsSafe(keepSafe) /\ ClassOf(s.open[n]) = "safe") PROVE FALSE
      <3> DEFINE field == InRun(Touched(s.open[n], i), i)
      <3>1. t.doomed = Append(s.doomed, field)
        BY <2>1, Zenon DEF EndStep, KeepsSafe
      <3>2. field \in Fields
        BY <1>1, TouchedIs, InRunIs
      <3> HIDE DEF field
      <3>3. Len(Append(s.doomed, field)) = Len(s.doomed) + 1
        BY <1>1, <3>2
      <3> QED
        BY <1>1, <1>4, <3>1, <3>3
    <2> QED
      BY <2>1
  <1>5. ASSUME NEW q \in 1 .. n - 1
        PROVE  /\ q \in 1 .. Len(t.open) /\ Above(s.open[q], s.open[n])
               /\ s.open[q].region \subseteq t.open[q].region
               /\ ~s.open[q].result => t.open[q].region = s.open[q].region \cup {i}
               /\ s.open[q].result => t.open[q].region = s.open[q].region
               /\ s.open[q].region \subseteq 1 .. i - 1
    <2>1. q \in 1 .. n /\ q <= Len(t.open) /\ q < n
      BY <1>1
    <2>2. Survives(i, s, t, q)
      BY <2>1 DEF Moves
    <2>3. Above(s.open[q], s.open[n])
      BY <1>1 DEF Stacked
    <2>4. s.open[q].region \subseteq 1 .. i - 1
      BY <2>1 DEF Stacked
    <2> QED
      BY <1>1, <2>1, <2>2, <2>3, <2>4 DEF Survives
  <1>6. ASSUME t.doomed = s.doomed, top \subseteq gone PROVE i \in gone
    <2>1. PICK b \in top : IsBegin(b, top)
      BY <1>2, BeginExists
    <2>2. b \in gone /\ b \in 1 .. i - 1 /\ b \in 1 .. i /\ b # i
      BY <1>2, <1>6, <2>1
    <2>3. \A k \in 1 .. Len(s.doomed) : b \notin s.doomed[k].region
      BY <1>1, <2>1 DEF Stacked
    <2>4. Lost(b, t, gone)
      BY <2>2 DEF Judged
    <2>5. PICK q \in 1 .. Len(t.open) : b \in t.open[q].region /\ t.open[q].region \subseteq gone
      BY <1>6, <2>3, <2>4 DEF Lost
    <2>6. q \in 1 .. n - 1
      BY <1>1
    <2>7. b \in s.open[q].region
      <3>1. t.open[q].region = s.open[q].region \/ t.open[q].region = s.open[q].region \cup {i}
        BY <1>5, <2>6
      <3> QED
        BY <2>2, <2>5, <3>1
    <2>8. ~s.open[q].result
      BY <1>5, <2>1, <2>6, <2>7 DEF Above
    <2>9. i \in t.open[q].region
      BY <1>5, <2>6, <2>8
    <2> QED
      BY <2>5, <2>9
  <1>7. ASSUME t.doomed = s.doomed, i \in gone PROVE top \subseteq gone
    <2>1. i \in 1 .. i /\ i \notin 1 .. i - 1
      OBVIOUS
    <2>2. Lost(i, t, gone)
      BY <1>7, <2>1 DEF Judged
    <2>3. PICK q \in 1 .. Len(t.open) : i \in t.open[q].region /\ t.open[q].region \subseteq gone
      BY <1>2, <1>7, <2>1, <2>2 DEF Lost
    <2>4. q \in 1 .. n - 1
      BY <1>1
    <2>5. ~s.open[q].result
      BY <1>5, <2>1, <2>3, <2>4
    <2>6. top \subseteq s.open[q].region
      BY <1>5, <2>4, <2>5 DEF Above
    <2> QED
      BY <1>5, <2>3, <2>4, <2>6
  <1> QED
    BY <1>3, <1>4, <1>6, <1>7

-----------------------------------------------------------------------------
(* What one pass keeps of the fields when it runs over what the other left. *)

(* How the fields that are open in what remains lie among those of the whole. *)
Placed(seen, open, kept, at) ==
  /\ at \in [1 .. Len(seen) -> kept]
  /\ \A j \in 1 .. Len(seen) : \A k \in 1 .. j - 1 : at[k] < at[j]
  /\ \A p \in kept : \E j \in 1 .. Len(seen) : at[j] = p
  /\ \A j \in 1 .. Len(seen) : SameField(seen[j], open[at[j]])

Kept(s, gone) == {p \in 1 .. Len(s.open) : ~(s.open[p].region \subseteq gone)}

Follows(scan, s, gone) == \E at : Placed(scan.open, s.open, Kept(s, gone), at)

LEMMA FollowsStill ==
  ASSUME NEW scan, NEW s, NEW t, NEW gone, Follows(scan, s, gone),
         Kept(t, gone) = Kept(s, gone),
         \A p \in Kept(s, gone) : SameField(s.open[p], t.open[p])
  PROVE  Follows(scan, t, gone)
  <1>1. PICK at : Placed(scan.open, s.open, Kept(s, gone), at)
    BY DEF Follows
  <1>2. ASSUME NEW j \in 1 .. Len(scan.open) PROVE SameField(scan.open[j], t.open[at[j]])
    <2>1. at[j] \in Kept(s, gone) /\ SameField(scan.open[j], s.open[at[j]])
      BY <1>1 DEF Placed
    <2>2. SameField(s.open[at[j]], t.open[at[j]])
      BY <2>1
    <2> QED
      BY <2>1, <2>2 DEF SameField
  <1>3. Placed(scan.open, t.open, Kept(t, gone), at)
    BY <1>1, <1>2 DEF Placed
  <1> QED
    BY <1>3 DEF Follows

(* The innermost one that stays is the innermost one of what remains. *)
LEMMA LastIsLast ==
  ASSUME NEW seen \in Seq(Fields), NEW open, NEW kept, NEW n \in Nat, kept \subseteq 1 .. n,
         n \in kept, NEW at, Placed(seen, open, kept, at)
  PROVE  /\ Len(seen) \in 1 .. Len(seen) /\ at[Len(seen)] = n
         /\ SameField(seen[Len(seen)], open[n])
         /\ \A j \in 1 .. Len(seen) : j # Len(seen) => at[j] < n
  <1>1. Len(seen) \in Nat
    OBVIOUS
  <1>2. PICK j \in 1 .. Len(seen) : at[j] = n
    BY DEF Placed
  <1>3. Len(seen) \in 1 .. Len(seen) /\ at[Len(seen)] \in 1 .. n
    <2>1. Len(seen) \in 1 .. Len(seen)
      BY <1>1, <1>2
    <2>2. at \in [1 .. Len(seen) -> kept]
      BY DEF Placed
    <2>3. at[Len(seen)] \in kept
      BY <2>1, <2>2
    <2> QED
      BY <2>1, <2>3
  <1>4. j # Len(seen) => at[j] < at[Len(seen)]
    BY <1>1, <1>2, <1>3 DEF Placed
  <1>5. j = Len(seen)
    BY <1>2, <1>3, <1>4
  <1>6. \A k \in 1 .. Len(seen) : k # Len(seen) => at[k] < at[Len(seen)]
    BY <1>1, <1>3 DEF Placed
  <1> QED
    BY <1>2, <1>3, <1>5, <1>6 DEF Placed

LEMMA FollowsMore ==
  ASSUME NEW scan \in ScanStates, NEW seen \in ScanStates, NEW s \in StripStates, NEW t, NEW gone,
         Follows(scan, s, gone),
         Kept(t, gone) = Kept(s, gone) \cup {Len(s.open) + 1},
         \A p \in Kept(s, gone) : SameField(s.open[p], t.open[p]),
         Len(seen.open) = Len(scan.open) + 1,
         \A j \in 1 .. Len(scan.open) : seen.open[j] = scan.open[j],
         SameField(seen.open[Len(scan.open) + 1], t.open[Len(s.open) + 1])
  PROVE  Follows(seen, t, gone)
  <1> DEFINE n == Len(s.open)
             l == Len(scan.open)
             kept == Kept(s, gone)
  <1>1. n \in Nat /\ l \in Nat /\ kept \subseteq 1 .. n
    BY StripStateIs, ScanStateIs DEF Kept
  <1>2. PICK at : Placed(scan.open, s.open, kept, at)
    BY DEF Follows
  <1> DEFINE new == [j \in 1 .. l + 1 |-> IF j = l + 1 THEN n + 1 ELSE at[j]]
  <1> HIDE DEF kept
  <1>3. /\ at \in [1 .. l -> kept]
        /\ \A j \in 1 .. l : \A k \in 1 .. j - 1 : at[k] < at[j]
        /\ \A p \in kept : \E j \in 1 .. l : at[j] = p
        /\ \A j \in 1 .. l : SameField(scan.open[j], s.open[at[j]])
    BY <1>2 DEF Placed
  <1>4. ASSUME NEW j \in 1 .. l PROVE at[j] \in kept /\ at[j] \in 1 .. n /\ new[j] = at[j]
    <2>1. at[j] \in kept
      BY <1>3
    <2>2. j \in 1 .. l + 1 /\ j # l + 1
      BY <1>1
    <2> QED
      BY <1>1, <2>1, <2>2
  <1>5. new[l + 1] = n + 1
    BY <1>1
  <1>7. \A j \in 1 .. l + 1 : j \in 1 .. l \/ j = l + 1
    BY <1>1
  <1>6. new \in [1 .. l + 1 -> kept \cup {n + 1}]
    <2>1. ASSUME NEW j \in 1 .. l + 1 PROVE new[j] \in kept \cup {n + 1}
      BY <1>4, <1>5, <1>7
    <2> QED
      BY <2>1
  <1>8. ASSUME NEW j \in 1 .. l + 1, NEW k \in 1 .. j - 1 PROVE new[k] < new[j]
    <2>1. k \in 1 .. l
      BY <1>1
    <2>2. CASE j \in 1 .. l
      BY <1>3, <1>4, <2>1, <2>2
    <2>3. CASE j = l + 1
      <3>1. new[k] \in 1 .. n
        BY <1>4, <2>1
      <3> QED
        BY <1>1, <1>5, <2>3, <3>1
    <2> QED
      BY <1>7, <2>2, <2>3
  <1>9. ASSUME NEW p \in kept \cup {n + 1} PROVE \E j \in 1 .. l + 1 : new[j] = p
    <2>1. CASE p \in kept
      <3>1. PICK j \in 1 .. l : at[j] = p
        BY <1>3, <2>1
      <3>2. j \in 1 .. l + 1 /\ new[j] = p
        BY <1>1, <1>4, <3>1
      <3> QED
        BY <3>2
    <2>2. CASE p = n + 1
      <3>1. l + 1 \in 1 .. l + 1
        BY <1>1
      <3> QED
        BY <1>5, <2>2, <3>1
    <2> QED
      BY <2>1, <2>2
  <1>10. ASSUME NEW j \in 1 .. l + 1 PROVE SameField(seen.open[j], t.open[new[j]])
    <2>1. CASE j \in 1 .. l
      <3>1. SameField(scan.open[j], s.open[at[j]]) /\ SameField(s.open[at[j]], t.open[at[j]])
        BY <1>3, <1>4, <2>1 DEF kept
      <3>2. seen.open[j] = scan.open[j] /\ new[j] = at[j]
        BY <1>4, <2>1
      <3> HIDE DEF new
      <3> QED
        BY <3>1, <3>2 DEF SameField
    <2>2. CASE j = l + 1
      BY <1>5, <2>2
    <2> QED
      BY <1>7, <2>1, <2>2
  <1> HIDE DEF new
  <1>11. Placed(seen.open, t.open, Kept(t, gone), new)
    BY <1>6, <1>8, <1>9, <1>10 DEF Placed, kept
  <1> QED
    BY <1>11 DEF Follows

LEMMA FollowsLess ==
  ASSUME NEW scan \in ScanStates, NEW seen \in ScanStates, NEW s \in StripStates, NEW t, NEW gone,
         Follows(scan, s, gone), Len(s.open) \in Kept(s, gone),
         Kept(t, gone) = Kept(s, gone) \ {Len(s.open)},
         \A p \in Kept(t, gone) : SameField(s.open[p], t.open[p]),
         seen.open = Front(scan.open)
  PROVE  /\ Follows(seen, t, gone) /\ scan.open # <<>>
         /\ SameField(Last(scan.open), s.open[Len(s.open)])
  <1> DEFINE n == Len(s.open)
             l == Len(scan.open)
             kept == Kept(s, gone)
  <1>1. n \in Nat /\ l \in Nat /\ kept \subseteq 1 .. n /\ scan.open \in Seq(Fields)
    BY StripStateIs, ScanStateIs DEF Kept
  <1>2. PICK at : Placed(scan.open, s.open, kept, at)
    BY DEF Follows
  <1>3. /\ l \in 1 .. l /\ at[l] = n /\ SameField(scan.open[l], s.open[n])
        /\ \A j \in 1 .. l : j # l => at[j] < n
    <2>1. n \in kept /\ Placed(scan.open, s.open, kept, at) /\ scan.open \in Seq(Fields)
      BY <1>1, <1>2
    <2> HIDE DEF n, kept
    <2>2. /\ Len(scan.open) \in 1 .. Len(scan.open) /\ at[Len(scan.open)] = n
          /\ SameField(scan.open[Len(scan.open)], s.open[n])
          /\ \A j \in 1 .. Len(scan.open) : j # Len(scan.open) => at[j] < n
      BY <1>1, <2>1, LastIsLast
    <2> QED
      BY <2>2
  <1>4. scan.open # <<>>
    BY <1>1, <1>3, EmptySeq
  <1>5. /\ Len(Front(scan.open)) = l - 1
        /\ \A p \in 1 .. l - 1 : Front(scan.open)[p] = scan.open[p]
        /\ Last(scan.open) = scan.open[l]
    BY <1>1, <1>4, ClosedIs
  <1> DEFINE new == [j \in 1 .. l - 1 |-> at[j]]
  <1> HIDE DEF kept
  <1>6. /\ at \in [1 .. l -> kept]
        /\ \A j \in 1 .. l : \A k \in 1 .. j - 1 : at[k] < at[j]
        /\ \A p \in kept : \E j \in 1 .. l : at[j] = p
        /\ \A j \in 1 .. l : SameField(scan.open[j], s.open[at[j]])
    BY <1>2 DEF Placed
  <1>7. ASSUME NEW j \in 1 .. l - 1
        PROVE  j \in 1 .. l /\ at[j] \in kept \ {n} /\ new[j] = at[j] /\ seen.open[j] = scan.open[j]
    <2>1. j \in 1 .. l /\ j # l
      BY <1>1, <1>3
    <2>2. at[j] \in kept /\ at[j] \in 1 .. n /\ at[j] < n
      BY <1>1, <1>3, <1>6, <2>1
    <2> QED
      BY <1>5, <2>1, <2>2
  <1>8. new \in [1 .. l - 1 -> kept \ {n}]
    BY <1>7
  <1>9. \A j \in 1 .. l - 1 : \A k \in 1 .. j - 1 : k \in 1 .. l - 1
    BY <1>1
  <1>10. \A j \in 1 .. l - 1 : \A k \in 1 .. j - 1 : new[k] < new[j]
    BY <1>6, <1>7, <1>9
  <1>11. ASSUME NEW p \in kept \ {n} PROVE \E j \in 1 .. l - 1 : new[j] = p
    <2>1. PICK j \in 1 .. l : at[j] = p
      BY <1>6
    <2>2. j \in 1 .. l - 1
      BY <1>1, <1>3, <2>1
    <2> QED
      BY <1>7, <2>1, <2>2
  <1>12. ASSUME NEW j \in 1 .. l - 1 PROVE SameField(seen.open[j], t.open[new[j]])
    <2>1. SameField(scan.open[j], s.open[at[j]]) /\ SameField(s.open[at[j]], t.open[at[j]])
      BY <1>6, <1>7 DEF kept
    <2>2. seen.open[j] = scan.open[j] /\ new[j] = at[j]
      BY <1>7
    <2> HIDE DEF new
    <2> QED
      BY <2>1, <2>2 DEF SameField
  <1> HIDE DEF new
  <1>13. Placed(seen.open, t.open, Kept(t, gone), new)
    BY <1>5, <1>8, <1>10, <1>11, <1>12 DEF Placed, kept
  <1> QED
    BY <1>3, <1>4, <1>5, <1>13 DEF Follows

LEMMA FollowsLast ==
  ASSUME NEW scan \in ScanStates, NEW seen \in ScanStates, NEW s \in StripStates, NEW t, NEW gone,
         Follows(scan, s, gone), Len(s.open) \in Kept(s, gone),
         Kept(t, gone) = Kept(s, gone),
         \A p \in Kept(s, gone) : p # Len(s.open) => SameField(s.open[p], t.open[p]),
         Len(seen.open) = Len(scan.open),
         \A j \in 1 .. Len(scan.open) : j # Len(scan.open) => seen.open[j] = scan.open[j],
         SameField(seen.open[Len(scan.open)], t.open[Len(s.open)])
  PROVE  Follows(seen, t, gone)
  <1> DEFINE n == Len(s.open)
             l == Len(scan.open)
             kept == Kept(s, gone)
  <1>1. n \in Nat /\ l \in Nat /\ kept \subseteq 1 .. n /\ scan.open \in Seq(Fields)
    BY StripStateIs, ScanStateIs DEF Kept
  <1>2. PICK at : Placed(scan.open, s.open, kept, at)
    BY DEF Follows
  <1>3. l \in 1 .. l /\ at[l] = n /\ \A j \in 1 .. l : j # l => at[j] < n
    <2>1. n \in kept /\ Placed(scan.open, s.open, kept, at) /\ scan.open \in Seq(Fields)
      BY <1>1, <1>2
    <2> HIDE DEF n, kept
    <2>2. /\ Len(scan.open) \in 1 .. Len(scan.open) /\ at[Len(scan.open)] = n
          /\ SameField(scan.open[Len(scan.open)], s.open[n])
          /\ \A j \in 1 .. Len(scan.open) : j # Len(scan.open) => at[j] < n
      BY <1>1, <2>1, LastIsLast
    <2> QED
      BY <2>2
  <1>4. ASSUME NEW j \in 1 .. l PROVE SameField(seen.open[j], t.open[at[j]])
    <2>1. CASE j = l
      BY <1>3, <2>1
    <2>2. CASE j # l
      <3>1. at[j] \in kept /\ SameField(scan.open[j], s.open[at[j]])
        BY <1>2 DEF Placed
      <3>2. at[j] # n
        BY <1>1, <1>3, <2>2, <3>1
      <3>3. SameField(s.open[at[j]], t.open[at[j]]) /\ seen.open[j] = scan.open[j]
        BY <2>2, <3>1, <3>2
      <3> QED
        BY <3>1, <3>3 DEF SameField
    <2> QED
      BY <2>1, <2>2
  <1>5. Placed(seen.open, t.open, Kept(t, gone), at)
    BY <1>2, <1>4 DEF Placed
  <1> QED
    BY <1>5 DEF Follows

Passing(i, s, t, gone, strays, keepSafe) ==
  /\ i \in Nat \ {0} /\ s \in StripStates /\ t \in StripStates
  /\ Stacked(i - 1, s) /\ Stacked(i, t) /\ Moves(i, s, t, keepSafe)
  /\ Judged(i - 1, s, gone, strays, keepSafe) /\ Judged(i, t, gone, strays, keepSafe)

LEMMA KeptIs ==
  ASSUME NEW i, NEW s, NEW t, NEW gone, NEW strays, NEW keepSafe,
         Passing(i, s, t, gone, strays, keepSafe)
  PROVE  /\ Kept(s, gone) \subseteq 1 .. Len(s.open) /\ Kept(t, gone) \subseteq 1 .. Len(t.open)
         /\ \A p \in 1 .. Len(s.open) :
              p <= Len(t.open) => (p \in Kept(s, gone) <=> p \in Kept(t, gone))
         /\ \A p \in Kept(t, gone) : ~t.open[p].nested
         /\ \A p \in Kept(s, gone) : s.open[p] \in Fields
  <1>1. /\ i \in Nat \ {0} /\ s \in StripStates /\ t \in StripStates
        /\ Stacked(i - 1, s) /\ Stacked(i, t) /\ Moves(i, s, t, keepSafe)
        /\ Judged(i, t, gone, strays, keepSafe)
    BY DEF Passing
  <1>2. Len(s.open) \in Nat /\ Len(t.open) \in Nat /\ s.open \in Seq(Fields)
    BY <1>1, StripStateIs
  <1>3. ASSUME NEW p \in 1 .. Len(s.open), p <= Len(t.open)
        PROVE  p \in Kept(s, gone) <=> p \in Kept(t, gone)
    <2>1. (s.open[p].region \subseteq gone) <=> (t.open[p].region \subseteq gone)
      BY <1>1, <1>3, GoneAsAWhole
    <2>2. p \in 1 .. Len(t.open)
      BY <1>2, <1>3
    <2> QED
      BY <2>1, <2>2 DEF Kept
  <1>4. \A p \in Kept(t, gone) : ~t.open[p].nested
    BY <1>1 DEF Kept, Judged
  <1> QED
    BY <1>2, <1>3, <1>4 DEF Kept

LEMMA BeginFollows ==
  ASSUME NEW i, NEW s, NEW t, NEW gone, NEW strays, NEW keepSafe,
         Passing(i, s, t, gone, strays, keepSafe), BeginStep(i, s, t),
         NEW scan \in ScanStates, NEW el \in Pieces, el.e = "begin", Follows(scan, s, gone)
  PROVE  /\ i \in gone => Follows(scan, t, gone)
         /\ i \notin gone => Follows(ScanElement(scan, el), t, gone)
  <1> DEFINE n == Len(s.open)
             l == Len(scan.open)
             seen == ScanElement(scan, el)
  <1>1. i \in Nat \ {0} /\ s \in StripStates /\ t \in StripStates /\ Stacked(i, t)
    BY DEF Passing
  <1>2. n \in Nat /\ l \in Nat /\ scan.open \in Seq(Fields) /\ Len(t.open) = n + 1
    BY <1>1, StripStateIs, ScanStateIs DEF BeginStep
  <1>3. ASSUME NEW p \in Kept(s, gone)
        PROVE  /\ SameField(s.open[p], t.open[p]) /\ p \in 1 .. n
               /\ t.open[p].result \/ ~IsBlank(t.open[p].text)
    <2>1. p \in 1 .. n /\ p <= Len(t.open) /\ s.open[p] \in Fields
      BY <1>2, KeptIs
    <2>2. p \in Kept(t, gone)
      BY <2>1, KeptIs
    <2>3. ~t.open[p].nested
      BY <2>2, KeptIs
    <2>4. Touched(s.open[p], i) \in Fields /\ SameField(s.open[p], Touched(s.open[p], i))
      BY <1>1, <2>1, TouchedIs, TouchedIsSame
    <2>5. Nesting(Touched(s.open[p], i)).nested
      BY <2>4, NestingIs
    <2>6. t.open[p] = Touched(s.open[p], i)
      BY <2>1, <2>3, <2>5 DEF BeginStep
    <2>7. Firm(t.open[p])
      <3>1. p \in 1 .. Len(t.open) - 1
        BY <1>2, <2>1
      <3> QED
        BY <1>1, <3>1 DEF Stacked
    <2> QED
      BY <2>1, <2>3, <2>4, <2>6, <2>7 DEF Firm
  <1>4. n + 1 \in Kept(t, gone) <=> i \notin gone
    <2>1. t.open[n + 1].region = {i}
      BY <1>1, OpenFieldIs DEF BeginStep
    <2>2. n + 1 \in 1 .. Len(t.open)
      BY <1>2
    <2> QED
      BY <2>1, <2>2 DEF Kept
  <1>5. /\ i \in gone => Kept(t, gone) = Kept(s, gone)
        /\ i \notin gone => Kept(t, gone) = Kept(s, gone) \cup {n + 1}
    <2>1. \A p \in 1 .. n : p <= Len(t.open) /\ (p \in Kept(s, gone) <=> p \in Kept(t, gone))
      BY <1>2, KeptIs
    <2>2. Kept(s, gone) \subseteq 1 .. n /\ Kept(t, gone) \subseteq 1 .. n + 1
      BY <1>2, KeptIs
    <2>3. 1 .. n + 1 = 1 .. n \cup {n + 1} /\ n + 1 \notin 1 .. n
      BY <1>2
    <2> QED
      BY <1>4, <2>1, <2>2, <2>3
  <1>6. i \in gone => Follows(scan, t, gone)
    BY <1>3, <1>5, FollowsStill
  <1>7. ASSUME i \notin gone PROVE Follows(seen, t, gone)
    <2>1. seen.open = Opened(scan.open, OpenField({})) /\ seen \in ScanStates
      BY ScanBegin
    <2>2. OpenField({}) \in Fields
      BY OpenFieldIs
    <2>3. /\ Len(seen.open) = l + 1 /\ seen.open[l + 1] = OpenField({})
          /\ \A j \in 1 .. l :
               seen.open[j] = IF j = l /\ ~scan.open[j].result /\ IsBlank(scan.open[j].text)
                                THEN Nesting(scan.open[j]) ELSE scan.open[j]
      <3> DEFINE open == scan.open
                 new  == OpenField({})
      <3>1. open \in Seq(Fields) /\ new \in Fields /\ seen.open = Opened(open, new)
        BY <1>2, <2>1, <2>2
      <3> HIDE DEF open, new, seen
      <3>2. /\ Len(Opened(open, new)) = Len(open) + 1
            /\ Opened(open, new)[Len(open) + 1] = new
            /\ \A j \in 1 .. Len(open) :
                 Opened(open, new)[j] = IF j = Len(open) /\ ~open[j].result /\ IsBlank(open[j].text)
                                          THEN Nesting(open[j]) ELSE open[j]
        BY <3>1, OpenedIs
      <3> QED
        BY <3>1, <3>2, Zenon DEF open, new
    <2>4. ASSUME NEW j \in 1 .. l PROVE scan.open[j].result \/ ~IsBlank(scan.open[j].text)
      <3>1. PICK at : Placed(scan.open, s.open, Kept(s, gone), at)
        BY DEF Follows
      <3>2. at[j] \in Kept(s, gone) /\ SameField(scan.open[j], s.open[at[j]])
        BY <3>1 DEF Placed
      <3>3. /\ SameField(s.open[at[j]], t.open[at[j]])
            /\ t.open[at[j]].result \/ ~IsBlank(t.open[at[j]].text)
        BY <1>3, <3>2
      <3> QED
        BY <3>2, <3>3 DEF SameField
    <2>5. \A j \in 1 .. l : seen.open[j] = scan.open[j]
      BY <2>3, <2>4
    <2>6. SameField(seen.open[l + 1], t.open[n + 1])
      <3>1. {} \in SUBSET Nat /\ {i} \in SUBSET Nat
        BY <1>1
      <3>2. t.open[n + 1] = OpenField({i})
        BY DEF BeginStep
      <3> QED
        BY <2>3, <3>1, <3>2, OpenFieldIs DEF SameField
    <2>7. /\ Kept(t, gone) = Kept(s, gone) \cup {n + 1}
          /\ \A p \in Kept(s, gone) : SameField(s.open[p], t.open[p])
      BY <1>3, <1>5, <1>7
    <2>8. Len(seen.open) = l + 1
      BY <2>3
    <2> HIDE DEF seen
    <2> QED
      BY <1>1, <2>1, <2>5, <2>6, <2>7, <2>8, FollowsMore
  <1> QED
    BY <1>6, <1>7

LEMMA TopFollows ==
  ASSUME NEW i, NEW s, NEW t, NEW gone, NEW strays, NEW keepSafe,
         Passing(i, s, t, gone, strays, keepSafe),
         Len(s.open) > 0, Len(t.open) = Len(s.open), t.doomed = s.doomed,
         i \in t.open[Len(s.open)].region,
         \A p \in 1 .. Len(s.open) : p # Len(s.open) => t.open[p] = Touched(s.open[p], i),
         NEW scan \in ScanStates, NEW seen \in ScanStates, Follows(scan, s, gone),
         Len(s.open) \in Kept(s, gone) =>
           /\ Len(seen.open) = Len(scan.open)
           /\ \A j \in 1 .. Len(scan.open) : j # Len(scan.open) => seen.open[j] = scan.open[j]
           /\ SameField(seen.open[Len(scan.open)], t.open[Len(s.open)])
  PROVE  /\ i \in gone => Follows(scan, t, gone)
         /\ i \notin gone => Follows(seen, t, gone) /\ Len(s.open) \in Kept(s, gone)
  <1> DEFINE n == Len(s.open)
  <1>1. /\ i \in Nat \ {0} /\ s \in StripStates /\ t \in StripStates
        /\ Stacked(i - 1, s) /\ Stacked(i, t)
        /\ Judged(i, t, gone, strays, keepSafe)
    BY DEF Passing
  <1>2. n \in Nat /\ n \in 1 .. n
    BY <1>1, StripStateIs
  <1>3. Kept(t, gone) = Kept(s, gone)
    <2>1. \A p \in 1 .. n : p \in Kept(s, gone) <=> p \in Kept(t, gone)
      BY <1>2, KeptIs
    <2>2. Kept(s, gone) \subseteq 1 .. n /\ Kept(t, gone) \subseteq 1 .. n
      BY KeptIs
    <2> QED
      BY <2>1, <2>2
  <1>4. i \in gone <=> t.open[Len(t.open)].region \subseteq gone
    BY <1>1, TopGoes
  <1>5. i \in gone <=> n \notin Kept(s, gone)
    <2>1. i \in gone <=> n \notin Kept(t, gone)
      BY <1>2, <1>4 DEF Kept
    <2> QED
      BY <1>3, <2>1
  <1>6. ASSUME NEW p \in Kept(s, gone), p # n PROVE SameField(s.open[p], t.open[p])
    <2>1. p \in 1 .. n /\ s.open[p] \in Fields
      BY KeptIs
    <2>2. t.open[p] = Touched(s.open[p], i)
      BY <1>6, <2>1
    <2> QED
      BY <1>1, <2>1, <2>2, TouchedIsSame
  <1>7. ASSUME i \in gone PROVE Follows(scan, t, gone)
    <2>1. \A p \in Kept(s, gone) : SameField(s.open[p], t.open[p])
      BY <1>5, <1>6, <1>7
    <2> QED
      BY <1>3, <2>1, FollowsStill
  <1>8. ASSUME i \notin gone PROVE Follows(seen, t, gone)
    <2>1. n \in Kept(s, gone)
      BY <1>5, <1>8
    <2> QED
      BY <1>1, <1>3, <1>6, <2>1, FollowsLast
  <1> QED
    BY <1>5, <1>7, <1>8

LEMMA LastFollows ==
  ASSUME NEW scan \in ScanStates, NEW s \in StripStates, NEW gone, Follows(scan, s, gone),
         Len(s.open) \in Kept(s, gone)
  PROVE  /\ Len(scan.open) \in 1 .. Len(scan.open) /\ scan.open # <<>>
         /\ SameField(scan.open[Len(scan.open)], s.open[Len(s.open)])
         /\ scan.open[Len(scan.open)] \in Fields
  <1> DEFINE n == Len(s.open)
             seen == scan.open
             open == s.open
             kept == Kept(s, gone)
  <1>1. PICK at : Placed(seen, open, kept, at)
    BY DEF Follows
  <1>2. seen \in Seq(Fields) /\ n \in Nat /\ kept \subseteq 1 .. n /\ n \in kept
    BY ScanStateIs, StripStateIs DEF Kept
  <1> HIDE DEF n, seen, open, kept
  <1>3. Len(seen) \in 1 .. Len(seen) /\ SameField(seen[Len(seen)], open[n])
    BY <1>1, <1>2, LastIsLast
  <1>4. seen # <<>> /\ seen[Len(seen)] \in Fields
    BY <1>2, <1>3, EmptySeq
  <1> QED
    BY <1>3, <1>4, Zenon DEF n, seen, open

LEMMA SeparateFollows ==
  ASSUME NEW i, NEW s, NEW t, NEW gone, NEW strays, NEW keepSafe,
         Passing(i, s, t, gone, strays, keepSafe), SeparateStep(i, s, t),
         NEW scan \in ScanStates, NEW el \in Pieces, el.e = "separate", Follows(scan, s, gone)
  PROVE  /\ i \in gone => Follows(scan, t, gone)
         /\ i \notin gone => /\ Follows(ScanElement(scan, el), t, gone)
                             /\ ScanElement(scan, el).found = scan.found
                             /\ ScanElement(scan, el) \in ScanStates
  <1> DEFINE n == Len(s.open)
             l == Len(scan.open)
             seen == IF n \in Kept(s, gone) THEN ScanElement(scan, el) ELSE scan
             field == Resulting(Touched(s.open[n], i))
  <1>1. i \in Nat \ {0} /\ s \in StripStates /\ t \in StripStates
    BY DEF Passing
  <1>2. /\ n > 0 /\ Len(t.open) = n /\ t.doomed = s.doomed
        /\ \A p \in 1 .. n : p # n => t.open[p] = Touched(s.open[p], i)
        /\ n \in 1 .. n /\ t.open[n] = InRun(field, i) /\ s.open[n] \in Fields
    <2>1. s.open \in Seq(Fields) /\ n \in Nat
      BY <1>1, StripStateIs
    <2> QED
      BY <2>1 DEF SeparateStep
  <1>3. /\ field \in Fields /\ field.text = s.open[n].text
        /\ field.nested = s.open[n].nested /\ field.result
    <2>1. Touched(s.open[n], i) \in Fields /\ SameField(s.open[n], Touched(s.open[n], i))
      BY <1>1, <1>2, TouchedIs, TouchedIsSame
    <2> QED
      BY <2>1, ResultingIs DEF SameField
  <1> HIDE DEF field
  <1>4. /\ t.open[n].text = s.open[n].text /\ t.open[n].nested = s.open[n].nested
        /\ t.open[n].result = TRUE /\ i \in t.open[n].region
    <2>1. field.result = TRUE
      BY <1>3, FieldTypes
    <2>2. i \in Nat
      BY <1>1
    <2>3. /\ InRun(field, i).text = field.text /\ InRun(field, i).nested = field.nested
          /\ InRun(field, i).result = field.result /\ i \in InRun(field, i).region
      BY <1>3, <2>2, InRunIs
    <2> QED
      BY <1>2, <1>3, <2>1, <2>3, Zenon
  <1>5. ASSUME n \in Kept(s, gone)
        PROVE  /\ Len(seen.open) = l
               /\ \A j \in 1 .. l : j # l => seen.open[j] = scan.open[j]
               /\ SameField(seen.open[l], t.open[n])
               /\ seen = ScanElement(scan, el) /\ seen.found = scan.found /\ seen \in ScanStates
    <2>1. /\ l \in 1 .. l /\ scan.open # <<>> /\ scan.open[l] \in Fields
          /\ SameField(scan.open[l], s.open[n])
      BY <1>1, <1>5, LastFollows
    <2>2. /\ seen.open = Separated(scan.open) /\ seen.found = scan.found /\ seen \in ScanStates
      BY <1>5, <2>1, ScanSeparate
    <2>3. scan.open \in Seq(Fields)
      BY ScanStateIs
    <2>4. /\ Len(Separated(scan.open)) = l
          /\ \A j \in 1 .. l :
               Separated(scan.open)[j] = IF j = l THEN Resulting(scan.open[j]) ELSE scan.open[j]
      BY <2>1, <2>3, SeparatedIs
    <2>5. seen.open[l] = Resulting(scan.open[l])
      BY <2>1, <2>2, <2>4
    <2>6. SameField(seen.open[l], t.open[n])
      <3> HIDE DEF seen
      <3> QED
        BY <1>4, <2>1, <2>5, ResultingIs DEF SameField
    <2> QED
      BY <1>5, <2>2, <2>4, <2>6
  <1>6. seen \in ScanStates
    BY <1>5
  <1> HIDE DEF seen
  <1>7. /\ i \in gone => Follows(scan, t, gone)
        /\ i \notin gone => Follows(seen, t, gone) /\ n \in Kept(s, gone)
    BY <1>2, <1>4, <1>5, <1>6, TopFollows
  <1> QED
    BY <1>5, <1>7

LEMMA InstrFollows ==
  ASSUME NEW i, NEW s, NEW t, NEW gone, NEW strays, NEW keepSafe, NEW el \in Pieces,
         Passing(i, s, t, gone, strays, keepSafe), InstrStep(i, s, t, el.of),
         NEW scan \in ScanStates, el.e = "instr", Follows(scan, s, gone)
  PROVE  /\ i \in gone => Follows(scan, t, gone)
         /\ i \notin gone => /\ Follows(ScanElement(scan, el), t, gone)
                             /\ ScanElement(scan, el).found = scan.found
                             /\ ScanElement(scan, el) \in ScanStates
  <1> DEFINE n == Len(s.open)
             l == Len(scan.open)
             seen == IF n \in Kept(s, gone) THEN ScanElement(scan, el) ELSE scan
             field == Touched(s.open[n], i)
  <1>1. i \in Nat \ {0} /\ s \in StripStates /\ t \in StripStates /\ el.of \in STRING
    BY DEF Passing, Pieces
  <1>2. /\ n > 0 /\ Len(t.open) = n /\ t.doomed = s.doomed /\ ~s.open[n].result
        /\ \A p \in 1 .. n : p # n => t.open[p] = Touched(s.open[p], i)
        /\ n \in 1 .. n /\ t.open[n] = Wording(field, el.of) /\ s.open[n] \in Fields
    <2>1. s.open \in Seq(Fields) /\ n \in Nat
      BY <1>1, StripStateIs
    <2> QED
      BY <2>1 DEF InstrStep
  <1>3. /\ field \in Fields /\ field.text = s.open[n].text /\ field.result = s.open[n].result
        /\ field.nested = s.open[n].nested /\ i \in field.region
    BY <1>1, <1>2, TouchedIs
  <1> HIDE DEF field
  <1>4. /\ t.open[n].text = Append(s.open[n].text, el.of)
        /\ t.open[n].nested = s.open[n].nested
        /\ t.open[n].result = s.open[n].result /\ i \in t.open[n].region
    <2>1. /\ Wording(field, el.of).text = Append(field.text, el.of)
          /\ Wording(field, el.of).nested = field.nested
          /\ Wording(field, el.of).result = field.result
          /\ Wording(field, el.of).region = field.region
      BY <1>1, <1>3, WordingIs
    <2> QED
      BY <1>2, <1>3, <2>1, Zenon
  <1>5. ASSUME n \in Kept(s, gone)
        PROVE  /\ Len(seen.open) = l
               /\ \A j \in 1 .. l : j # l => seen.open[j] = scan.open[j]
               /\ SameField(seen.open[l], t.open[n])
               /\ seen = ScanElement(scan, el) /\ seen.found = scan.found /\ seen \in ScanStates
    <2>1. /\ l \in 1 .. l /\ scan.open # <<>> /\ scan.open[l] \in Fields
          /\ SameField(scan.open[l], s.open[n])
      BY <1>1, <1>5, LastFollows
    <2>2. scan.open \in Seq(Fields)
      BY ScanStateIs
    <2>3. Writing(scan.open)
      <3>1. scan.open[l].result = s.open[n].result
        BY <2>1 DEF SameField
      <3>2. ~scan.open[l].result /\ l > 0
        BY <1>2, <2>1, <3>1
      <3> QED
        BY <2>2, <3>2, WritingIs
    <2>4. /\ seen.open = Instructed(scan.open, el.of) /\ seen.found = scan.found
          /\ seen \in ScanStates
      BY <1>5, <2>3, ScanInstr
    <2>5. /\ Len(Instructed(scan.open, el.of)) = l
          /\ \A j \in 1 .. l :
               Instructed(scan.open, el.of)[j] =
                 IF j = l THEN Wording(scan.open[j], el.of) ELSE scan.open[j]
      BY <1>1, <2>1, <2>2, InstructedIs
    <2>6. seen.open[l] = Wording(scan.open[l], el.of)
      BY <2>1, <2>4, <2>5
    <2>7. SameField(seen.open[l], t.open[n])
      <3> DEFINE last == scan.open[l]
                 word == Wording(last, el.of)
      <3>1. /\ last \in Fields /\ last.text = s.open[n].text
            /\ last.nested = s.open[n].nested /\ last.result = s.open[n].result
        BY <2>1 DEF SameField
      <3>2. seen.open[l] = word
        BY <2>6
      <3> HIDE DEF seen, last
      <3>3. /\ word.text = Append(last.text, el.of) /\ word.nested = last.nested
            /\ word.result = last.result
        BY <1>1, <3>1, WordingIs
      <3> HIDE DEF word
      <3> QED
        BY <1>4, <3>1, <3>2, <3>3, Zenon DEF SameField
    <2> QED
      BY <1>5, <2>4, <2>5, <2>7
  <1>6. seen \in ScanStates
    BY <1>5
  <1> HIDE DEF seen
  <1>7. /\ i \in gone => Follows(scan, t, gone)
        /\ i \notin gone => Follows(seen, t, gone) /\ n \in Kept(s, gone)
    BY <1>2, <1>4, <1>5, <1>6, TopFollows
  <1> QED
    BY <1>5, <1>7

AllSafe(found, keepSafe) ==
  \A k \in 1 .. Len(found) : found[k] = "safe" /\ KeepsSafe(keepSafe)

LEMMA SafeIsAdded ==
  ASSUME NEW found \in Seq(Classes), NEW keepSafe, AllSafe(found, keepSafe), KeepsSafe(keepSafe),
         NEW class \in Classes, class = "safe"
  PROVE  AllSafe(Append(found, class), keepSafe)
  <1>1. /\ Len(Append(found, class)) = Len(found) + 1 /\ Len(found) \in Nat
        /\ Append(found, class)[Len(found) + 1] = class
        /\ \A k \in 1 .. Len(found) : Append(found, class)[k] = found[k]
    OBVIOUS
  <1>2. \A k \in 1 .. Len(found) + 1 : k \in 1 .. Len(found) \/ k = Len(found) + 1
    BY <1>1
  <1> QED
    BY <1>1, <1>2 DEF AllSafe

LEMMA EndFollows ==
  ASSUME NEW i, NEW s, NEW t, NEW gone, NEW strays, NEW keepSafe,
         Passing(i, s, t, gone, strays, keepSafe), EndStep(i, s, t, keepSafe),
         NEW scan \in ScanStates, NEW el \in Pieces, el.e = "end", Follows(scan, s, gone),
         AllSafe(scan.found, keepSafe)
  PROVE  /\ i \in gone => Follows(scan, t, gone)
         /\ i \notin gone => /\ Follows(ScanElement(scan, el), t, gone)
                             /\ AllSafe(ScanElement(scan, el).found, keepSafe)
                             /\ ScanElement(scan, el) \in ScanStates
  <1> DEFINE n == Len(s.open)
             seen == ScanElement(scan, el)
  <1>1. /\ i \in Nat \ {0} /\ s \in StripStates /\ t \in StripStates
        /\ Stacked(i - 1, s) /\ Stacked(i, t) /\ Moves(i, s, t, keepSafe)
        /\ Judged(i - 1, s, gone, strays, keepSafe) /\ Judged(i, t, gone, strays, keepSafe)
    BY DEF Passing
  <1>2. /\ n \in 1 .. n /\ n \in Nat /\ Len(t.open) = n - 1
        /\ \A p \in 1 .. n - 1 : t.open[p] = Touched(s.open[p], i) /\ s.open[p] \in Fields
    <2>1. s.open \in Seq(Fields) /\ n \in Nat
      BY <1>1, StripStateIs
    <2> QED
      BY <2>1 DEF EndStep
  <1>3. /\ i \in gone <=> s.open[n].region \subseteq gone
        /\ i \notin gone =>
             KeepsSafe(keepSafe) /\ ClassOf(s.open[n]) = "safe"
    BY <1>1, EndGoes
  <1>4. i \in gone <=> n \notin Kept(s, gone)
    BY <1>2, <1>3 DEF Kept
  <1>5. Kept(t, gone) = Kept(s, gone) \ {n}
    <2>1. \A p \in 1 .. n : p <= n - 1 => (p \in Kept(s, gone) <=> p \in Kept(t, gone))
      BY <1>2, KeptIs
    <2>2. Kept(s, gone) \subseteq 1 .. n /\ Kept(t, gone) \subseteq 1 .. n - 1
      BY <1>2, KeptIs
    <2>3. \A p \in 1 .. n : p # n => p <= n - 1
      BY <1>2
    <2>4. n \notin 1 .. n - 1 /\ \A p \in 1 .. n - 1 : p \in 1 .. n /\ p <= n - 1
      BY <1>2
    <2> QED
      BY <2>1, <2>2, <2>3, <2>4
  <1>6. ASSUME NEW p \in Kept(t, gone) PROVE SameField(s.open[p], t.open[p])
    <2>1. p \in 1 .. n - 1
      BY <1>2, KeptIs
    <2> QED
      BY <1>1, <1>2, <2>1, TouchedIsSame
  <1>7. ASSUME i \in gone PROVE Follows(scan, t, gone)
    <2>1. Kept(t, gone) = Kept(s, gone)
      BY <1>4, <1>5, <1>7
    <2> QED
      BY <1>6, <2>1, FollowsStill
  <1>8. ASSUME i \notin gone
        PROVE  Follows(seen, t, gone) /\ AllSafe(seen.found, keepSafe) /\ seen \in ScanStates
    <2>1. n \in Kept(s, gone)
      BY <1>4, <1>8
    <2>2. /\ Len(scan.open) \in 1 .. Len(scan.open) /\ scan.open # <<>>
          /\ SameField(scan.open[Len(scan.open)], s.open[n])
      BY <1>1, <2>1, LastFollows
    <2>3. /\ seen.open = Front(scan.open)
          /\ seen.found = Append(scan.found, ClassOf(Last(scan.open))) /\ seen \in ScanStates
      BY <2>2, ScanEnd
    <2>4. Follows(seen, t, gone)
      <3> HIDE DEF seen
      <3> QED
        BY <1>1, <1>5, <1>6, <2>1, <2>3, FollowsLess
    <2>5. ClassOf(Last(scan.open)) = "safe"
      <3>1. ClassOf(scan.open[Len(scan.open)]) = ClassOf(s.open[n])
        BY <2>2 DEF SameField, ClassOf
      <3>2. Last(scan.open) = scan.open[Len(scan.open)]
        BY <2>2, ScanStateIs, ClosedIs
      <3> QED
        BY <1>3, <1>8, <3>1, <3>2
    <2> DEFINE class == ClassOf(Last(scan.open))
    <2>6. class \in Classes /\ class = "safe" /\ scan.found \in Seq(Classes)
      BY <2>5, ClassIs, ScanStateIs
    <2>7. seen.found = Append(scan.found, class)
      BY <2>3
    <2> HIDE DEF class
    <2>8. AllSafe(Append(scan.found, class), keepSafe)
      BY <1>3, <1>8, <2>6, SafeIsAdded
    <2> QED
      BY <2>3, <2>4, <2>7, <2>8
  <1> QED
    BY <1>7, <1>8

LEMMA IdleFollows ==
  ASSUME NEW i, NEW s, NEW t, NEW gone, NEW strays, NEW keepSafe, NEW el \in Pieces,
         Passing(i, s, t, gone, strays, keepSafe), Idle(s.open, el),
         IdleStep(i, s, t, el.e = "instr"),
         NEW scan \in ScanStates, Follows(scan, s, gone)
  PROVE  /\ Follows(scan, t, gone)
         /\ i \in strays \/ ScanElement(scan, el) = scan
  <1> DEFINE n == Len(s.open)
  <1>1. /\ i \in Nat \ {0} /\ s \in StripStates /\ t \in StripStates
        /\ Judged(i, t, gone, strays, keepSafe)
    BY DEF Passing
  <1>2. s.open \in Seq(Fields) /\ n \in Nat /\ scan.open \in Seq(Fields)
    BY <1>1, StripStateIs, ScanStateIs
  <1>3. Len(t.open) = n /\ \A p \in 1 .. n : t.open[p] = Touched(s.open[p], i)
    BY DEF IdleStep
  <1>4. Kept(t, gone) = Kept(s, gone)
    <2>1. \A p \in 1 .. n : p \in Kept(s, gone) <=> p \in Kept(t, gone)
      BY <1>2, <1>3, KeptIs
    <2>2. Kept(s, gone) \subseteq 1 .. n /\ Kept(t, gone) \subseteq 1 .. n
      BY <1>3, KeptIs
    <2> QED
      BY <2>1, <2>2
  <1>5. ASSUME NEW p \in Kept(s, gone) PROVE SameField(s.open[p], t.open[p])
    <2>1. p \in 1 .. n /\ s.open[p] \in Fields
      BY KeptIs
    <2> QED
      BY <1>1, <1>3, <2>1, TouchedIsSame
  <1>6. Follows(scan, t, gone)
    BY <1>4, <1>5, FollowsStill
  <1>7. CASE el.e = "instr"
    <2>1. i \in t.strays
      BY <1>7 DEF IdleStep
    <2> QED
      BY <1>1, <1>6, <2>1 DEF Judged
  <1>8. CASE el.e # "instr"
    <2>1. s.open = <<>> => scan.open = <<>>
      <3>1. ASSUME s.open = <<>> PROVE scan.open = <<>>
        <4>1. Kept(s, gone) = {}
          BY <3>1 DEF Kept
        <4>2. PICK at : Placed(scan.open, s.open, Kept(s, gone), at)
          BY DEF Follows
        <4>3. \A j \in 1 .. Len(scan.open) : at[j] \in {}
          BY <4>1, <4>2 DEF Placed
        <4>4. Len(scan.open) = 0
          BY <1>2, <4>3
        <4> QED
          BY <1>2, <4>4, EmptySeq
      <3> QED
        BY <3>1
    <2>2. Idle(scan.open, el)
      BY <1>8, <2>1 DEF Idle
    <2> QED
      BY <1>6, <2>2, ScanIdle
  <1> QED
    BY <1>7, <1>8

(* What stays of a part, and one element more of it. *)
StaysAt(part, i, gone, strays, keepSafe) ==
  IF part[i].e = "simple" THEN ~Unwraps(part[i], keepSafe) ELSE i \notin gone /\ i \notin strays

LEMMA RestFollows ==
  ASSUME NEW part \in Seq(Pieces), NEW i \in 1 .. Len(part), NEW s, NEW t, NEW gone, NEW strays,
         NEW keepSafe, StripSteps(part, i, s, t, keepSafe),
         part[i].e # "simple" => Passing(i, s, t, gone, strays, keepSafe),
         NEW scan \in ScanStates, Follows(scan, s, gone), AllSafe(scan.found, keepSafe)
  PROVE  LET seen == IF StaysAt(part, i, gone, strays, keepSafe) THEN ScanElement(scan, part[i])
                     ELSE scan
         IN seen \in ScanStates /\ Follows(seen, t, gone) /\ AllSafe(seen.found, keepSafe)
  <1> DEFINE el == part[i]
             seen == ScanElement(scan, el)
             stays == StaysAt(part, i, gone, strays, keepSafe)
             Goal == /\ stays => /\ seen \in ScanStates /\ Follows(seen, t, gone)
                                 /\ AllSafe(seen.found, keepSafe)
                     /\ ~stays => Follows(scan, t, gone)
  <1>1. el \in Pieces /\ i \in Nat \ {0}
    OBVIOUS
  <1>2. ASSUME el.e # "simple", t.strays = s.strays PROVE i \notin strays
    <2>1. Stacked(i - 1, s) /\ Judged(i, t, gone, strays, keepSafe)
      BY <1>2 DEF Passing
    <2>2. i \notin s.strays /\ i \in 1 .. i
      BY <1>1, <2>1 DEF Stacked
    <2> QED
      BY <1>2, <2>1, <2>2 DEF Judged
  <1>3. CASE el.e = "begin" /\ BeginStep(i, s, t)
    <2>1. /\ i \in gone => Follows(scan, t, gone)
          /\ i \notin gone => Follows(seen, t, gone)
      BY <1>1, <1>3, BeginFollows
    <2>2. i \notin strays /\ seen \in ScanStates /\ seen.found = scan.found
      BY <1>1, <1>2, <1>3, ScanBegin DEF BeginStep
    <2>3. stays <=> i \notin gone
      BY <1>3, <2>2 DEF StaysAt
    <2> HIDE DEF seen, stays
    <2>4. Goal
      BY <2>1, <2>2, <2>3
    <2> QED
      BY <2>4 DEF seen, stays
  <1>4. CASE el.e = "separate" /\ SeparateStep(i, s, t)
    <2>1. /\ i \in gone => Follows(scan, t, gone)
          /\ i \notin gone => /\ Follows(seen, t, gone)
                              /\ seen.found = scan.found /\ seen \in ScanStates
      BY <1>1, <1>4, SeparateFollows
    <2>2. i \notin strays
      BY <1>2, <1>4 DEF SeparateStep
    <2>3. stays <=> i \notin gone
      BY <1>4, <2>2 DEF StaysAt
    <2> HIDE DEF seen, stays
    <2>4. Goal
      BY <2>1, <2>2, <2>3
    <2> QED
      BY <2>4 DEF seen, stays
  <1>5. CASE el.e = "end" /\ EndStep(i, s, t, keepSafe)
    <2>1. /\ i \in gone => Follows(scan, t, gone)
          /\ i \notin gone => /\ Follows(seen, t, gone)
                              /\ AllSafe(seen.found, keepSafe) /\ seen \in ScanStates
      BY <1>1, <1>5, EndFollows
    <2>2. i \notin strays
      BY <1>2, <1>5 DEF EndStep
    <2>3. stays <=> i \notin gone
      BY <1>5, <2>2 DEF StaysAt
    <2> HIDE DEF seen, stays
    <2>4. Goal
      BY <2>1, <2>2, <2>3
    <2> QED
      BY <2>4 DEF seen, stays
  <1>6. CASE el.e = "instr" /\ InstrStep(i, s, t, el.of)
    <2>1. /\ i \in gone => Follows(scan, t, gone)
          /\ i \notin gone => /\ Follows(seen, t, gone)
                              /\ seen.found = scan.found /\ seen \in ScanStates
      BY <1>1, <1>6, InstrFollows
    <2>2. i \notin strays
      BY <1>2, <1>6 DEF InstrStep
    <2>3. stays <=> i \notin gone
      BY <1>6, <2>2 DEF StaysAt
    <2> HIDE DEF seen, stays
    <2>4. Goal
      BY <2>1, <2>2, <2>3
    <2> QED
      BY <2>4 DEF seen, stays
  <1>7. CASE el.e = "simple" /\ t = s
    <2>1. /\ seen.open = scan.open /\ seen \in ScanStates
          /\ seen.found = Append(scan.found, Classify(<<el.of>>, FALSE))
      BY <1>1, <1>7, ScanSimple
    <2>2. Follows(seen, t, gone)
      <3> HIDE DEF seen
      <3> QED
        BY <1>7, <2>1 DEF Follows
    <2>3. ASSUME stays PROVE AllSafe(seen.found, keepSafe)
      <3> DEFINE class == Classify(<<el.of>>, FALSE)
      <3>1. KeepsSafe(keepSafe) /\ class = "safe"
        BY <1>7, <2>3, Zenon DEF StaysAt, Unwraps, KeepsSafe
      <3>2. class \in Classes /\ scan.found \in Seq(Classes)
        BY ClassIs, ScanStateIs
      <3>3. seen.found = Append(scan.found, class)
        BY <2>1
      <3> HIDE DEF class, seen
      <3> QED
        BY <3>1, <3>2, <3>3, SafeIsAdded
    <2>4. Follows(scan, t, gone)
      BY <1>7
    <2> HIDE DEF seen, stays
    <2>5. Goal
      BY <2>1, <2>2, <2>3, <2>4
    <2> QED
      BY <2>5 DEF seen, stays
  <1>8. CASE Idle(s.open, el) /\ IdleStep(i, s, t, el.e = "instr")
    <2>1. Follows(scan, t, gone) /\ (i \in strays \/ seen = scan)
      <3>1. Passing(i, s, t, gone, strays, keepSafe)
        BY <1>8 DEF Idle
      <3> QED
        BY <1>1, <1>8, <3>1, IdleFollows
    <2>2. i \in strays => ~stays
      BY <1>8 DEF StaysAt, Idle
    <2> HIDE DEF seen, stays
    <2>3. Goal
      BY <2>1, <2>2
    <2> QED
      BY <2>3 DEF seen, stays
  <1> QED
    BY <1>3, <1>4, <1>5, <1>6, <1>7, <1>8, Zenon DEF StripSteps

LEMMA Scanning ==
  ASSUME NEW part \in Seq(Pieces), NEW el \in Pieces
  PROVE  Scanned(Append(part, el)) = ScanElement(Scanned(part), el)
  <1> DEFINE more == Append(part, el)
             n == Len(part)
             S == {i \in 0 .. n : Scans(more)[i] = Scans(part)[i]}
  <1>1. /\ n \in Nat /\ Len(more) = n + 1 /\ more[n + 1] = el
        /\ \A i \in 1 .. n : more[i] = part[i]
    OBVIOUS
  <1> HIDE DEF more, n
  <1>2. /\ Scans(part)[0] = ScanStart
        /\ \A i \in 1 .. n : Scans(part)[i] = ScanElement(Scans(part)[i - 1], part[i])
    BY <1>1, ScansAre DEF n
  <1>3. /\ Scans(more)[0] = ScanStart
        /\ \A i \in 1 .. n + 1 : Scans(more)[i] = ScanElement(Scans(more)[i - 1], more[i])
    BY <1>1, ScansAre
  <1>4. 0 \in S
    BY <1>1, <1>2, <1>3
  <1>5. ASSUME NEW i \in 0 .. n - 1, i \in S PROVE i + 1 \in S
    <2>1. i + 1 \in 1 .. n /\ i + 1 \in 1 .. n + 1 /\ (i + 1) - 1 = i
      BY <1>1
    <2>2. Scans(more)[i + 1] = ScanElement(Scans(more)[i], more[i + 1])
      BY <1>3, <2>1
    <2>3. Scans(part)[i + 1] = ScanElement(Scans(part)[i], part[i + 1])
      BY <1>2, <2>1
    <2>4. Scans(more)[i + 1] = Scans(part)[i + 1]
      BY <1>1, <1>5, <2>1, <2>2, <2>3
    <2> QED
      BY <1>1, <2>1, <2>4
  <1>6. \A i \in 0 .. n : i \in S
    <2> HIDE DEF S
    <2> QED
      BY <1>1, <1>4, <1>5, PlaceInduction
  <1>7. Scans(more)[n] = Scans(part)[n]
    BY <1>1, <1>6
  <1>8. Scans(more)[n + 1] = ScanElement(Scans(more)[n], more[n + 1])
    BY <1>1, <1>3
  <1> QED
    BY <1>1, <1>7, <1>8 DEF Scanned, more, n

LEMMA Picking ==
  ASSUME NEW part \in Seq(Pieces), NEW el \in Pieces, NEW places, NEW others,
         \A i \in 1 .. Len(part) : i \in places <=> i \in others
  PROVE  Picked(Append(part, el), others) =
           IF Len(part) + 1 \in others THEN Append(Picked(part, places), el)
           ELSE Picked(part, places)
  <1> DEFINE more == Append(part, el)
             n == Len(part)
  <1>1. /\ n \in Nat /\ Len(more) = n + 1 /\ more[n + 1] = el
        /\ \A i \in 1 .. n : more[i] = part[i]
    OBVIOUS
  <1> HIDE DEF more, n
  <1>2. PICK g : IsPicked(part, places, n, g) /\ Picked(part, places) = g[n]
    BY <1>1, PickedIs DEF n
  <1>3. PICK h : IsPicked(more, others, n + 1, h) /\ Picked(more, others) = h[n + 1]
    BY <1>1, PickedIs
  <1>4. g[0] = <<>> /\ \A i \in 1 .. n : g[i] = PickedNext(part, places, g[i - 1], i)
    BY <1>1, <1>2 DEF IsPicked
  <1>5. h[0] = <<>> /\ \A i \in 1 .. n + 1 : h[i] = PickedNext(more, others, h[i - 1], i)
    BY <1>1, <1>3 DEF IsPicked
  <1> DEFINE S == {i \in 0 .. n : h[i] = g[i]}
  <1>6. 0 \in S
    BY <1>1, <1>4, <1>5
  <1>7. ASSUME NEW i \in 0 .. n - 1, i \in S PROVE i + 1 \in S
    <2>1. i + 1 \in 1 .. n /\ i + 1 \in 1 .. n + 1 /\ (i + 1) - 1 = i
      BY <1>1
    <2>2. h[i + 1] = PickedNext(more, others, h[i], i + 1)
      BY <1>5, <2>1
    <2>3. g[i + 1] = PickedNext(part, places, g[i], i + 1)
      BY <1>4, <2>1
    <2>4. i + 1 \in places <=> i + 1 \in others
      BY <2>1 DEF n
    <2>5. h[i + 1] = g[i + 1]
      BY <1>1, <1>7, <2>1, <2>2, <2>3, <2>4 DEF PickedNext
    <2> QED
      BY <1>1, <2>1, <2>5
  <1>8. \A i \in 0 .. n : i \in S
    <2> HIDE DEF S
    <2> QED
      BY <1>1, <1>6, <1>7, PlaceInduction
  <1>9. h[n] = g[n]
    BY <1>1, <1>8
  <1>10. h[n + 1] = PickedNext(more, others, h[n], n + 1)
    BY <1>1, <1>5
  <1> QED
    BY <1>1, <1>2, <1>3, <1>9, <1>10 DEF PickedNext, more, n

(* Where nothing is joined, what is left is the part without what goes. *)
LEMMA StripPicks ==
  ASSUME NEW part \in Seq(Pieces), OneRunEach(part), NEW keepSafe
  PROVE  StripFields(part, keepSafe) = Picked(part, Remaining(part, keepSafe))
  <1> DEFINE remaining == Remaining(part, keepSafe)
             first(i) == \A j \in 1 .. i - 1 : RunOf(part, j) = RunOf(part, i) => j \notin remaining
             rest == [i \in DOMAIN part |-> [part[i] EXCEPT !.joined = @ /\ ~first(i)]]
  <1>1. ASSUME NEW i \in DOMAIN part PROVE [part[i] EXCEPT !.joined = @ /\ ~first(i)] = part[i]
    <2>1. part[i] \in Pieces /\ part[i].joined = FALSE
      <3>1. part[i] \in Pieces /\ ~part[i].joined
        BY DEF OneRunEach
      <3>2. part[i].joined \in BOOLEAN
        BY <3>1 DEF Pieces
      <3> QED
        BY <3>1, <3>2
    <2> HIDE DEF first
    <2> QED
      BY <2>1 DEF Pieces
  <1>2. rest = part
    <2> HIDE DEF first
    <2> QED
      BY <1>1
  <1>3. StripFields(part, keepSafe) = Picked(rest, remaining)
    BY DEF StripFields, Reduced
  <1> HIDE DEF rest, remaining
  <1>4. StripFields(part, keepSafe) = Picked(part, remaining)
    BY <1>2, <1>3
  <1> QED
    BY <1>4 DEF remaining

LEMMA PlaceDescent ==
  ASSUME NEW n \in Nat, NEW S, n \in S, \A i \in 1 .. n : i \in S => i - 1 \in S
  PROVE  \A i \in 0 .. n : i \in S
  <1> DEFINE T == {k \in 0 .. n : n - k \in S}
  <1>1. 0 \in T
    OBVIOUS
  <1>2. ASSUME NEW k \in 0 .. n - 1, k \in T PROVE k + 1 \in T
    <2>1. n - k \in 1 .. n /\ (n - k) - 1 = n - (k + 1) /\ k + 1 \in 0 .. n
      OBVIOUS
    <2> QED
      BY <1>2, <2>1
  <1>3. \A k \in 0 .. n : k \in T
    <2> HIDE DEF T
    <2> QED
      BY <1>1, <1>2, PlaceInduction
  <1>4. ASSUME NEW i \in 0 .. n PROVE i \in S
    <2>1. n - i \in 0 .. n /\ n - (n - i) = i
      OBVIOUS
    <2>2. n - i \in T
      BY <1>3, <2>1
    <2> QED
      BY <2>1, <2>2
  <1> QED
    BY <1>4

-----------------------------------------------------------------------------
(* The whole way over a part. *)

GoneFrom(part, keepSafe) ==
  UNION {Stripping(part, keepSafe).doomed[k].region : k \in DOMAIN Stripping(part, keepSafe).doomed}

LEMMA WayIsStacked ==
  ASSUME NEW part \in Seq(Pieces), OneRunEach(part), NEW keepSafe
  PROVE  LET strip == Strips(part, keepSafe)
         IN /\ \A i \in 0 .. Len(part) : strip[i] \in StripStates /\ Stacked(i, strip[i])
            /\ \A i \in 1 .. Len(part) :
                 /\ StripSteps(part, i, strip[i - 1], strip[i], keepSafe)
                 /\ \/ part[i].e = "simple" /\ strip[i] = strip[i - 1]
                    \/ Moves(i, strip[i - 1], strip[i], keepSafe)
  <1> DEFINE strip == Strips(part, keepSafe)
             S == {i \in 0 .. Len(part) : Stacked(i, strip[i])}
  <1>1. Len(part) \in Nat
    OBVIOUS
  <1>2. /\ strip[0] = StripStart
        /\ \A i \in 1 .. Len(part) : strip[i] = StripElement(strip[i - 1], i, part, keepSafe)
    BY <1>1, StripsAre
  <1>3. \A i \in 0 .. Len(part) : strip[i] \in StripStates
    BY PassesAreAlike
  <1> HIDE DEF strip
  <1>4. ASSUME NEW i \in 1 .. Len(part)
        PROVE  /\ StripSteps(part, i, strip[i - 1], strip[i], keepSafe)
               /\ \/ part[i].e = "simple" /\ strip[i] = strip[i - 1]
                  \/ Moves(i, strip[i - 1], strip[i], keepSafe)
               /\ strip[i - 1] \in StripStates /\ strip[i] \in StripStates
    <2>1. i - 1 \in 0 .. Len(part) /\ i \in 0 .. Len(part)
      BY <1>1
    <2>2. strip[i - 1] \in StripStates /\ strip[i] \in StripStates
      BY <1>3, <2>1
    <2>3. strip[i] = StripElement(strip[i - 1], i, part, keepSafe)
      BY <1>2
    <2>4. StripSteps(part, i, strip[i - 1], strip[i], keepSafe)
      BY <2>2, <2>3, StepsAre
    <2> QED
      BY <2>2, <2>4, MovesAre
  <1>5. 0 \in S
    <2>1. strip[0].open = <<>> /\ strip[0].doomed = <<>> /\ strip[0].strays = {}
      BY <1>2 DEF StripStart
    <2> QED
      BY <1>1, <2>1 DEF Stacked
  <1>6. ASSUME NEW i \in 0 .. Len(part) - 1, i \in S PROVE i + 1 \in S
    <2> DEFINE next == i + 1
    <2>1. next \in 1 .. Len(part) /\ next - 1 = i /\ next \in Nat \ {0} /\ next \in 0 .. Len(part)
      BY <1>1
    <2>2. Stacked(next - 1, strip[i])
      BY <1>6, <2>1
    <2>3. /\ \/ part[next].e = "simple" /\ strip[next] = strip[i]
             \/ Moves(next, strip[i], strip[next], keepSafe)
          /\ strip[i] \in StripStates /\ strip[next] \in StripStates
      BY <1>4, <2>1
    <2> HIDE DEF next
    <2>4. CASE strip[next] = strip[i]
      <3>1. 1 .. next - 1 \subseteq 1 .. next
        BY <2>1
      <3>2. Stacked(next, strip[i])
        BY <2>2, <3>1 DEF Stacked
      <3> QED
        BY <2>1, <2>4, <3>2 DEF next
    <2>5. CASE Moves(next, strip[i], strip[next], keepSafe)
      <3>1. Stacked(next, strip[next])
        BY <2>1, <2>2, <2>3, <2>5, StackedMoves
      <3> QED
        BY <2>1, <3>1 DEF next
    <2> QED
      BY <2>3, <2>4, <2>5
  <1>7. \A i \in 0 .. Len(part) : i \in S
    <2> HIDE DEF S
    <2> QED
      BY <1>1, <1>5, <1>6, PlaceInduction
  <1>8. /\ \A i \in 0 .. Len(part) : strip[i] \in StripStates /\ Stacked(i, strip[i])
        /\ \A i \in 1 .. Len(part) :
             /\ StripSteps(part, i, strip[i - 1], strip[i], keepSafe)
             /\ \/ part[i].e = "simple" /\ strip[i] = strip[i - 1]
                \/ Moves(i, strip[i - 1], strip[i], keepSafe)
    BY <1>3, <1>4, <1>7
  <1> QED
    BY <1>8 DEF strip

LEMMA EndIsJudged ==
  ASSUME NEW part \in Seq(Pieces), NEW keepSafe
  PROVE  LET last == Strips(part, keepSafe)[Len(part)]
         IN /\ Judged(Len(part), last, GoneFrom(part, keepSafe), last.strays, keepSafe)
            /\ Kept(last, GoneFrom(part, keepSafe)) = {}
            /\ Stripping(part, keepSafe).strays = last.strays
  <1> DEFINE last == Strips(part, keepSafe)[Len(part)]
             gone == GoneFrom(part, keepSafe)
             d == last.doomed
             o == last.open
  <1>1. last \in StripStates
    BY PassesAreAlike
  <1>2. Stripping(part, keepSafe).doomed = d \o o /\ Stripping(part, keepSafe).strays = last.strays
    BY DEF Stripping
  <1>3. d \in Seq(Fields) /\ o \in Seq(Fields)
    BY <1>1, StripStateIs
  <1>4. gone = UNION {(d \o o)[k].region : k \in DOMAIN (d \o o)}
    BY <1>2 DEF GoneFrom
  <1> HIDE DEF d, o, gone
  <1>5. /\ Len(d) \in Nat /\ Len(o) \in Nat /\ Len(d \o o) = Len(d) + Len(o)
        /\ d \o o \in Seq(Fields)
        /\ \A k \in 1 .. Len(d) : (d \o o)[k] = d[k]
        /\ \A k \in 1 .. Len(o) : (d \o o)[Len(d) + k] = o[k]
    BY <1>3, ConcatIs
  <1>6. DOMAIN (d \o o) = 1 .. Len(d) + Len(o)
    BY <1>5
  <1>7. ASSUME NEW k \in 1 .. Len(d) PROVE d[k].region \subseteq gone
    <2>1. k \in DOMAIN (d \o o) /\ (d \o o)[k] = d[k]
      BY <1>5, <1>6
    <2> QED
      BY <1>4, <2>1
  <1>8. ASSUME NEW p \in 1 .. Len(o) PROVE o[p].region \subseteq gone
    <2>1. Len(d) + p \in DOMAIN (d \o o) /\ (d \o o)[Len(d) + p] = o[p]
      BY <1>5, <1>6
    <2> QED
      BY <1>4, <2>1
  <1>9. ASSUME NEW x \in gone
        PROVE  \/ \E k \in 1 .. Len(d) : x \in d[k].region
               \/ \E p \in 1 .. Len(o) : x \in o[p].region
    <2>1. PICK k \in 1 .. Len(d) + Len(o) : x \in (d \o o)[k].region
      BY <1>4, <1>6
    <2>2. CASE k \in 1 .. Len(d)
      BY <1>5, <2>1, <2>2
    <2>3. CASE k \notin 1 .. Len(d)
      <3>1. k - Len(d) \in 1 .. Len(o) /\ Len(d) + (k - Len(d)) = k
        BY <1>5, <2>3
      <3>2. (d \o o)[k] = o[k - Len(d)]
        BY <1>5, <3>1
      <3> QED
        BY <2>1, <3>1, <3>2
    <2> QED
      BY <2>2, <2>3
  <1>10. Judged(Len(part), last, gone, last.strays, keepSafe)
    <2>1. \A x \in gone : Lost(x, last, gone)
      BY <1>8, <1>9 DEF Lost, d, o
    <2> QED
      BY <1>7, <1>8, <2>1 DEF Judged, d, o
  <1>11. Kept(last, gone) = {}
    BY <1>8 DEF Kept, o
  <1> QED
    BY <1>2, <1>10, <1>11 DEF gone

LEMMA WayIsJudged ==
  ASSUME NEW part \in Seq(Pieces), OneRunEach(part), NEW keepSafe
  PROVE  LET strip == Strips(part, keepSafe)
             strays == Stripping(part, keepSafe).strays
             gone == GoneFrom(part, keepSafe)
         IN /\ \A i \in 0 .. Len(part) : Judged(i, strip[i], gone, strays, keepSafe)
            /\ \A i \in 1 .. Len(part) :
                 part[i].e # "simple" => Passing(i, strip[i - 1], strip[i], gone, strays, keepSafe)
  <1> DEFINE strip == Strips(part, keepSafe)
             strays == Stripping(part, keepSafe).strays
             gone == GoneFrom(part, keepSafe)
             S == {i \in 0 .. Len(part) : Judged(i, strip[i], gone, strays, keepSafe)}
  <1>1. Len(part) \in Nat
    OBVIOUS
  <1>2. Judged(Len(part), strip[Len(part)], gone, strays, keepSafe)
    BY EndIsJudged
  <1>3. /\ \A i \in 0 .. Len(part) : strip[i] \in StripStates /\ Stacked(i, strip[i])
        /\ \A i \in 1 .. Len(part) :
             /\ StripSteps(part, i, strip[i - 1], strip[i], keepSafe)
             /\ \/ part[i].e = "simple" /\ strip[i] = strip[i - 1]
                \/ Moves(i, strip[i - 1], strip[i], keepSafe)
    BY WayIsStacked
  <1> HIDE DEF strip, strays, gone
  <1>4. Len(part) \in S
    BY <1>1, <1>2
  <1>5. ASSUME NEW i \in 1 .. Len(part)
        PROVE  /\ i \in Nat \ {0} /\ i - 1 \in 0 .. Len(part) /\ i \in 0 .. Len(part)
               /\ strip[i - 1] \in StripStates /\ strip[i] \in StripStates
               /\ Stacked(i - 1, strip[i - 1]) /\ Stacked(i, strip[i])
    BY <1>1, <1>3
  <1>6. ASSUME NEW i \in 1 .. Len(part), i \in S PROVE i - 1 \in S
    <2>1. Judged(i, strip[i], gone, strays, keepSafe)
      BY <1>6
    <2>2. CASE strip[i] = strip[i - 1]
      <3>1. 1 .. i - 1 \subseteq 1 .. i
        BY <1>5
      <3>2. Judged(i - 1, strip[i - 1], gone, strays, keepSafe)
        BY <2>1, <2>2, <3>1 DEF Judged
      <3> QED
        BY <1>5, <3>2
    <2>3. CASE Moves(i, strip[i - 1], strip[i], keepSafe)
      <3>1. Judged(i - 1, strip[i - 1], gone, strays, keepSafe)
        BY <1>5, <2>1, <2>3, JudgedBefore
      <3> QED
        BY <1>5, <3>1
    <2> QED
      BY <1>3, <2>2, <2>3
  <1>7. \A i \in 0 .. Len(part) : i \in S
    <2> HIDE DEF S
    <2> QED
      BY <1>1, <1>4, <1>6, PlaceDescent
  <1>8. ASSUME NEW i \in 1 .. Len(part), part[i].e # "simple"
        PROVE  Passing(i, strip[i - 1], strip[i], gone, strays, keepSafe)
    <2>1. Moves(i, strip[i - 1], strip[i], keepSafe)
      BY <1>3, <1>8
    <2>2. /\ Judged(i - 1, strip[i - 1], gone, strays, keepSafe)
          /\ Judged(i, strip[i], gone, strays, keepSafe)
      BY <1>5, <1>7
    <2> QED
      BY <1>5, <2>1, <2>2 DEF Passing
  <1> QED
    BY <1>7, <1>8 DEF strip, strays, gone

LEMMA RemainingIs ==
  ASSUME NEW part \in Seq(Pieces), OneRunEach(part), NEW keepSafe, NEW i \in 1 .. Len(part)
  PROVE  i \in Remaining(part, keepSafe) <=>
           StaysAt(part, i, GoneFrom(part, keepSafe), Stripping(part, keepSafe).strays, keepSafe)
  <1>1. i \in DOMAIN part /\ RunOf(part, i) = i
    <2>1. ~part[i].joined
      BY DEF OneRunEach
    <2> QED
      BY <2>1, RunIs
  <1> QED
    BY <1>1 DEF Remaining, Spared, StaysAt, GoneFrom

(* What is found in what remains: nothing that may not stay, and nothing open. *)
LEMMA RestIsSafe ==
  ASSUME NEW part \in Seq(Pieces), OneRunEach(part), NEW keepSafe
  PROVE  LET rest == Picked(part, Remaining(part, keepSafe))
         IN /\ rest \in Seq(Pieces) /\ Scanned(rest) \in ScanStates
            /\ Scanned(rest).open = <<>> /\ AllSafe(Scanned(rest).found, keepSafe)
  <1> DEFINE n == Len(part)
             remaining == Remaining(part, keepSafe)
             strip == Strips(part, keepSafe)
             strays == Stripping(part, keepSafe).strays
             gone == GoneFrom(part, keepSafe)
  <1>1. n \in Nat /\ \A i \in 1 .. n : part[i] \in Pieces
    OBVIOUS
  <1>2. \A i \in 1 .. n : i \in remaining <=> StaysAt(part, i, gone, strays, keepSafe)
    BY RemainingIs
  <1>3. /\ \A i \in 1 .. n : StripSteps(part, i, strip[i - 1], strip[i], keepSafe)
        /\ \A i \in 1 .. n :
             part[i].e # "simple" => Passing(i, strip[i - 1], strip[i], gone, strays, keepSafe)
    BY WayIsStacked, WayIsJudged
  <1>4. strip[0] = StripStart /\ Kept(strip[n], gone) = {}
    BY <1>1, StripsAre, EndIsJudged
  <1>5. PICK g : IsPicked(part, remaining, n, g) /\ Picked(part, remaining) = g[n]
    BY <1>1, PickedIs
  <1> HIDE DEF n, remaining, strip, strays, gone
  <1>6. g[0] = <<>> /\ \A i \in 1 .. n : g[i] = PickedNext(part, remaining, g[i - 1], i)
    BY <1>1, <1>5 DEF IsPicked
  <1> DEFINE Good(i) == /\ g[i] \in Seq(Pieces) /\ Scanned(g[i]) \in ScanStates
                        /\ Follows(Scanned(g[i]), strip[i], gone)
                        /\ AllSafe(Scanned(g[i]).found, keepSafe)
             S == {i \in 0 .. n : Good(i)}
  <1>7. 0 \in S
    <2>1. Scanned(<<>>) = ScanStart
      <3>1. Len(<<>>) = 0
        OBVIOUS
      <3> QED
        BY <3>1, ScansAre DEF Scanned
    <2>2. ScanStart \in ScanStates /\ ScanStart.open = <<>> /\ ScanStart.found = <<>>
      BY DEF ScanStart, ScanStates
    <2>3. Kept(strip[0], gone) = {}
      BY <1>4 DEF Kept, StripStart
    <2> DEFINE none == [j \in 1 .. 0 |-> 0]
    <2>4. Placed(<<>>, strip[0].open, {}, none)
      <3>1. 1 .. Len(<<>>) = {}
        OBVIOUS
      <3> QED
        BY <3>1 DEF Placed
    <2>5. Follows(ScanStart, strip[0], gone)
      BY <2>2, <2>3, <2>4 DEF Follows
    <2>6. AllSafe(<<>>, keepSafe)
      BY DEF AllSafe
    <2>7. <<>> \in Seq(Pieces)
      OBVIOUS
    <2>8. g[0] = <<>> /\ 0 \in 0 .. n
      BY <1>1, <1>6
    <2>9. Follows(Scanned(g[0]), strip[0], gone)
      BY <2>1, <2>5, <2>8
    <2>10. AllSafe(Scanned(g[0]).found, keepSafe)
      BY <2>1, <2>2, <2>6, <2>8
    <2>11. g[0] \in Seq(Pieces) /\ Scanned(g[0]) \in ScanStates
      BY <2>1, <2>2, <2>7, <2>8
    <2> QED
      BY <2>8, <2>9, <2>10, <2>11
  <1>8. ASSUME NEW i \in 0 .. n - 1, i \in S PROVE i + 1 \in S
    <2> DEFINE next == i + 1
               q == g[i]
               scan == Scanned(q)
               el == part[next]
    <2>1. next \in 1 .. n /\ next - 1 = i /\ next \in 0 .. n
      BY <1>1
    <2>2. q \in Seq(Pieces) /\ scan \in ScanStates /\ AllSafe(scan.found, keepSafe)
      BY <1>8
    <2>3. Follows(scan, strip[next - 1], gone)
      BY <1>8, <2>1
    <2>4. el \in Pieces /\ next \in 1 .. Len(part)
      BY <1>1, <2>1 DEF n
    <2>5. /\ StripSteps(part, next, strip[next - 1], strip[next], keepSafe)
          /\ el.e # "simple" =>
               Passing(next, strip[next - 1], strip[next], gone, strays, keepSafe)
      BY <1>3, <2>1
    <2> DEFINE seen == IF StaysAt(part, next, gone, strays, keepSafe) THEN ScanElement(scan, el)
                       ELSE scan
    <2>6. g[next] = PickedNext(part, remaining, q, next)
      BY <1>6, <2>1
    <2>7. next \in remaining <=> StaysAt(part, next, gone, strays, keepSafe)
      BY <1>2, <2>1
    <2>8. /\ seen \in ScanStates /\ Follows(seen, strip[next], gone)
          /\ AllSafe(seen.found, keepSafe)
      <3> HIDE DEF next, scan
      <3> QED
        BY <2>2, <2>3, <2>4, <2>5, RestFollows
    <2>9. g[next] \in Seq(Pieces) /\ Scanned(g[next]) = seen
      <3> HIDE DEF next, q
      <3>1. CASE next \in remaining
        <4>1. g[next] = Append(q, el)
          BY <2>6, <3>1 DEF PickedNext
        <4>2. Scanned(Append(q, el)) = ScanElement(scan, el)
          BY <2>2, <2>4, Scanning
        <4>3. Append(q, el) \in Seq(Pieces)
          BY <2>2, <2>4
        <4> QED
          BY <2>7, <3>1, <4>1, <4>2, <4>3
      <3>2. CASE next \notin remaining
        <4>1. g[next] = q
          BY <2>6, <3>2 DEF PickedNext
        <4> QED
          BY <2>2, <2>7, <3>2, <4>1
      <3> QED
        BY <3>1, <3>2
    <2> HIDE DEF seen
    <2>10. Good(next)
      BY <2>8, <2>9
    <2> QED
      BY <2>1, <2>10
  <1>9. \A i \in 0 .. n : i \in S
    <2> HIDE DEF S
    <2> QED
      BY <1>1, <1>7, <1>8, PlaceInduction
  <1>10. Good(n)
    BY <1>1, <1>9
  <1>11. Scanned(g[n]).open = <<>>
    <2>1. PICK at : Placed(Scanned(g[n]).open, strip[n].open, {}, at)
      BY <1>4, <1>10 DEF Follows
    <2>2. Scanned(g[n]).open \in Seq(Fields)
      BY <1>10, ScanStateIs
    <2>3. \A j \in 1 .. Len(Scanned(g[n]).open) : at[j] \in {}
      BY <2>1 DEF Placed
    <2>4. Len(Scanned(g[n]).open) = 0
      BY <2>2, <2>3
    <2> QED
      BY <2>2, <2>4, EmptySeq
  <1> QED
    BY <1>5, <1>10, <1>11 DEF remaining

LEMMA StripIsSafe ==
  ASSUME NEW part \in Seq(Pieces), OneRunEach(part), NEW keepSafe
  PROVE  /\ ScanFields(StripFields(part, keepSafe)) \subseteq {"safe"}
         /\ KeepsNone(keepSafe) => ScanFields(StripFields(part, keepSafe)) = {}
  <1> DEFINE rest == Picked(part, Remaining(part, keepSafe))
             scan == Scanned(rest)
  <1>1. StripFields(part, keepSafe) = rest
    BY StripPicks
  <1>2. /\ rest \in Seq(Pieces) /\ scan \in ScanStates
        /\ scan.open = <<>> /\ AllSafe(scan.found, keepSafe)
    BY RestIsSafe
  <1> HIDE DEF rest
  <1>3. FieldsFound(rest) = scan.found
    <2> DEFINE more == [i \in DOMAIN scan.open |-> ClassOf(scan.open[i])]
    <2>1. scan.found \in Seq(Classes)
      BY <1>2, ScanStateIs
    <2>2. FieldsFound(rest) = scan.found \o more
      BY DEF FieldsFound
    <2>3. more = <<>>
      <3>1. DOMAIN scan.open = {}
        BY <1>2
      <3> HIDE DEF scan
      <3> QED
        BY <3>1
    <2>4. scan.found \o <<>> = scan.found
      BY <2>1
    <2> HIDE DEF scan, more
    <2> QED
      BY <2>2, <2>3, <2>4
  <1>4. scan.found \in Seq(Classes)
    BY <1>2, ScanStateIs
  <1>5. ScanFields(rest) = {scan.found[k] : k \in DOMAIN scan.found}
    BY <1>3 DEF ScanFields, ToSet
  <1> HIDE DEF scan
  <1>6. DOMAIN scan.found = 1 .. Len(scan.found)
    BY <1>4
  <1>7. ScanFields(rest) \subseteq {"safe"}
    BY <1>2, <1>5, <1>6 DEF AllSafe
  <1>8. ASSUME KeepsNone(keepSafe) PROVE ScanFields(rest) = {}
    <2>1. \A k \in DOMAIN scan.found : FALSE
      <3>1. ~KeepsSafe(keepSafe)
        BY <1>8, Zenon DEF KeepsNone, KeepsSafe
      <3> QED
        BY <1>2, <1>6, <3>1 DEF AllSafe
    <2> QED
      BY <1>5, <2>1
  <1> QED
    BY <1>1, <1>7, <1>8, Zenon

-----------------------------------------------------------------------------
(* The text of a part that is stripped is what was seen of it. *)

LEMMA SeenIsWhatStays ==
  ASSUME NEW part \in Seq(Pieces), OneRunEach(part), NEW keepSafe, KeepsNone(keepSafe),
         NEW i \in 1 .. Len(part), part[i].e = "text"
  PROVE  i \in Seen(part) <=> i \in Remaining(part, keepSafe)
  <1> DEFINE strip == Strips(part, keepSafe)
             strays == Stripping(part, keepSafe).strays
             gone == GoneFrom(part, keepSafe)
             s == strip[i - 1]
             t == strip[i]
             open == Scans(part)[i].open
  <1>1. i \in Nat \ {0} /\ i \in 0 .. Len(part) /\ i - 1 \in 0 .. Len(part) /\ i \in DOMAIN part
    OBVIOUS
  <1>2. part[i].e # "simple"
    OBVIOUS
  <1>3. /\ StripSteps(part, i, s, t, keepSafe)
        /\ Passing(i, s, t, gone, strays, keepSafe)
    BY <1>2, WayIsStacked, WayIsJudged
  <1>4. /\ open \in Seq(Fields) /\ Alike(open, t.open) /\ t.open \in Seq(Fields)
        /\ s.open \in Seq(Fields)
    BY <1>1, PassesAreAlike, ScanStateIs, StripStateIs
  <1>5. i \in Remaining(part, keepSafe) <=> i \notin gone /\ i \notin strays
    BY <1>2, RemainingIs DEF StaysAt
  <1>6. i \in Seen(part) <=> \A f \in Range(open) : f.result
    BY <1>1 DEF Seen
  <1> HIDE DEF strip, strays, gone, s, t, open
  <1>7. IdleStep(i, s, t, FALSE)
    BY <1>3 DEF StripSteps
  <1>8. /\ Stacked(i - 1, s) /\ Judged(i, t, gone, strays, keepSafe)
        /\ s \in StripStates /\ t \in StripStates
    BY <1>3 DEF Passing
  <1>9. /\ Len(t.open) = Len(s.open) /\ t.doomed = s.doomed /\ t.strays = s.strays
        /\ \A p \in 1 .. Len(s.open) : t.open[p] = Touched(s.open[p], i)
    BY <1>7 DEF IdleStep
  <1>10. i \notin strays
    <2>1. i \notin t.strays /\ i \in 1 .. i
      BY <1>1, <1>8, <1>9 DEF Stacked
    <2> QED
      BY <1>8, <2>1 DEF Judged
  <1>11. ASSUME NEW p \in 1 .. Len(s.open)
         PROVE  /\ t.open[p].result = s.open[p].result
                /\ s.open[p].result => i \notin t.open[p].region
                /\ ~s.open[p].result => i \in t.open[p].region
    <2>1. s.open[p] \in Fields /\ t.open[p] = Touched(s.open[p], i) /\ i \in Nat
      BY <1>1, <1>4, <1>9
    <2>2. i \notin s.open[p].region
      BY <1>1, <1>8 DEF Stacked
    <2> DEFINE f == s.open[p]
               f1 == t.open[p]
    <2>3. f \in Fields /\ f1 = Touched(f, i) /\ i \in Nat /\ i \notin f.region
      BY <2>1, <2>2
    <2> HIDE DEF f, f1
    <2>4. /\ f1.result = f.result
          /\ f.result => f1.region = f.region
          /\ ~f.result => f1.region = f.region \cup {i}
      BY <2>3, TouchedIs
    <2>5. f.result => i \notin f1.region
      BY <2>3, <2>4
    <2>6. ~f.result => i \in f1.region
      BY <2>4
    <2> QED
      BY <2>4, <2>5, <2>6 DEF f, f1
  <1>12. ASSUME NEW p \in 1 .. Len(t.open) PROVE t.open[p].region \subseteq gone
    <2>1. ~KeepsSafe(keepSafe)
      BY Zenon DEF KeepsNone, KeepsSafe
    <2> QED
      BY <1>8, <2>1 DEF Judged
  <1>13. i \in gone <=> \E p \in 1 .. Len(t.open) : ~t.open[p].result
    <2>1. ASSUME NEW p \in 1 .. Len(t.open), ~t.open[p].result PROVE i \in gone
      BY <1>9, <1>11, <1>12, <2>1
    <2>2. ASSUME i \in gone PROVE \E p \in 1 .. Len(t.open) : ~t.open[p].result
      <3>1. Lost(i, t, gone)
        BY <1>1, <1>8, <2>2 DEF Judged
      <3>2. \A k \in 1 .. Len(t.doomed) : i \notin t.doomed[k].region
        BY <1>1, <1>8, <1>9 DEF Stacked
      <3>3. PICK p \in 1 .. Len(t.open) : i \in t.open[p].region
        BY <3>1, <3>2 DEF Lost
      <3> QED
        BY <1>9, <1>11, <3>3
    <2> QED
      BY <2>1, <2>2
  <1>14. (\A f \in Range(open) : f.result) <=> \A p \in 1 .. Len(t.open) : t.open[p].result
    <2>1. Len(open) = Len(t.open) /\ \A p \in 1 .. Len(open) : open[p].result = t.open[p].result
      BY <1>4 DEF Alike, SameField
    <2>2. Range(open) = {open[p] : p \in 1 .. Len(open)}
      BY <1>4, SMTT(30) DEF Range
    <2> QED
      BY <2>1, <2>2
  <1> QED
    BY <1>5, <1>6, <1>10, <1>13, <1>14

(* The text of what is picked is picked from the text. *)
LEMMA TextIsPicked ==
  ASSUME NEW part \in Seq(Pieces), NEW remaining, NEW places,
         \A i \in 1 .. Len(part) :
           i \in places <=> i \in remaining /\ part[i].e = "text"
  PROVE  TextOf(Picked(part, remaining)) = Picked(part, places)
  <1> DEFINE n == Len(part)
  <1>1. n \in Nat /\ \A i \in 1 .. n : part[i] \in Pieces
    OBVIOUS
  <1>2. PICK g : IsPicked(part, remaining, n, g) /\ Picked(part, remaining) = g[n]
    BY <1>1, PickedIs
  <1>3. PICK h : IsPicked(part, places, n, h) /\ Picked(part, places) = h[n]
    BY <1>1, PickedIs
  <1> HIDE DEF n
  <1>4. g[0] = <<>> /\ \A i \in 1 .. n : g[i] = PickedNext(part, remaining, g[i - 1], i)
    BY <1>1, <1>2 DEF IsPicked
  <1>5. h[0] = <<>> /\ \A i \in 1 .. n : h[i] = PickedNext(part, places, h[i - 1], i)
    BY <1>1, <1>3 DEF IsPicked
  <1> DEFINE S == {i \in 0 .. n : g[i] \in Seq(Pieces) /\ TextOf(g[i]) = h[i]}
  <1>6. 0 \in S
    <2>1. Len(<<>>) = 0 /\ <<>> \in Seq(Pieces)
      OBVIOUS
    <2> DEFINE texts == {i \in DOMAIN <<>> : <<>>[i].e = "text"}
    <2>2. PICK k : IsPicked(<<>>, texts, 0, k) /\ Picked(<<>>, texts) = k[0]
      <3> HIDE DEF texts
      <3> QED
        BY <2>1, PickedIs
    <2>3. k[0] = <<>>
      BY <2>2 DEF IsPicked
    <2>4. TextOf(<<>>) = <<>>
      BY <2>2, <2>3 DEF TextOf
    <2>5. g[0] = <<>> /\ h[0] = <<>> /\ 0 \in 0 .. n
      BY <1>1, <1>4, <1>5
    <2>6. TextOf(g[0]) = h[0] /\ g[0] \in Seq(Pieces)
      BY <2>1, <2>4, <2>5
    <2> QED
      BY <2>5, <2>6
  <1>7. ASSUME NEW i \in 0 .. n - 1, i \in S PROVE i + 1 \in S
    <2> DEFINE next == i + 1
               q == g[i]
               el == part[next]
               more == Append(q, el)
    <2>1. next \in 1 .. n /\ next - 1 = i /\ next \in 0 .. n
      BY <1>1
    <2>2. q \in Seq(Pieces) /\ TextOf(q) = h[i] /\ el \in Pieces
      BY <1>1, <1>7, <2>1
    <2>3. /\ g[next] = PickedNext(part, remaining, q, next)
          /\ h[next] = PickedNext(part, places, h[i], next)
      BY <1>4, <1>5, <2>1
    <2>4. next \in places <=> next \in remaining /\ el.e = "text"
      BY <2>1 DEF n
    <2> HIDE DEF next, q, el
    <2>5. CASE next \in remaining
      <3>1. g[next] = more
        BY <2>3, <2>5 DEF PickedNext, el
      <3> DEFINE before == {j \in DOMAIN q : q[j].e = "text"}
                 after == {j \in DOMAIN more : more[j].e = "text"}
      <3>2. /\ more \in Seq(Pieces) /\ Len(q) \in Nat /\ Len(more) = Len(q) + 1
            /\ more[Len(q) + 1] = el /\ \A j \in 1 .. Len(q) : more[j] = q[j]
            /\ DOMAIN more = 1 .. Len(q) + 1 /\ DOMAIN q = 1 .. Len(q)
        BY <2>2
      <3> HIDE DEF more
      <3>3. \A j \in 1 .. Len(q) : j \in before <=> j \in after
        BY <3>2
      <3>4. Len(q) + 1 \in after <=> el.e = "text"
        BY <3>2
      <3> HIDE DEF before, after
      <3>5. Picked(more, after) = IF Len(q) + 1 \in after THEN Append(Picked(q, before), el)
                                  ELSE Picked(q, before)
        BY <2>2, <3>3, Picking DEF more
      <3>6. TextOf(more) = Picked(more, after) /\ TextOf(q) = Picked(q, before)
        BY DEF TextOf, before, after
      <3>7. h[next] = IF el.e = "text" THEN Append(h[i], el) ELSE h[i]
        BY <2>3, <2>4, <2>5 DEF PickedNext, el
      <3>8. TextOf(g[next]) = h[next]
        BY <2>2, <3>1, <3>4, <3>5, <3>6, <3>7
      <3> QED
        BY <2>1, <3>1, <3>2, <3>8 DEF next
    <2>6. CASE next \notin remaining
      <3>1. g[next] = q /\ h[next] = h[i]
        BY <2>3, <2>4, <2>6 DEF PickedNext
      <3> QED
        BY <2>1, <2>2, <3>1 DEF next
    <2> QED
      BY <2>5, <2>6
  <1>8. \A i \in 0 .. n : i \in S
    <2> HIDE DEF S
    <2> QED
      BY <1>1, <1>6, <1>7, PlaceInduction
  <1>9. n \in S
    BY <1>1, <1>8
  <1> QED
    BY <1>2, <1>3, <1>9

LEMMA TextIsSeen ==
  ASSUME NEW part \in Seq(Pieces), OneRunEach(part), NEW keepSafe, KeepsNone(keepSafe)
  PROVE  TextOf(StripFields(part, keepSafe)) = Picked(part, Seen(part))
  <1> DEFINE remaining == Remaining(part, keepSafe)
             places == Seen(part)
  <1>1. ASSUME NEW i \in 1 .. Len(part)
        PROVE  i \in places <=> i \in remaining /\ part[i].e = "text"
    <2>1. i \in places => part[i].e = "text"
      BY DEF Seen
    <2>2. part[i].e = "text" => (i \in places <=> i \in remaining)
      BY SeenIsWhatStays
    <2> QED
      BY <2>1, <2>2
  <1>2. StripFields(part, keepSafe) = Picked(part, remaining)
    BY StripPicks
  <1> HIDE DEF remaining, places
  <1>3. TextOf(Picked(part, remaining)) = Picked(part, places)
    BY <1>1, TextIsPicked
  <1> QED
    BY <1>2, <1>3 DEF places

LEMMA StripAlways ==
  ASSUME NEW part \in Seq(Pieces), OneRunEach(part)
  PROVE  /\ ScanFields(StripFields(part, TRUE)) \subseteq {"safe"}
         /\ ScanFields(StripFields(part, FALSE)) = {}
         /\ TextOf(StripFields(part, FALSE)) = Picked(part, Seen(part))
  <1>1. KeepsNone(FALSE)
    BY DEF KeepsNone
  <1> QED
    BY <1>1, StripIsSafe, TextIsSeen, Zenon

(* Whatever order the elements of fields stand in: where each is a run of its own,
   only fields of the allowed list are found in what strip_fields leaves, and none
   with the list empty; what is left of the text is what the reader saw; and the
   pass that reports finds as many fields as the one that removes. *)
THEOREM FieldsAreGone == StorySpec => []FieldsAreStripped
  <1>1. story \in Seq(Pieces) => FieldsAreStripped
    BY StripAlways, AgreeAlways
    DEF FieldsAreStripped, StripLeavesOnlySafe, BothPassesAgree, TextIsWhatWasSeen
  <1> QED
    BY <1>1, StoryIsPart, PTL

-----------------------------------------------------------------------------
(* What everybody has is delivered: of a file of which the stages report   *)
(* nothing but notices, the sanitizer writes a new one, and its check has  *)
(* no problem with it.                                                     *)

LEMMA NoticesAre ==
  /\ {"PDF_ENCRYPTED", "PDF_MALFORMED", "PDF_JS", "PDF_XFA", "PDF_JAVASCRIPT", "PDF_LAUNCH",
      "PDF_EMBEDDED_FILE", "PDF_RICHMEDIA"} \cap Notices = {}
  /\ {"IMG_MALFORMED", "TYPE_UNKNOWN", "TYPE_UNSUPPORTED"} \cap Notices = {}
  /\ {"ARCHIVE_BOMB", "ARCHIVE_ENCRYPTED", "ARCHIVE_INCOMPLETE", "DOCX_DTD", "DOCX_MALFORMED"}
       \cap Notices = {}
  BY DEF Notices

(* The bytes of a stream's dictionary show in the new file what they showed in the
   old one; the keys of the graph that would be found are gone or were reported. *)
LEMMA OrdinaryPdf ==
  ASSUME NEW pdf \in PdfDocuments, KeysFit(pdf), PdfCodes(pdf) \subseteq Notices,
         "annot" \notin pdf.odd,
         \A x \in pdf.graph : ~(x.at = "field" /\ x.key = "AA" /\ x.does \in SuspiciousActions)
  PROVE  /\ pdf.draws /\ ~PdfRebuildFails(pdf)
         /\ PdfProblems(Drawn(pdf)) = {}
         /\ \A prof : PdfProblems(RebuiltPdf(pdf, prof)) = {}
  <1>1. pdf.opens \in {"yes", "owner", "password", "broken"}
    BY DEF PdfDocuments
  <1>2. pdf.opens # "password" /\ pdf.opens # "broken"
    <2>1. pdf.opens = "password" => "PDF_ENCRYPTED" \in PdfCodes(pdf)
      BY DEF PdfCodes
    <2>2. pdf.opens = "broken" => "PDF_MALFORMED" \in PdfCodes(pdf)
      BY DEF PdfCodes, MalformedCodes
    <2> QED
      BY <2>1, <2>2, NoticesAre
  <1>3. GraphCodes(pdf) \subseteq Notices /\ ByteCodes(pdf) \subseteq Notices
    <2>1. pdf.opens = "yes" \/ pdf.opens = "owner"
      BY <1>1, <1>2
    <2>2. GraphCodes(pdf) \subseteq PdfCodes(pdf)
      BY <2>1 DEF PdfCodes, ParsedCodes
    <2>3. ByteCodes(pdf) \subseteq PdfCodes(pdf)
      BY DEF PdfCodes
    <2> QED
      BY <2>2, <2>3
  <1>4. pdf.draws /\ ~PdfRebuildFails(pdf)
    BY <1>1, <1>2 DEF KeysFit, PdfRebuildFails
  <1>5. VisibleNames(pdf) \cap ByteMarkers = {}
    <2>1. ASSUME NEW n \in VisibleNames(pdf), n \in ByteMarkers PROVE FALSE
      <3>1. n \in DOMAIN PdfMarkers
            /\ PdfMarkers[n] \in {"PDF_JAVASCRIPT", "PDF_LAUNCH", "PDF_EMBEDDED_FILE",
                                  "PDF_RICHMEDIA"}
        BY <2>1 DEF ByteMarkers, PdfMarkers
      <3>2. PdfMarkers[n] \in ByteCodes(pdf)
        BY <2>1, <3>1 DEF ByteCodes
      <3> QED
        BY <1>3, <3>1, <3>2, NoticesAre
    <2> QED
      BY <2>1
  <1>6. ASSUME NEW x \in pdf.graph PROVE x.key \notin DOMAIN ShortKeys
    <2>1. SUFFICES ASSUME x.key \in DOMAIN ShortKeys PROVE FALSE
      OBVIOUS
    <2>2. ShortKeys[x.key] \in GraphCodes(pdf)
      BY <2>1 DEF GraphCodes
    <2>3. ShortKeys[x.key] \in {"PDF_JS", "PDF_XFA"}
      BY <2>1 DEF ShortKeys
    <2> QED
      BY <1>3, <2>2, <2>3, NoticesAre
  <1>7. PdfProblems(Drawn(pdf)) = {}
    <2> DEFINE e == Drawn(pdf)
    <2>1. e.graph = {} /\ ~e.packed
      BY DEF Drawn, EmptyPdf
    <2> HIDE DEF e
    <2>2. VisibleNames(e) = {}
      BY <2>1 DEF VisibleNames, NamesOf
    <2>3. PdfProblems(e) = {}
      BY <2>1, <2>2 DEF PdfProblems
    <2> QED
      BY <2>3 DEF e
  <1>8. ASSUME NEW prof PROVE PdfProblems(RebuiltPdf(pdf, prof)) = {}
    <2> DEFINE e == RebuiltPdf(pdf, prof)
    <2>1. e.graph = {x \in pdf.graph : ~Dropped(x)} /\ e.packed = TRUE
      BY DEF RebuiltPdf, Written, PdfDocuments
    <2> HIDE DEF e
    <2>2. VisibleNames(e) \cap ByteMarkers = {}
      <3>1. VisibleNames(e) = {"ObjStm"} \cup NamesOf({x \in e.graph : x.at = "stream"})
        BY <2>1 DEF VisibleNames
      <3>2. NamesOf({x \in e.graph : x.at = "stream"}) \subseteq VisibleNames(pdf)
        BY <2>1 DEF VisibleNames, NamesOf
      <3> QED
        BY <1>5, <3>1, <3>2 DEF ByteMarkers
    <2>3. {x \in e.graph : x.key \in DOMAIN ShortKeys} = {}
      BY <1>6, <2>1
    <2>4. {x \in e.graph : x.key \in ActionHolders /\ x.does \in SuspiciousActions} = {}
      <3>1. ASSUME NEW x \in e.graph
            PROVE  x.key # "OpenAction" /\ (x.key = "AA" => x.does \notin SuspiciousActions)
        <4>1. /\ x \in pdf.graph /\ ~Dropped(x)
              /\ x.key = "OpenAction" => x.at = "root"
              /\ x.key = "AA" => x.at \in {"root", "page", "annot", "form", "field"}
          BY <2>1, <3>1 DEF KeysFit
        <4>2. x.key # "OpenAction" /\ (x.key = "AA" => x.at = "field")
          BY <4>1 DEF Dropped, RootKeysToDrop, PageKeysToDrop
        <4> QED
          BY <4>1, <4>2
      <3> QED
        BY <3>1 DEF ActionHolders
    <2>5. PdfProblems(e) = {}
      BY <2>2, <2>3, <2>4 DEF PdfProblems
    <2> QED
      BY <2>5 DEF e
  <1> QED
    BY <1>4, <1>7, <1>8

LEMMA OrdinaryImage ==
  ASSUME NEW file, Sniff(file) \in ImageTypes, file.body \in Pictures,
         ImageCodes(file.body) \subseteq Notices, file.body.whole, NEW prof
  PROVE  \E new : RebuiltImage(file, prof) = {new} /\ ProblemsAlone(new) = {}
  <1> DEFINE type == OutputFor(Sniff(file), prof)
             body == [CleanImage EXCEPT !.pixels = file.body.pixels, !.dense = file.body.dense]
             new == File(type, body)
  <1>1. Loads(file.body)
    BY NoticesAre DEF ImageCodes, Loads
  <1>2. {f \in {file} : Loads(f.body)} = {file}
    BY <1>1
  <1>3. RebuiltImage(file, prof) = {new}
    BY <1>2 DEF RebuiltImage
  <1>4. body.exif = FALSE /\ body.icc = FALSE
    BY DEF CleanImage
  <1>5. type \in WrittenTypes /\ type \in ImageTypes
    BY DEF OutputFor, WrittenTypes, ImageTypes
  <1>6. new.tail = "none"
    BY DEF File
  <1> HIDE DEF type, body
  <1>7. Sniff(new) = type /\ new.body = body
    BY <1>5, WrittenSniff
  <1> HIDE DEF new
  <1>8. ImageProblems(new) = {}
    BY <1>4, <1>6, <1>7 DEF ImageProblems
  <1>9. ProblemsAlone(new) = {}
    <2>1. "pdf" \notin ImageTypes /\ "pdf" \notin DocxTypes /\ ImageTypes \cap DocxTypes = {}
      BY DEF ImageTypes, DocxTypes
    <2> QED
      BY <1>5, <1>7, <1>8, <2>1 DEF ProblemsAlone
  <1> QED
    BY <1>3, <1>9

(* What is picked from a part is of the kind that is picked. *)
LEMMA PickedFrom ==
  ASSUME NEW part, Len(part) \in Nat, NEW places, NEW Kind,
         \A i \in 1 .. Len(part) : i \in places => part[i] \in Kind
  PROVE  Picked(part, places) \in Seq(Kind)
  <1> DEFINE n == Len(part)
  <1>1. PICK g : IsPicked(part, places, n, g) /\ Picked(part, places) = g[n]
    BY PickedIs
  <1>2. g[0] = <<>> /\ \A i \in 1 .. n : g[i] = PickedNext(part, places, g[i - 1], i)
    BY <1>1 DEF IsPicked
  <1> HIDE DEF n
  <1>3. n \in Nat
    BY DEF n
  <1> DEFINE S == {i \in 0 .. n : g[i] \in Seq(Kind)}
  <1>4. 0 \in S
    <2>1. 0 \in 0 .. n
      BY <1>3
    <2>2. << >> \in Seq(Kind)
      BY EmptySeq
    <2>3. g[0] \in Seq(Kind)
      BY <1>2, <2>2
    <2> QED
      BY <2>1, <2>3
  <1>5. ASSUME NEW i \in 0 .. n - 1, i \in S PROVE i + 1 \in S
    <2>1. i + 1 \in 1 .. n /\ (i + 1) - 1 = i /\ i + 1 \in 0 .. n
      BY <1>3
    <2>2. g[i + 1] = PickedNext(part, places, g[i], i + 1)
      BY <1>2, <2>1
    <2>3. i + 1 \in places => part[i + 1] \in Kind
      BY <2>1 DEF n
    <2>4. g[i + 1] \in Seq(Kind)
      BY <1>5, <2>2, <2>3 DEF PickedNext
    <2> QED
      BY <2>1, <2>4
  <1>6. \A i \in 0 .. n : i \in S
    <2> HIDE DEF S
    <2> QED
      BY <1>3, <1>4, <1>5, PlaceInduction
  <1>7. n \in S
    BY <1>3, <1>6
  <1> QED
    BY <1>1, <1>7

Texts == {x \in Pieces : x.e = "text"}

LEMMA TextHasNoFields ==
  ASSUME NEW part \in Seq(Texts)
  PROVE  ScanFields(part) = {}
  <1> DEFINE n == Len(part)
             scans == Scans(part)
  <1>1. n \in Nat /\ \A i \in 1 .. n : part[i].e = "text"
    BY DEF Texts
  <1>2. /\ scans[0] = ScanStart
        /\ \A i \in 1 .. n : scans[i] = ScanElement(scans[i - 1], part[i])
    BY <1>1, ScansAre
  <1>3. ASSUME NEW scan, NEW el, el.e = "text" PROVE ScanElement(scan, el) = scan
    BY <1>3 DEF ScanElement
  <1> HIDE DEF n, scans
  <1> DEFINE S == {i \in 0 .. n : scans[i] = ScanStart}
  <1>4. 0 \in S
    BY <1>1, <1>2
  <1>5. ASSUME NEW i \in 0 .. n - 1, i \in S PROVE i + 1 \in S
    <2>1. i + 1 \in 1 .. n /\ (i + 1) - 1 = i /\ i + 1 \in 0 .. n
      BY <1>1
    <2>2. scans[i + 1] = ScanElement(scans[i], part[i + 1])
      BY <1>2, <2>1
    <2>3. scans[i + 1] = ScanStart
      BY <1>1, <1>3, <1>5, <2>1, <2>2
    <2> QED
      BY <2>1, <2>3
  <1>6. \A i \in 0 .. n : i \in S
    <2> HIDE DEF S
    <2> QED
      BY <1>1, <1>4, <1>5, PlaceInduction
  <1>7. scans[n] = ScanStart
    BY <1>1, <1>6
  <1>8. Scanned(part).found = <<>> /\ Scanned(part).open = <<>>
    BY <1>7 DEF Scanned, ScanStart, n, scans
  <1>9. FieldsFound(part) = <<>>
    BY <1>8 DEF FieldsFound
  <1> QED
    BY <1>9 DEF ScanFields, ToSet

LEMMA StrictTextHasNoFields ==
  ASSUME NEW part \in Seq(Pieces), OneRunEach(part)
  PROVE  ScanFields(StrictText(part)) = {}
  <1> DEFINE stripped == StripFields(part, FALSE)
             text == TextOf(stripped)
             places == {i \in DOMAIN text : text[i].of # "deleted"}
  <1>1. stripped \in Seq(Pieces)
    <2>1. stripped = Picked(part, Remaining(part, FALSE))
      BY StripPicks
    <2>2. Len(part) \in Nat /\ \A i \in 1 .. Len(part) : part[i] \in Pieces
      OBVIOUS
    <2> HIDE DEF stripped
    <2> QED
      BY <2>1, <2>2, PickedFrom
  <1> HIDE DEF stripped
  <1>2. text \in Seq(Texts)
    <2> DEFINE chosen == {i \in DOMAIN stripped : stripped[i].e = "text"}
    <2>1. \A i \in 1 .. Len(stripped) : i \in chosen => stripped[i] \in Texts
      BY <1>1 DEF Texts
    <2>2. text = Picked(stripped, chosen)
      BY DEF TextOf
    <2>3. Len(stripped) \in Nat
      BY <1>1
    <2> HIDE DEF chosen, text
    <2> QED
      BY <2>1, <2>2, <2>3, PickedFrom
  <1> HIDE DEF text
  <1>3. Picked(text, places) \in Seq(Texts)
    <2>1. Len(text) \in Nat /\ \A i \in 1 .. Len(text) : text[i] \in Texts
      BY <1>2
    <2> HIDE DEF places
    <2> QED
      BY <2>1, PickedFrom
  <1>4. StrictText(part) = Picked(text, places)
    BY DEF StrictText, text, stripped
  <1> HIDE DEF places
  <1> QED
    BY <1>3, <1>4, TextHasNoFields

(* What a document must have so that neither way of rebuilding it gives up:
   a main part that is there, and each element of a field in a run of its own. *)
MainIsThere(pkg) == "main" \in pkg.parts
RunsAreApart(pkg) == \A p \in XmlParts : OneRunEach(pkg.story[p])

LEMMA OrdinaryIsRead ==
  ASSUME NEW pkg \in Packages, StageCodes(pkg) \subseteq Notices, pkg.place, pkg.main \in MainTypes
  PROVE  /\ ~Refuses(pkg)
         /\ \A p \in pkg.parts \cap XmlParts : Readable(pkg, p)
  <1>1. pkg.listing = {}
    <2>1. pkg.listing \subseteq DOMAIN ListingCode
      BY DEF Packages
    <2>2. ASSUME NEW x \in pkg.listing PROVE FALSE
      <3>1. ListingCode[x] \in StageCodes(pkg)
        BY DEF StageCodes
      <3>2. ListingCode[x] \in {"ARCHIVE_BOMB", "ARCHIVE_ENCRYPTED", "ARCHIVE_INCOMPLETE"}
        BY <2>1 DEF ListingCode
      <3> QED
        BY <3>1, <3>2, NoticesAre
    <2> QED
      BY <2>2
  <1>2. ASSUME NEW p \in pkg.parts \cap XmlParts PROVE Readable(pkg, p)
    <2>1. PartCodes(pkg, p) \subseteq StageCodes(pkg)
      BY <1>1 DEF StageCodes
    <2>2. p \in pkg.huge => "ARCHIVE_INCOMPLETE" \in PartCodes(pkg, p)
      BY DEF PartCodes
    <2>3. p \notin pkg.huge /\ p \in pkg.dtd => "DOCX_DTD" \in PartCodes(pkg, p)
      BY DEF PartCodes
    <2>4. p \notin pkg.huge /\ p \notin pkg.dtd /\ p \in pkg.bad
            => "DOCX_MALFORMED" \in PartCodes(pkg, p)
      BY DEF PartCodes
    <2>5. p \notin pkg.huge /\ p \notin pkg.dtd /\ p \notin pkg.bad
      BY <2>1, <2>2, <2>3, <2>4, NoticesAre
    <2> QED
      BY <2>5 DEF Readable
  <1> QED
    BY <1>1, <1>2 DEF Refuses

(* An active element that stays would have kept its relationship, and that leads
   out or to a part that was dropped. *)
LEMMA NoMarkersStay ==
  ASSUME NEW pkg \in Packages, RelationsFit(pkg), NEW prof,
         \A m \in pkg.marks : m.tag \in Markers \ AlwaysDropped => m.rel # NoRelation,
         NEW m \in CleanedMarks(pkg, Keep(pkg, prof))
  PROVE  m.tag \notin Markers
  <1> DEFINE keep == Keep(pkg, prof)
  <1>1. m \in pkg.marks /\ m.in \in keep /\ m \notin Torn(pkg, keep) /\ m \notin Doomed(pkg, keep)
    BY DEF CleanedMarks
  <1>2. m.tag \notin AlwaysDropped
    BY <1>1 DEF Doomed
  <1>3. SUFFICES ASSUME m.tag \in Markers PROVE FALSE
    OBVIOUS
  <1>4. m.rel # NoRelation /\ m.rel \in pkg.rels /\ m.rel.from = m.in
        /\ m.rel.kind \in ActiveKinds
    BY <1>1, <1>2, <1>3 DEF RelationsFit
  <1>5. m.rel \in Carried(pkg, keep)
    BY <1>1, <1>4 DEF Carried
  <1>6. KeepsRelation(m.rel, keep)
    BY <1>1, <1>5 DEF Torn
  <1> QED
    BY <1>4, <1>5, <1>6, RebuiltRelations

LEMMA RebuiltStory ==
  ASSUME NEW pkg \in Packages, NEW prof, NEW e, e = Rebuilt(pkg, prof),
         NEW p \in Keep(pkg, prof) \cap XmlParts, OneRunEach(pkg.story[p])
  PROVE  ScanFields(e.story[p]) \subseteq {"safe"}
  <1> DEFINE stories == [q \in XmlParts |-> IF q \in Keep(pkg, prof)
                                             THEN StripFields(pkg.story[q], TRUE) ELSE <<>>]
  <1>1. e.story = stories
    BY DEF Rebuilt, Packages
  <1>2. e.story[p] = StripFields(pkg.story[p], TRUE)
    BY <1>1
  <1>3. pkg.story[p] \in Seq(Pieces)
    BY DEF Packages, Pieces
  <1>4. ScanFields(StripFields(pkg.story[p], TRUE)) \subseteq {"safe"}
    BY <1>3, StripAlways
  <1> HIDE DEF stories
  <1> QED
    BY <1>2, <1>4

LEMMA OrdinaryRebuilt ==
  ASSUME NEW pkg \in Packages, RelationsFit(pkg), MainIsThere(pkg), RunsAreApart(pkg),
         StageCodes(pkg) \subseteq Notices, pkg.place, pkg.main \in MainTypes,
         \A m \in pkg.marks :
           m.tag # "root" /\ (m.tag \in Markers \ AlwaysDropped => m.rel # NoRelation),
         HugeMedia(pkg) = {}, NEW prof, NEW e, e = Rebuilt(pkg, prof)
  PROVE  /\ ~RebuildFails(pkg, Keep(pkg, prof))
         /\ PackageProblems(e) = {}
  <1> DEFINE keep == Keep(pkg, prof)
  <1>1. keep \subseteq KeptLight /\ keep \subseteq pkg.parts
    BY KeepIs
  <1>2. ~Refuses(pkg) /\ \A p \in keep \cap XmlParts : Readable(pkg, p)
    BY <1>1, OrdinaryIsRead
  <1>3. "main" \in keep
    BY DEF Keep, MainIsThere, KeptLight, KeptParts
  <1>4. ~RebuildFails(pkg, keep)
    <2>1. Doomed(pkg, keep) \subseteq pkg.marks
      BY DEF Doomed, Torn
    <2> QED
      BY <1>2, <1>3, <2>1 DEF RebuildFails
  <1>5. /\ e.parts = keep /\ e.main = pkg.main
        /\ e.types = ContentTypes(pkg, keep)
        /\ e.rels = {rel \in Carried(pkg, keep) : KeepsRelation(rel, keep)}
        /\ e.marks = CleanedMarks(pkg, keep) /\ e.dtd = {}
    BY <1>2, <1>4, RebuiltIs
  <1>6. {p \in e.parts : p \notin KeptLight} = {}
    BY <1>1, <1>5
  <1>7. {t \in e.types : t.value \in {"vba", "activex", "ole"}} = {}
    BY <1>5 DEF ContentTypes, PlainXmlType
  <1>8. {r \in e.rels : r.external /\ ~(r.kind = "hyperlink" /\ SafeHyperlink(r.to))} = {}
    BY <1>5 DEF KeepsRelation
  <1>9. ASSUME NEW p \in e.parts \cap XmlParts PROVE ScanKinds(e, p) \subseteq {"safe"}
    <2>1. OneRunEach(pkg.story[p])
      BY <1>9 DEF RunsAreApart
    <2>2. p \in Keep(pkg, prof) \cap XmlParts
      BY <1>5, <1>9
    <2>3. ScanFields(e.story[p]) \subseteq {"safe"}
      BY <2>1, <2>2, RebuiltStory
    <2>4. \A m \in e.marks : m.tag \notin Markers
      BY <1>5, NoMarkersStay
    <2>5. {m.tag : m \in {k \in e.marks : k.in = p /\ k.tag \in Markers}} = {}
      BY <2>4
    <2> QED
      BY <2>3, <2>5 DEF ScanKinds
  <1>10. (UNION {ScanKinds(e, p) : p \in e.parts \cap XmlParts}) \ {"safe"} = {}
    BY <1>9
  <1>11. PackageProblems(e) = {}
    <2>1. e.parts \ KeptLight = {} /\ {e.main} \ MainTypes = {}
      BY <1>5, <1>6
    <2> QED
      BY <1>5, <1>7, <1>8, <1>10, <2>1 DEF PackageProblems
  <1> HIDE DEF keep
  <1> QED
    BY <1>4, <1>11 DEF keep

LEMMA OrdinaryRetyped ==
  ASSUME NEW pkg \in Packages, MainIsThere(pkg), RunsAreApart(pkg),
         StageCodes(pkg) \subseteq Notices, pkg.place, pkg.main \in MainTypes
  PROVE  /\ ~StrictFails(pkg)
         /\ PackageProblems(FromText(pkg)) = {}
  <1> DEFINE e == FromText(pkg)
  <1>1. "main" \in XmlParts
    BY DEF XmlParts, KeptLight, KeptParts, MediaParts
  <1>2. ~StrictFails(pkg)
    BY <1>1, OrdinaryIsRead DEF StrictFails, MainIsThere
  <1>3. /\ e.parts \subseteq {"main", "image"} /\ "main" \in e.parts
        /\ e.types = {} /\ e.main = pkg.main /\ e.dtd = {}
        /\ e.rels \subseteq {Relation("main", "image", "image")}
        /\ e.marks \subseteq
             {Mark("main", "drawing", Relation("main", "image", "image"), "drawing")}
    BY FromTextIs
  <1>4. e.story["main"] = StrictText(pkg.story["main"])
    BY <1>1 DEF FromText, EmptyPackage
  <1> HIDE DEF e
  <1>5. ASSUME NEW p \in e.parts \cap XmlParts PROVE ScanKinds(e, p) = {}
    <2>1. p = "main"
      BY <1>3, <1>5 DEF XmlParts, KeptLight, KeptParts, MediaParts, MetadataParts
    <2>2. pkg.story["main"] \in Seq(Pieces) /\ OneRunEach(pkg.story["main"])
      BY <1>1 DEF Packages, Pieces, RunsAreApart
    <2>3. ScanFields(e.story[p]) = {}
      BY <1>4, <2>1, <2>2, StrictTextHasNoFields
    <2>4. {k \in e.marks : k.in = p /\ k.tag \in Markers} = {}
      <3>1. \A k \in e.marks : k.tag = "drawing"
        BY <1>3 DEF Mark
      <3> QED
        BY <3>1 DEF Markers
    <2> QED
      BY <2>3, <2>4 DEF ScanKinds
  <1>6. e.parts \ KeptLight = {} /\ {e.main} \ MainTypes = {}
    BY <1>3 DEF KeptLight, KeptParts, MediaParts
  <1>7. {r \in e.rels : r.external /\ ~(r.kind = "hyperlink" /\ SafeHyperlink(r.to))} = {}
    BY <1>3 DEF Relation
  <1>8. (UNION {ScanKinds(e, p) : p \in e.parts \cap XmlParts}) \ {"safe"} = {}
    BY <1>5
  <1>9. PackageProblems(e) = {}
    BY <1>3, <1>6, <1>7, <1>8 DEF PackageProblems
  <1> QED
    BY <1>2, <1>9 DEF e

LEMMA OneIsWritten ==
  ASSUME NEW file, Sniff(file) \in {"pdf"} \cup DocxTypes, ~file.large, NEW prof, NEW type \in WrittenTypes,
         NEW body, NEW sanitized, sanitized = SanitizedAlone(file, prof),
         \/ /\ Sniff(file) = "pdf" /\ type = "pdf"
            /\ SanitizedPdf(file, prof) = {File(type, body)} /\ PdfProblems(body) = {}
         \/ /\ Sniff(file) \in DocxTypes /\ type \in DocxTypes
            /\ SanitizedDocx(file, prof) = {File(type, body)} /\ PackageProblems(body) = {}
  PROVE  \E new : sanitized = {new} /\ ProblemsAlone(new) = {}
  <1> DEFINE new == File(type, body)
  <1>1. "pdf" \notin ImageTypes /\ "pdf" \notin DocxTypes /\ ImageTypes \cap DocxTypes = {}
    BY DEF ImageTypes, DocxTypes
  <1>2. /\ type = "pdf" => ProblemsAlone(new) = PdfProblems(body)
        /\ type \in DocxTypes => ProblemsAlone(new) = PackageProblems(body)
    BY WrittenCodes
  <1> HIDE DEF new
  <1>3. SanitizedAlone(file, prof) = {new}
    <2>1. CASE Sniff(file) = "pdf"
      <3>1. SanitizedPdf(file, prof) = {new}
        BY <1>1, <2>1 DEF new
      <3> QED
        BY <1>1, <2>1, <3>1 DEF SanitizedAlone
    <2>2. CASE Sniff(file) \in DocxTypes
      <3>1. SanitizedDocx(file, prof) = {new}
        BY <1>1, <2>2 DEF new
      <3> QED
        BY <1>1, <2>2, <3>1 DEF SanitizedAlone
    <2> QED
      BY <2>1, <2>2
  <1>4. ProblemsAlone(new) = {}
    BY <1>1, <1>2
  <1> QED
    BY <1>3, <1>4

(* A file of which the stages report nothing but notices, that a sanitizer says it
   rebuilds, and that has none of the four things the sanitizers stumble over without
   a stage saying so (StumblesAlone), comes out of the sanitizer under every profile,
   and the check of that sanitizer accepts what came out: what the stages let through,
   what the sanitizers drop and what their checks look for are three lists kept by
   hand (cdr/registry.py, cdr/pdf.py, cdr/image.py, cdr/docx.py).  Of a document it
   takes that the main part is there and each element of a field in a run of its own. *)
THEOREM OrdinaryPasses ==
  ASSUME NEW file, WellFormed(file), Sniff(file) # "zip",
         RebuildableAlone(file), ~StumblesAlone(file), NEW request, CodesAlone(file, request) \subseteq Notices,
         Sniff(file) \in DocxTypes => MainIsThere(file.body) /\ RunsAreApart(file.body), NEW prof
  PROVE  \E new : SanitizedAlone(file, prof) = {new} /\ ProblemsAlone(new) = {}
  <1> DEFINE body == file.body
  <1>1. "pdf" \notin ImageTypes /\ "pdf" \notin DocxTypes /\ ImageTypes \cap DocxTypes = {}
    BY DEF ImageTypes, DocxTypes
  <1>2. ~file.large
    BY DEF RebuildableAlone
  <1>3. Sniff(file) \in {"pdf"} \cup ImageTypes \cup DocxTypes
    <2>1. TypeCodes(file, request) \subseteq Notices
      BY DEF CodesAlone
    <2>2. Sniff(file) # "none"
      BY <2>1, NoticesAre DEF TypeCodes
    <2>3. Sniff(file) \in SupportedTypes
      BY <2>1, <2>2, NoticesAre DEF TypeCodes
    <2> QED
      BY <2>3 DEF SupportedTypes
  <1>4. CASE Sniff(file) = "pdf"
    <2>1. body \in PdfDocuments /\ KeysFit(body) /\ PdfCodes(body) \subseteq Notices
      BY <1>1, <1>4 DEF WellFormed, CodesAlone
    <2>2. /\ body.draws /\ ~PdfRebuildFails(body) /\ PdfProblems(Drawn(body)) = {}
          /\ PdfProblems(RebuiltPdf(body, prof)) = {}
      <3>1. /\ "annot" \notin body.odd
            /\ \A x \in body.graph :
                 ~(x.at = "field" /\ x.key = "AA" /\ x.does \in SuspiciousActions)
        BY <1>4 DEF StumblesAlone
      <3> QED
        BY <2>1, <3>1, OrdinaryPdf
    <2> DEFINE written == IF prof = "strict" THEN Drawn(body) ELSE RebuiltPdf(body, prof)
    <2>3. PdfProblems(written) = {}
      BY <2>2
    <2>4. SanitizedPdf(file, prof) = {File("pdf", written)}
      <3>1. {f \in {file} : f.body.draws} = {file}
        BY <2>2
      <3>2. {f \in {file} : ~PdfRebuildFails(f.body)} = {file}
        BY <2>2
      <3> QED
        BY <3>1, <3>2 DEF SanitizedPdf
    <2>5. "pdf" \in WrittenTypes
      BY DEF WrittenTypes
    <2> HIDE DEF written
    <2> QED
      BY <1>2, <1>4, <2>3, <2>4, <2>5, OneIsWritten
  <1>5. CASE Sniff(file) \in ImageTypes
    <2>1. body \in Pictures /\ ImageCodes(body) \subseteq Notices
      BY <1>1, <1>5 DEF WellFormed, CodesAlone
    <2>2. PICK new : RebuiltImage(file, prof) = {new} /\ ProblemsAlone(new) = {}
      <3>1. body.whole
        BY <1>5 DEF StumblesAlone
      <3> QED
        BY <1>5, <2>1, <3>1, OrdinaryImage
    <2>3. SanitizedAlone(file, prof) = {new}
      BY <1>1, <1>2, <1>5, <2>2 DEF SanitizedAlone
    <2> QED
      BY <2>2, <2>3
  <1>6. CASE Sniff(file) \in DocxTypes
    <2>1. /\ body \in Packages /\ RelationsFit(body) /\ StageCodes(body) \subseteq Notices
          /\ MainIsThere(body) /\ RunsAreApart(body)
      BY <1>1, <1>6 DEF WellFormed, CodesAlone
    <2>2. /\ body.place /\ body.main \in MainTypes
          /\ \A m \in body.marks :
               m.tag # "root" /\ (m.tag \in Markers \ AlwaysDropped => m.rel # NoRelation)
      BY <1>6 DEF RebuildableAlone
    <2>3. ~Refuses(body)
      BY <2>1, <2>2, OrdinaryIsRead
    <2>4. ~RebuildFails(body, Keep(body, prof)) /\ PackageProblems(Rebuilt(body, prof)) = {}
      <3>1. HugeMedia(body) = {}
        BY <1>6 DEF StumblesAlone
      <3> QED
        BY <2>1, <2>2, <3>1, OrdinaryRebuilt
    <2>5. ~StrictFails(body) /\ PackageProblems(FromText(body)) = {}
      BY <2>1, <2>2, OrdinaryRetyped
    <2> DEFINE type == IF body.main = "macroDocument" THEN "docm" ELSE "docx"
               written == IF prof = "strict" THEN FromText(body) ELSE Rebuilt(body, prof)
    <2>6. type \in DocxTypes /\ type \in WrittenTypes
      BY DEF DocxTypes, WrittenTypes
    <2>7. PackageProblems(written) = {}
      BY <2>4, <2>5
    <2>8. SanitizedDocx(file, prof) = {File(type, written)}
      <3>1. CASE prof = "strict"
        BY <2>3, <2>5, <3>1 DEF SanitizedDocx
      <3>2. CASE prof # "strict"
        BY <2>3, <2>4, <3>2 DEF SanitizedDocx
      <3> QED
        BY <3>1, <3>2
    <2> HIDE DEF type, written
    <2> QED
      BY <1>2, <1>6, <2>6, <2>7, <2>8, OneIsWritten
  <1> QED
    BY <1>3, <1>4, <1>5, <1>6

-----------------------------------------------------------------------------
(* The members of an archive.  A name that is taken gets a number, and of  *)
(* as many numbers as there are names and one more, one is free.           *)

(* What a sanitizer writes, and an archive of it. *)
PackedTypes == WrittenTypes \cup {"zip"}
WrittenSuffixes == {Extension[type] : type \in PackedTypes}

Roles == {"file", "empty", "link", "metadata"}
MemberNames ==
  [stem : STRING, upper : BOOLEAN, n : Nat, ext : STRING \cup WrittenSuffixes,
   leads : {"inside", "out", "drive", "behind"}]

LEMMA UniqueIs ==
  ASSUME NEW name \in MemberNames, NEW taken, IsFiniteSet(taken)
  PROVE  \E n \in Nat : /\ Unique(name, taken) = [name EXCEPT !.n = n]
                        /\ Folded([name EXCEPT !.n = n]) \notin taken
  <1> DEFINE k == Cardinality(taken)
             numbered(m) == Folded([name EXCEPT !.n = m])
             free == {m \in 1 .. k + 1 : numbered(m) \notin taken}
             g == [m \in 1 .. k + 1 |-> numbered(m)]
  <1>1. k \in Nat
    BY FS_CardinalityType
  <1>2. \A m \in 1 .. k + 1 : numbered(m).n = m
    BY DEF Folded, MemberNames
  <1>3. free # {}
    <2>1. SUFFICES ASSUME free = {} PROVE FALSE
      OBVIOUS
    <2> HIDE DEF numbered
    <2>2. g \in [1 .. k + 1 -> taken]
      BY <2>1
    <2>3. IsFiniteSet(1 .. k + 1) /\ Cardinality(1 .. k + 1) = k + 1
      <3>1. 1 \in Int /\ k + 1 \in Int /\ ~ (1 > k + 1) /\ (k + 1) - 1 + 1 = k + 1
        BY <1>1
      <3> QED
        BY <3>1, FS_Interval
    <2>4. Cardinality(taken) < Cardinality(1 .. k + 1)
      BY <1>1, <2>3
    <2> HIDE DEF g, k
    <2>5. \E x, y \in 1 .. k + 1 : x # y /\ g[x] = g[y]
      BY <2>2, <2>3, <2>4, FS_PigeonHole
    <2> USE DEF g
    <2>6. PICK x \in 1 .. k + 1 : \E y \in 1 .. k + 1 : x # y /\ numbered(x) = numbered(y)
      BY <2>5
    <2> QED
      BY <1>2, <2>6
  <1> HIDE DEF numbered, g
  <1>4. PICK least \in free : \A m \in free : least <= m
    <2>1. free \in SUBSET Nat
      BY <1>1
    <2> HIDE DEF free
    <2> QED
      BY <1>3, <2>1, LeastPlace
  <1> DEFINE chosen == CHOOSE m \in free : \A l \in free : m <= l
  <1>5. chosen \in free
    BY <1>4
  <1>6. Unique(name, taken) = [name EXCEPT !.n = chosen]
    BY DEF Unique, numbered
  <1> HIDE DEF chosen
  <1>7. chosen \in Nat /\ numbered(chosen) \notin taken
    BY <1>1, <1>5
  <1> QED
    BY <1>6, <1>7 DEF numbered

LEMMA UniqueKeeps ==
  ASSUME NEW name \in MemberNames, NEW taken, IsFiniteSet(taken), NEW unique,
         unique = Unique(SafeName(name), taken)
  PROVE  /\ unique \in MemberNames /\ unique.ext = name.ext
         /\ Folded(unique) \notin taken
  <1> DEFINE safe == SafeName(name)
  <1>1. safe \in MemberNames /\ safe.ext = name.ext
    BY DEF SafeName, MemberNames
  <1>2. unique = Unique(safe, taken)
    OBVIOUS
  <1> HIDE DEF safe
  <1>3. PICK n \in Nat : /\ Unique(safe, taken) = [safe EXCEPT !.n = n]
                         /\ Folded([safe EXCEPT !.n = n]) \notin taken
    BY <1>1, UniqueIs
  <1>4. unique = [safe EXCEPT !.n = n] /\ Folded(unique) \notin taken
    BY <1>2, <1>3
  <1> QED
    BY <1>1, <1>4 DEF MemberNames

LEMMA TakenIsFinite ==
  ASSUME NEW out, Len(out) \in Nat, DOMAIN out = 1 .. Len(out)
  PROVE  IsFiniteSet({Folded(x.name) : x \in ToSet(out)})
  <1> DEFINE g == [i \in 1 .. Len(out) |-> Folded(out[i].name)]
             taken == {Folded(x.name) : x \in ToSet(out)}
  <1>1. ToSet(out) = {out[i] : i \in 1 .. Len(out)}
    BY DEF ToSet
  <1>2. g \in Surjection(1 .. Len(out), taken)
    BY <1>1 DEF Surjection
  <1>3. IsFiniteSet(1 .. Len(out))
    BY FS_Interval
  <1> HIDE DEF g, taken
  <1>4. IsFiniteSet(taken)
    BY <1>2, <1>3, FS_Surjection
  <1> QED
    BY <1>4 DEF taken

Members(Contents) == [name : MemberNames, role : Roles, file : Contents]
Counted == {"file", "empty"}

(* What has been written so far: no two names meet, and each file has an extension
   of what is inside. *)
FitsInside(member) ==
  member.role = "file" =>
    member.name.ext \in {Extension[Sniff(member.file)], ".jpeg", ".tiff"}

NamesApart(out) ==
  \A i, j \in 1 .. Len(out) : i # j => Folded(out[i].name) # Folded(out[j].name)

WellPacked(out, Contents) ==
  /\ out \in Seq(Members(Contents))
  /\ NamesApart(out)
  /\ \A i \in 1 .. Len(out) : FitsInside(out[i])

PlacesUpTo(entries, n, role) == {i \in 1 .. n : entries[i].role = role}
Count(entries, n, role) == Cardinality(PlacesUpTo(entries, n, role))

LEMMA CountingOn ==
  ASSUME NEW entries, NEW n \in Nat, NEW role
  PROVE  /\ Count(entries, 0, role) = 0
         /\ Count(entries, n, role) \in Nat
         /\ entries[n + 1].role = role =>
              Count(entries, n + 1, role) = Count(entries, n, role) + 1
         /\ entries[n + 1].role # role => Count(entries, n + 1, role) = Count(entries, n, role)
  <1> DEFINE before == PlacesUpTo(entries, n, role)
             after == PlacesUpTo(entries, n + 1, role)
  <1>1. PlacesUpTo(entries, 0, role) = {}
    BY DEF PlacesUpTo
  <1>2. IsFiniteSet(before) /\ Cardinality(before) \in Nat
    <2>1. IsFiniteSet(1 .. n)
      BY FS_Interval
    <2>2. before \in SUBSET (1 .. n)
      BY DEF PlacesUpTo
    <2> HIDE DEF before
    <2> QED
      BY <2>1, <2>2, FS_Subset, FS_CardinalityType
  <1>3. n + 1 \notin before
    BY DEF PlacesUpTo
  <1>4. entries[n + 1].role = role => after = before \cup {n + 1}
    BY DEF PlacesUpTo
  <1>5. entries[n + 1].role # role => after = before
    BY DEF PlacesUpTo
  <1>6. Cardinality(before \cup {n + 1}) = Cardinality(before) + 1
    <2> HIDE DEF before
    <2> QED
      BY <1>2, <1>3, FS_AddElement
  <1> QED
    BY <1>1, <1>2, <1>4, <1>5, <1>6, FS_EmptySet DEF Count

LEMMA CountingOne ==
  ASSUME NEW Kind, NEW out \in Seq(Kind), NEW member \in Kind, NEW role
  PROVE  /\ role = member.role =>
              Count(Append(out, member), Len(Append(out, member)), role)
                = Count(out, Len(out), role) + 1
         /\ role # member.role =>
              Count(Append(out, member), Len(Append(out, member)), role)
                = Count(out, Len(out), role)
  <1> DEFINE n == Len(out)
             more == Append(out, member)
  <1>1. /\ n \in Nat /\ Len(more) = n + 1 /\ more[n + 1] = member
        /\ \A i \in 1 .. n : more[i] = out[i]
    OBVIOUS
  <1> HIDE DEF n, more
  <1>2. PlacesUpTo(more, n, role) = PlacesUpTo(out, n, role)
    BY <1>1 DEF PlacesUpTo
  <1>3. Count(more, n, role) = Count(out, n, role)
    BY <1>2 DEF Count
  <1>4. /\ more[n + 1].role = role => Count(more, n + 1, role) = Count(more, n, role) + 1
        /\ more[n + 1].role # role => Count(more, n + 1, role) = Count(more, n, role)
    BY <1>1, CountingOn
  <1> QED
    BY <1>1, <1>3, <1>4 DEF n, more

LEMMA Putting ==
  ASSUME NEW Contents, NEW out, WellPacked(out, Contents), NEW name \in MemberNames,
         NEW role \in Roles, NEW file \in Contents,
         role = "file" => name.ext \in {Extension[Sniff(file)], ".jpeg", ".tiff"}
  PROVE  \E more :
           /\ more = Put(out, name, role, file) /\ WellPacked(more, Contents)
           /\ \A r : r # role => Count(more, Len(more), r) = Count(out, Len(out), r)
           /\ Count(more, Len(more), role) = Count(out, Len(out), role) + 1
  <1> DEFINE taken == {Folded(x.name) : x \in ToSet(out)}
             unique == Unique(SafeName(name), taken)
             member == [name |-> unique, role |-> role, file |-> file]
             more == Append(out, member)
             n == Len(out)
  <1>1. out \in Seq(Members(Contents)) /\ n \in Nat /\ DOMAIN out = 1 .. n
    BY DEF WellPacked
  <1>2. IsFiniteSet(taken)
    BY <1>1, TakenIsFinite
  <1>3. \A i \in 1 .. n : Folded(out[i].name) \in taken
    BY <1>1 DEF ToSet
  <1>4. Put(out, name, role, file) = more
    BY DEF Put
  <1> HIDE DEF taken
  <1>5. /\ unique \in MemberNames /\ unique.ext = name.ext
        /\ Folded(unique) \notin taken
    BY <1>2, UniqueKeeps
  <1> HIDE DEF unique
  <1>6. member \in Members(Contents) /\ member.name = unique
        /\ member.role = role /\ member.file = file
    BY <1>5 DEF Members
  <1> HIDE DEF member
  <1>7. /\ more \in Seq(Members(Contents)) /\ Len(more) = n + 1 /\ more[n + 1] = member
        /\ \A i \in 1 .. n : more[i] = out[i]
    BY <1>1, <1>6
  <1> HIDE DEF more, n
  <1>8. NamesApart(more)
    <2>1. ASSUME NEW i \in 1 .. n PROVE Folded(more[i].name) # Folded(more[n + 1].name)
      BY <1>3, <1>5, <1>6, <1>7, <2>1
    <2>2. ASSUME NEW i \in 1 .. n, NEW j \in 1 .. n, i # j
          PROVE  Folded(more[i].name) # Folded(more[j].name)
      <3>1. Folded(out[i].name) # Folded(out[j].name)
        BY <2>2 DEF WellPacked, NamesApart, n
      <3> QED
        BY <1>7, <3>1
    <2>3. ASSUME NEW i \in 1 .. Len(more), NEW j \in 1 .. Len(more), i # j
          PROVE  Folded(more[i].name) # Folded(more[j].name)
      <3>1. (i \in 1 .. n \/ i = n + 1) /\ (j \in 1 .. n \/ j = n + 1)
        BY <1>1, <1>7
      <3> QED
        BY <2>1, <2>2, <2>3, <3>1
    <2> QED
      BY <2>3 DEF NamesApart
  <1>9. \A i \in 1 .. Len(more) : FitsInside(more[i])
    <2>1. FitsInside(member)
      BY <1>5, <1>6 DEF FitsInside
    <2>2. ASSUME NEW i \in 1 .. n PROVE FitsInside(more[i])
      BY <1>7, <2>2 DEF WellPacked, n
    <2>3. ASSUME NEW i \in 1 .. Len(more) PROVE i \in 1 .. n \/ i = n + 1
      BY <1>1, <1>7
    <2> QED
      BY <1>7, <2>1, <2>2, <2>3
  <1>10. WellPacked(more, Contents)
    BY <1>7, <1>8, <1>9 DEF WellPacked
  <1>11. out \in Seq(Members(Contents)) /\ member \in Members(Contents) /\ more = Append(out, member)
    BY <1>1, <1>6 DEF more
  <1>12. /\ \A r : r # role => Count(more, Len(more), r) = Count(out, Len(out), r)
         /\ Count(more, Len(more), role) = Count(out, Len(out), role) + 1
    <2> DEFINE Kind == Members(Contents)
    <2>1. out \in Seq(Kind) /\ member \in Kind /\ more = Append(out, member) /\ member.role = role
      BY <1>6, <1>11
    <2> HIDE DEF Kind
    <2>2. ASSUME NEW r
          PROVE  /\ r = member.role => Count(more, Len(more), r) = Count(out, Len(out), r) + 1
                 /\ r # member.role => Count(more, Len(more), r) = Count(out, Len(out), r)
      BY <2>1, CountingOne
    <2> QED
      BY <2>1, <2>2
  <1> QED
    BY <1>4, <1>10, <1>12

LEMMA RenamedFits ==
  ASSUME NEW name \in MemberNames, NEW type \in PackedTypes
  PROVE  /\ Renamed(name, Extension[type]) \in MemberNames
         /\ Renamed(name, Extension[type]).ext \in {Extension[type], ".jpeg", ".tiff"}
  <1>1. Extension[type] \in {".pdf", ".jpg", ".png", ".docx", ".docm", ".zip"}
    BY DEF Extension, PackedTypes, WrittenTypes
  <1> DEFINE suffix == Extension[type]
  <1> HIDE DEF suffix
  <1>2. suffix \in {".pdf", ".jpg", ".png", ".docx", ".docm", ".zip"}
    BY <1>1 DEF suffix
  <1>3. CASE name.ext = suffix \/ {name.ext, suffix} \in {{".jpg", ".jpeg"}, {".tif", ".tiff"}}
    <2>1. Renamed(name, suffix) = name
      BY <1>3 DEF Renamed
    <2>2. name.ext \in {suffix, ".jpeg", ".tiff"}
      BY <1>2, <1>3
    <2> QED
      BY <2>1, <2>2 DEF suffix
  <1>4. CASE ~(name.ext = suffix \/ {name.ext, suffix} \in {{".jpg", ".jpeg"}, {".tif", ".tiff"}})
    <2>1. Renamed(name, suffix) = [name EXCEPT !.ext = suffix]
      BY <1>4 DEF Renamed
    <2>2. suffix \in WrittenSuffixes
      BY DEF suffix, WrittenSuffixes
    <2> QED
      BY <2>1, <2>2 DEF suffix, MemberNames
  <1> QED
    BY <1>3, <1>4

LEMMA PuttingEntry ==
  ASSUME NEW Contents, NEW zip, NEW out, WellPacked(out, Contents),
         NEW entry \in Members(Contents), entry \in ToSet(zip.entries), NEW result,
         IsMember(zip, entry) =>
           entry.role # "empty" /\ \E f \in Contents : result = {f} /\ Sniff(f) \in PackedTypes
  PROVE  \E more :
           /\ more = PutEntry(zip, out, entry, result) /\ WellPacked(more, Contents)
           /\ \A r \in Counted :
                /\ Count(more, Len(more), r) >= Count(out, Len(out), r)
                /\ r = entry.role => Count(more, Len(more), r) >= Count(out, Len(out), r) + 1
  <1>1. entry.name \in MemberNames /\ entry.role \in Roles /\ entry.file \in Contents
        /\ Len(out) \in Nat
    BY DEF Members, WellPacked
  <1>2. entry.role = "file" => IsMember(zip, entry)
    BY DEF IsMember
  <1>3. \A r : Count(out, Len(out), r) \in Nat
    BY <1>1, CountingOn
  <1>4. CASE IsMember(zip, entry)
    <2>1. PICK f \in Contents : result = {f} /\ Sniff(f) \in PackedTypes
      BY <1>4
    <2>2. (CHOOSE x \in result : TRUE) = f
      BY <2>1
    <2> DEFINE name == Renamed(entry.name, Extension[Sniff(f)])
               role == "file"
    <2>3. PutEntry(zip, out, entry, result) = Put(out, name, role, f)
      BY <1>4, <2>2 DEF PutEntry
    <2>4. name \in MemberNames /\ name.ext \in {Extension[Sniff(f)], ".jpeg", ".tiff"}
      BY <1>1, <2>1, RenamedFits
    <2>5. role \in Roles
      BY DEF Roles
    <2>6. \A r \in Counted : entry.role = r => r = role
      BY <1>4 DEF Counted
    <2> HIDE DEF name, role
    <2>7. PICK more : /\ more = Put(out, name, role, f) /\ WellPacked(more, Contents)
                      /\ \A r : r # role => Count(more, Len(more), r) = Count(out, Len(out), r)
                      /\ Count(more, Len(more), role) = Count(out, Len(out), role) + 1
      BY <2>1, <2>4, <2>5, Putting
    <2>8. ASSUME NEW r \in Counted
          PROVE  /\ Count(more, Len(more), r) >= Count(out, Len(out), r)
                 /\ r = entry.role => Count(more, Len(more), r) >= Count(out, Len(out), r) + 1
      BY <1>3, <2>6, <2>7
    <2> QED
      BY <2>3, <2>7, <2>8
  <1>5. CASE ~IsMember(zip, entry) /\ entry.role = "empty"
    <2> DEFINE role == "empty"
               name == entry.name
               file == entry.file
    <2>1. PutEntry(zip, out, entry, result) = Put(out, name, role, file)
      BY <1>5 DEF PutEntry
    <2>2. role \in Roles /\ role # "file" /\ name \in MemberNames /\ file \in Contents
      BY <1>1 DEF Roles
    <2>3. entry.role = role
      BY <1>5
    <2> HIDE DEF role, name, file
    <2>4. PICK more : /\ more = Put(out, name, role, file) /\ WellPacked(more, Contents)
                      /\ \A r : r # role => Count(more, Len(more), r) = Count(out, Len(out), r)
                      /\ Count(more, Len(more), role) = Count(out, Len(out), role) + 1
      BY <2>2, Putting
    <2>5. ASSUME NEW r \in Counted
          PROVE  /\ Count(more, Len(more), r) >= Count(out, Len(out), r)
                 /\ r = entry.role => Count(more, Len(more), r) >= Count(out, Len(out), r) + 1
      BY <1>3, <2>3, <2>4
    <2> QED
      BY <2>1, <2>4, <2>5
  <1>6. CASE ~IsMember(zip, entry) /\ entry.role # "empty"
    <2>1. PutEntry(zip, out, entry, result) = out
      BY <1>6 DEF PutEntry
    <2>2. entry.role \notin Counted
      BY <1>2, <1>6 DEF Counted
    <2>3. ASSUME NEW r \in Counted
          PROVE  Count(out, Len(out), r) >= Count(out, Len(out), r) /\ r # entry.role
      BY <1>3, <2>2
    <2> QED
      BY <2>1, <2>3
  <1> QED
    BY <1>4, <1>5, <1>6

IsPacks(zip, results, n, g) ==
  g = [i \in 0 .. n |-> IF i = 0 THEN <<>> ELSE PutEntry(zip, g[i - 1], zip.entries[i], results[i])]

LEMMA PacksExist ==
  ASSUME NEW zip, NEW results, NEW n \in Nat
  PROVE  \E g : IsPacks(zip, results, n, g)
  <1> DEFINE S == {m \in Nat : \E g : IsPacks(zip, results, m, g)}
  <1>1. 0 \in S
    <2> DEFINE h == [i \in 0 .. 0 |-> <<>>]
    <2>1. IsPacks(zip, results, 0, h)
      BY DEF IsPacks
    <2> QED
      BY <2>1
  <1>2. ASSUME NEW m \in 0 .. n - 1, m \in S PROVE m + 1 \in S
    <2>1. PICK g : IsPacks(zip, results, m, g)
      BY <1>2
    <2> DEFINE h == [i \in 0 .. m + 1 |->
                       IF i = m + 1 THEN PutEntry(zip, g[m], zip.entries[m + 1], results[m + 1])
                       ELSE g[i]]
               k == [i \in 0 .. m + 1 |->
                       IF i = 0 THEN <<>> ELSE PutEntry(zip, h[i - 1], zip.entries[i], results[i])]
    <2>2. ASSUME NEW i \in 0 .. m + 1 PROVE h[i] = k[i]
      <3>1. i # m + 1 =>
              g[i] = IF i = 0 THEN <<>> ELSE PutEntry(zip, g[i - 1], zip.entries[i], results[i])
        BY <2>1 DEF IsPacks
      <3>2. i # 0 => h[i - 1] = g[i - 1]
        OBVIOUS
      <3> QED
        BY <3>1, <3>2
    <2>3. h = k
      BY <2>2
    <2>4. IsPacks(zip, results, m + 1, h)
      BY <2>3 DEF IsPacks
    <2> QED
      BY <2>4
  <1>3. n \in S
    <2>1. \A m \in 0 .. n - 1 : m \in S => m + 1 \in S
      BY <1>2
    <2> HIDE DEF S
    <2>2. \A m \in 0 .. n : m \in S
      BY <1>1, <2>1, PlaceInduction
    <2> QED
      BY <2>2
  <1> QED
    BY <1>3

LEMMA PacksAre ==
  ASSUME NEW zip, NEW results, Len(zip.entries) \in Nat
  PROVE  /\ Packs(zip, results)[0] = <<>>
         /\ \A i \in 1 .. Len(zip.entries) :
              Packs(zip, results)[i]
                = PutEntry(zip, Packs(zip, results)[i - 1], zip.entries[i], results[i])
  <1>1. PICK g : IsPacks(zip, results, Len(zip.entries), g)
    BY PacksExist
  <1>2. IsPacks(zip, results, Len(zip.entries), Packs(zip, results))
    BY <1>1 DEF Packs, IsPacks
  <1> QED
    BY <1>2, SMTT(30) DEF IsPacks

(* Of an archive of which every member was rebuilt as one file, none of them empty,
   and whose copy the check accepted, the copy has a file for every file and an empty
   entry for every empty one, under names that differ on any file system, lead nowhere
   and have an extension of what is inside, whatever the old members were called: empty
   entries and links of a member's name and names on a drive included
   (cdr/archive.py, _unique, _renamed and selected; archive.py, safe_name). *)
THEOREM ArchiveIsComplete ==
  ASSUME NEW Contents, NEW zip, zip.entries \in Seq(Members(Contents)), NEW results,
         \A i \in 1 .. Len(zip.entries) : IsMember(zip, zip.entries[i]) =>
           /\ zip.entries[i].role # "empty"
           /\ \E f \in Contents : results[i] = {f} /\ Sniff(f) \in PackedTypes,
         ArchiveProblems(Packed(zip, results)) = {}
  PROVE  CompleteArchive(zip, Packed(zip, results))
  <1> DEFINE entries == zip.entries
             n == Len(entries)
             packs == Packs(zip, results)
             Good(i) == /\ WellPacked(packs[i], Contents)
                        /\ \A r \in Counted :
                             Count(packs[i], Len(packs[i]), r) >= Count(entries, i, r)
             S == {i \in 0 .. n : Good(i)}
  <1>1. /\ n \in Nat /\ DOMAIN entries = 1 .. n
        /\ \A i \in 1 .. n : entries[i] \in Members(Contents) /\ entries[i] \in ToSet(zip.entries)
    BY DEF ToSet
  <1>2. packs[0] = <<>>
        /\ \A i \in 1 .. n : packs[i] = PutEntry(zip, packs[i - 1], entries[i], results[i])
    BY <1>1, PacksAre
  <1>3. \A i \in 1 .. n : IsMember(zip, entries[i]) =>
          entries[i].role # "empty" /\ \E f \in Contents : results[i] = {f} /\ Sniff(f) \in PackedTypes
    OBVIOUS
  <1>4. Packed(zip, results).entries = packs[n]
    BY DEF Packed
  <1> HIDE DEF packs, n
  <1>5. 0 \in S
    <2>1. \A r : Count(entries, 0, r) = 0
      BY CountingOn
    <2>2. WellPacked(<<>>, Contents)
      BY EmptySeq DEF WellPacked, NamesApart
    <2>3. Len(<<>>) = 0 /\ 0 \in 0 .. n
      BY <1>1
    <2>4. \A r : Count(<<>>, 0, r) = 0
      BY CountingOn
    <2>5. Good(0)
      BY <1>2, <2>1, <2>2, <2>3, <2>4
    <2> QED
      BY <2>3, <2>5
  <1>6. ASSUME NEW i \in 0 .. n - 1, i \in S PROVE i + 1 \in S
    <2> DEFINE next == i + 1
               out == packs[i]
               entry == entries[next]
               result == results[next]
    <2>1. next \in 1 .. n /\ next - 1 = i /\ next \in 0 .. n /\ i \in Nat
      BY <1>1
    <2>2. packs[next] = PutEntry(zip, out, entry, result)
      BY <1>2, <2>1
    <2>3. /\ WellPacked(out, Contents) /\ Len(out) \in Nat
          /\ \A r \in Counted : Count(out, Len(out), r) >= Count(entries, i, r)
      BY <1>6 DEF WellPacked
    <2>4. entry \in Members(Contents) /\ entry \in ToSet(zip.entries)
      BY <1>1, <2>1
    <2>5. IsMember(zip, entry) =>
            entry.role # "empty" /\ \E f \in Contents : result = {f} /\ Sniff(f) \in PackedTypes
      BY <1>3, <2>1
    <2>6. \A r : /\ r = entry.role => Count(entries, next, r) = Count(entries, i, r) + 1
                 /\ r # entry.role => Count(entries, next, r) = Count(entries, i, r)
      BY <2>1, CountingOn
    <2>7. \A r : Count(entries, i, r) \in Nat /\ Count(out, Len(out), r) \in Nat
      BY <2>1, <2>3, CountingOn
    <2> HIDE DEF out, entry, result
    <2>8. PICK more :
            /\ more = PutEntry(zip, out, entry, result) /\ WellPacked(more, Contents)
            /\ \A r \in Counted :
                 /\ Count(more, Len(more), r) >= Count(out, Len(out), r)
                 /\ r = entry.role => Count(more, Len(more), r) >= Count(out, Len(out), r) + 1
      BY <2>3, <2>4, <2>5, PuttingEntry
    <2>9. Len(more) \in Nat /\ \A r : Count(more, Len(more), r) \in Nat
      <3>1. Len(more) \in Nat
        BY <2>8 DEF WellPacked
      <3> QED
        BY <3>1, CountingOn
    <2> HIDE DEF next, entries
    <2>10. ASSUME NEW r \in Counted
           PROVE  Count(more, Len(more), r) >= Count(entries, next, r)
      BY <2>3, <2>6, <2>7, <2>8, <2>9
    <2>11. Good(next)
      BY <2>2, <2>8, <2>10
    <2>12. next \in S
      BY <2>1, <2>11
    <2> QED
      BY <2>12 DEF next
  <1>7. n \in S
    <2> HIDE DEF S
    <2>1. \A i \in 0 .. n : i \in S
      BY <1>1, <1>5, <1>6, PlaceInduction
    <2> QED
      BY <1>1, <2>1
  <1> DEFINE new == Packed(zip, results)
             out == packs[n]
  <1>8. /\ WellPacked(out, Contents) /\ new.entries = out
        /\ \A r \in Counted : Count(out, Len(out), r) >= Count(entries, n, r)
    BY <1>4, <1>7
  <1>9. ArchiveProblems(new) = {}
    OBVIOUS
  <1> HIDE DEF new, out, S
  <1>10. DOMAIN out = 1 .. Len(out)
    BY <1>8 DEF WellPacked
  <1>11. ASSUME NEW r \in Counted PROVE Cardinality(Places(new, r)) >= Cardinality(Places(zip, r))
    <2>1. Places(new, r) = PlacesUpTo(out, Len(out), r)
      BY <1>8, <1>10 DEF Places, PlacesUpTo
    <2>2. Places(zip, r) = PlacesUpTo(entries, n, r)
      BY <1>1 DEF Places, PlacesUpTo
    <2> QED
      BY <1>8, <2>1, <2>2 DEF Count
  <1>12. \A i, j \in DOMAIN out : i # j => Folded(out[i].name) # Folded(out[j].name)
    BY <1>8, <1>10 DEF WellPacked, NamesApart
  <1>13. \A i \in DOMAIN out : FitsInside(out[i])
    BY <1>8, <1>10 DEF WellPacked
  <1>14. \A i \in DOMAIN out : ~EscapesRoot(out[i].name)
    <2>1. {x \in ToSet(new.entries) : EscapesRoot(x.name)} = {}
      BY <1>9 DEF ArchiveProblems
    <2> QED
      BY <1>8, <2>1 DEF ToSet
  <1>15. "file" \in Counted /\ "empty" \in Counted
    BY DEF Counted
  <1>16. CompleteArchive(zip, new)
    BY <1>8, <1>11, <1>12, <1>13, <1>14, <1>15 DEF CompleteArchive, FitsInside
  <1> QED
    BY <1>16 DEF new
=============================================================================
