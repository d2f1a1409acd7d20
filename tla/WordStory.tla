------------------------------- MODULE WordStory ------------------------------
(***************************************************************************)
(* A part of a Word document, written element by element: every order of   *)
(* the elements of a field, the ones no editor writes included, is a state *)
(* in which the two passes of WordFields must agree.                       *)
(***************************************************************************)
EXTENDS WordFields

CONSTANTS
  Elements,       \* the elements a story is written with
  MaxStory        \* the length of the longest story

ASSUME StoryAssumption ==
  /\ Elements \subseteq [e : STRING, of : STRING, joined : BOOLEAN]
  /\ MaxStory \in Nat

VARIABLE story    \* the part that is being written

StoryInit == story = <<>>

(* An element joins the run of the one before it, or begins one of its own; *)
(* a simple field stands beside the runs.                                   *)
Write ==
  /\ Len(story) < MaxStory
  /\ \E el \in Elements : story' = Append(story, el)

StorySpec == StoryInit /\ [][Write]_story

-----------------------------------------------------------------------------
(* Properties *)

OneRunEach(part) == \A i \in DOMAIN part : ~part[i].joined

(* Whatever order the elements of fields stand in, once they are stripped only
   fields of the allowed list are found; with the list empty, none at all. *)
StripLeavesOnlySafe ==
  OneRunEach(story) =>
    /\ ScanFields(StripFields(story, TRUE)) \subseteq {"safe"}
    /\ ScanFields(StripFields(story, FALSE)) = {}

(* The pass over the events and the pass over the tree see the same fields. *)
BothPassesAgree ==
  /\ FieldsStripped(story, FALSE) = Len(FieldsFound(story))
  /\ ScanFields(story) \ {"safe"} # {} => FieldsStripped(story, TRUE) > 0

(* What a reader sees: text that stands in no instruction. *)
Seen(part) ==
  {i \in DOMAIN part : /\ part[i].e = "text"
                       /\ \A f \in Range(Scans(part)[i].open) : f.result}

(* A document that is built from text shows what its reader saw: the results of
   its fields, and nothing that stood in an instruction. *)
TextIsWhatWasSeen ==
  OneRunEach(story) => TextOf(StripFields(story, FALSE)) = Picked(story, Seen(story))

(* Whatever is written into a part, what is found is what is removed, and what
   was seen is what stays. *)
FieldsAreStripped == StripLeavesOnlySafe /\ BothPassesAgree /\ TextIsWhatWasSeen
=============================================================================
