----------------------------- MODULE MCNotifier -----------------------------
(***************************************************************************)
(* Notifier for TLC. Processes are interchangeable; safety runs use it.    *)
(***************************************************************************)
EXTENDS Notifier, TLC

NotifierSymmetry == Permutations(Notifiers)

=============================================================================
