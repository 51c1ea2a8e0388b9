---------------------------- MODULE Participants ----------------------------
(***************************************************************************)
(* Who takes part in what seats do: the seats themselves (struct seat) and *)
(* the terminals (struct terminal) that they focus.                        *)
(***************************************************************************)

CONSTANTS
  Seats, Terms,
  None      (* no terminal, no key, no text                                *)

ASSUME ParticipantsAssumption == None \notin Terms
=============================================================================
