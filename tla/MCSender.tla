------------------------------ MODULE MCSender ------------------------------
(* Sender for TLC. *)
EXTENDS Sender

\* No options, all of them, and a password below the floor.
MCChoices == {NoOptions, [burn |-> TRUE, password |-> "good"],
              [burn |-> FALSE, password |-> "short"]}

\* A clock that is half an hour behind, right, or ahead by the safety margin.
MCSkews == {-30, 0, SafetyMargin}
=============================================================================
