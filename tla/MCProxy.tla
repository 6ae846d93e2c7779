------------------------------ MODULE MCProxy ------------------------------
(***************************************************************************)
(* Instances of Proxy for TLC, with four-bit integers.                     *)
(***************************************************************************)
EXTENDS Proxy

Body(json, size, prompt, text, reserve) ==
  [json |-> json, size |-> size, prompt |-> prompt, text |-> text, reserve |-> reserve]

\* An ordinary request, one whose estimate overflows, one without content, one
\* that is no JSON, and one beyond each gate.
MixedBodies ==
  {Body(TRUE, 2, 1, 2, 3), Body(TRUE, 2, 1, 2, 7), Body(TRUE, 2, 0, 1, 0),
   Body(FALSE, 2, 0, 0, 0), Body(TRUE, 4, 1, 4, 0), Body(TRUE, 3, 3, 3, 0)}
=============================================================================
