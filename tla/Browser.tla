------------------------------- MODULE Browser -------------------------------
(***************************************************************************)
(* What the pages of static/ have in common: requests whose answers arrive *)
(* at any later time, in any order, and may fail instead.                  *)
(***************************************************************************)
EXTENDS Naturals, FiniteSets

CONSTANTS
  Tokens,      \* bearer tokens a person may enter
  Nothing,     \* no token, nothing loaded, nothing on display
  MaxRequests  \* bound on the requests a page sends

VARIABLE pending  \* requests and file reads that have not ended

==============================================================================
