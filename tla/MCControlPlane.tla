--------------------------- MODULE MCControlPlane ---------------------------
(***************************************************************************)
(* Cases for TLC: one of every kind, plain and protected where the data    *)
(* set has both, and one for every fact that turns the verifier.           *)
(***************************************************************************)
EXTENDS ControlPlane

Plain(kind) == [kind |-> kind, protected |-> FALSE, facts |-> "ELIGIBLE",
                indeterminate |-> FALSE, unresolved |-> FALSE]

Resolvable ==
  {Plain("REGISTRATION"),
   [Plain("REGISTRATION") EXCEPT !.protected = TRUE],
   [Plain("WAIVER") EXCEPT !.protected = TRUE],
   Plain("GRADUATION"),
   [Plain("UNAVAILABLE") EXCEPT !.unresolved = TRUE]}

Unresolvable ==
  {Plain("WAIVER"),
   [Plain("REGISTRATION") EXCEPT !.facts = "DOCUMENTS_MISSING"],
   [Plain("WAIVER") EXCEPT !.protected = TRUE, !.facts = "INELIGIBLE"],
   [Plain("GRADUATION") EXCEPT !.indeterminate = TRUE]}

MCCases == Resolvable \cup Unresolvable \cup
  {[Plain("REGISTRATION") EXCEPT !.protected = TRUE, !.unresolved = TRUE]}

=============================================================================
