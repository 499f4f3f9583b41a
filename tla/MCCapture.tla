----------------------------- MODULE MCCapture -----------------------------
(* Small instances of Capture for TLC. *)
EXTENDS Capture, TLC

\* Slots, page ids, updates and classifications are interchangeable; used only
\* where no temporal property is checked.
Symmetry ==
    Permutations(Requests) \cup Permutations(PageIds) \cup Permutations(Classes)
        \cup Permutations(Updates)
=============================================================================
