------------------------- MODULE MCBrowserLifecycle -------------------------
(***************************************************************************)
(* Two instances for TLC: x is started in every way, launched pooled it    *)
(* asks for a headed browser; y takes a headless context of the pool once. *)
(***************************************************************************)
EXTENDS BrowserLifecycle, TLC

CONSTANTS x, y

MCWays == [a \in Browser |-> IF a = x THEN {"classic", "pooled", "adopt", "own"}
                             ELSE {"pooled"}]
MCAsk == [a \in Browser |-> IF a = x THEN "off" ELSE "on"]
MCMaxOps == [a \in Browser |-> IF a = x THEN 3 ELSE 1]

\* Contexts that are not the user's, and drivers, are interchangeable.
Symmetry == Permutations(Context \ UserContext) \cup Permutations(Driver)
=============================================================================
