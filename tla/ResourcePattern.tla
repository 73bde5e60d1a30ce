-------------------------- MODULE ResourcePattern --------------------------
(***************************************************************************)
(* Does a resource URI match a capability's pattern?  `*' stands for any   *)
(* run of characters, all else for itself.  The matcher is given fuel, one *)
(* unit a call, in Python (python/pcs_core/pf_core_runtime.py) as in Lean  *)
(* (lean/PFCore/ResourcePattern.lean), whose recursion must end.           *)
(*                                                                         *)
(* Patterns and URIs are sequences of characters.                          *)
(***************************************************************************)
EXTENDS Naturals, Sequences

Star == "*"

(* _glob_match_chars_fuel, on what is left of p and u after the first i and *)
(* the first j characters.                                                 *)
GlobMatchFrom(p, u) ==
    LET matches[fuel \in Nat, i \in Nat, j \in Nat] ==
            /\ fuel > 0
            /\ IF i = Len(p) THEN j = Len(u)
               ELSE IF p[i + 1] = Star
                    THEN \/ matches[fuel - 1, i + 1, j]
                         \/ j < Len(u) /\ matches[fuel - 1, i, j + 1]
                    ELSE /\ j < Len(u) /\ p[i + 1] = u[j + 1]
                         /\ matches[fuel - 1, i + 1, j + 1]
    IN  matches

GlobMatch(p, u) == GlobMatchFrom(p, u)[Len(p) + Len(u) + 1, 0, 0]

(* resource_matches_pattern *)
ResourceMatches(p, u) == p = <<Star>> \/ GlobMatch(p, u)

(* What a match is: the pattern's characters cut the URI into as many       *)
(* stretches, in order, each of which is that character or under a star.    *)
IsMatch(p, u) ==
    \E cut \in [0..Len(p) -> 0..Len(u)] :
        /\ cut[0] = 0 /\ cut[Len(p)] = Len(u)
        /\ \A i \in 1..Len(p) :
              \/ p[i] = Star /\ cut[i - 1] <= cut[i]
              \/ p[i] # Star /\ cut[i] = cut[i - 1] + 1 /\ u[cut[i]] = p[i]

=============================================================================
