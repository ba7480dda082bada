--------------------------- MODULE ShellPatterns ----------------------------
(***************************************************************************)
(* docs/policy.md, line 25: "Patterns use shell-style matching."  Shells   *)
(* have a third wildcard, characters in brackets, of which any one         *)
(* matches.  (Ranges and negations, which go with it, are left out.)       *)
(***************************************************************************)
EXTENDS Patterns

Closing(i) == {j \in i + 2 .. Len(pattern) : pattern[j] = "]"}

Opens(i) == pattern[i] = "[" /\ Closing(i) # {}

(* The last character of the piece of the pattern that begins at i.        *)
PieceEnd(i) ==
  IF Opens(i) THEN CHOOSE j \in Closing(i) : \A k \in Closing(i) : j <= k ELSE i

(* The characters of which the piece matches one.                          *)
Accepted(i) ==
  CASE Opens(i) -> {pattern[k] : k \in i + 1 .. PieceEnd(i) - 1}
    [] pattern[i] = "?" -> Letters
    [] OTHER -> {pattern[i]}

(* The pattern from i on stands for the text from j on.                    *)
ShellMatches ==
  LET Stands[i \in 1 .. Len(pattern) + 1, j \in 1 .. Len(text) + 1] ==
        CASE i > Len(pattern) -> j > Len(text)
          [] i <= Len(pattern) /\ pattern[i] = "*" ->
               \E k \in j .. Len(text) + 1 : Stands[i + 1, k]
          [] OTHER ->
               j <= Len(text) /\ text[j] \in Accepted(i) /\ Stands[PieceEnd(i) + 1, j + 1]
  IN  Stands[1, 1]

(* docs/policy.md, line 25: the function says yes exactly to the names that *)
(* shells would match with the pattern.  It takes a bracket literally.     *)
MatchIsShell == at \in {"true", "false"} => (at = "true" <=> ShellMatches)

=============================================================================
