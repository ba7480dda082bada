------------------------------ MODULE Patterns ------------------------------
(***************************************************************************)
(* fnmatch_case of cli/quantize/policy.cpp, by which names of tensors are  *)
(* matched with the lists of policies and of the command line.             *)
(*                                                                         *)
(* One step is one round of a loop.  The function calls itself from the    *)
(* loop of a star: frames holds the loops under way.                       *)
(***************************************************************************)
EXTENDS Integers, Sequences

CONSTANTS
  Letters,      (* characters other than * and ?; a bracket is one of them *)
  MaxPattern,   (* longest pattern; bounds the instance                    *)
  MaxText       (* longest text; bounds the instance                       *)

Strings(characters, longest) == UNION {[1 .. n -> characters] : n \in 0 .. longest}

VARIABLES
  pattern, text,  (* the arguments of the outermost call                   *)
  p, t,           (* the positions of the innermost call                   *)
  frames,         (* loops of stars under way: [p : behind the stars, t]   *)
  at              (* "matching", "mismatch", "true" or "false"             *)

vars == <<pattern, text, p, t, frames, at>>

Init ==
  /\ pattern \in Strings(Letters \union {"*", "?"}, MaxPattern)
  /\ text \in Strings(Letters, MaxText)
  /\ p = 1
  /\ t = 1
  /\ frames = <<>>
  /\ at = "matching"

AtStar == p <= Len(pattern) /\ pattern[p] = "*"

(* Mutant: stars are skipped one at a time. *)
BehindOneStar == p + 1

(* The first position behind a group of stars. *)
BehindStars ==
  CHOOSE q \in p .. Len(pattern) + 1 :
    /\ \A i \in p .. q - 1 : pattern[i] = "*"
    /\ q <= Len(pattern) => pattern[q] # "*"

Return(verdict) ==
  /\ at' = verdict
  /\ UNCHANGED <<pattern, text, p, t, frames>>

(* Stars at the end match all the rest. *)
LastStar ==
  /\ at = "matching"
  /\ AtStar
  /\ BehindStars > Len(pattern)
  /\ Return("true")

BeginStar ==
  /\ at = "matching"
  /\ AtStar
  /\ BehindStars <= Len(pattern)
  /\ t <= Len(text)
  /\ frames' = Append(frames, [p |-> BehindStars, t |-> t])
  /\ p' = BehindStars
  /\ UNCHANGED <<pattern, text, t, at>>

Accepts(c) == pattern[p] \in {"?", c}

Fits == ~ AtStar /\ t <= Len(text) /\ Accepts(text[t])

MatchCharacter ==
  /\ at = "matching"
  /\ p <= Len(pattern)
  /\ Fits
  /\ p' = p + 1
  /\ t' = t + 1
  /\ UNCHANGED <<pattern, text, frames, at>>

(* The character does not match, or there is none: also for the pattern    *)
(* behind a star, which does not begin with one.                           *)
Mismatch ==
  /\ at = "matching"
  /\ p <= Len(pattern)
  /\ IF AtStar THEN BehindStars <= Len(pattern) /\ t > Len(text) ELSE ~ Fits
  /\ Return("mismatch")

EndPattern ==
  /\ at = "matching"
  /\ p > Len(pattern)
  /\ Return(IF t > Len(text) THEN "true" ELSE "mismatch")

Loop == frames[Len(frames)]

Later(place) == place + 1

(* The call in the loop of a star returned false. *)
Retry ==
  /\ at = "mismatch"
  /\ frames # <<>>
  /\ Later(Loop.t) <= Len(text)
  /\ frames' = [frames EXCEPT ![Len(frames)].t = Later(@)]
  /\ p' = Loop.p
  /\ t' = Later(Loop.t)
  /\ at' = "matching"
  /\ UNCHANGED <<pattern, text>>

Outer == SubSeq(frames, 1, Len(frames) - 1)

GiveUp ==
  /\ at = "mismatch"
  /\ frames # <<>>
  /\ Later(Loop.t) > Len(text)
  /\ frames' = Outer
  /\ UNCHANGED <<pattern, text, p, t, at>>

ReturnFalse ==
  /\ at = "mismatch"
  /\ frames = <<>>
  /\ Return("false")

Next ==
  \/ LastStar
  \/ BeginStar
  \/ MatchCharacter
  \/ Mismatch
  \/ EndPattern
  \/ Retry
  \/ GiveUp
  \/ ReturnFalse

Spec == Init /\ [][Next]_vars

-----------------------------------------------------------------------------

(* The texts that a pattern stands for: the text is cut into a piece for   *)
(* every character of the pattern, any piece for a star, one character for *)
(* a question mark, and the character itself for a letter.                 *)
Covers ==
  \E cut \in [0 .. Len(pattern) -> 0 .. Len(text)] :
    /\ cut[0] = 0 /\ cut[Len(pattern)] = Len(text)
    /\ \A i \in DOMAIN pattern :
         IF pattern[i] = "*" THEN cut[i - 1] <= cut[i]
         ELSE cut[i] = cut[i - 1] + 1 /\ pattern[i] \in {"?", text[cut[i]]}

(* The function says yes exactly to the texts that the pattern stands for, *)
(* where * and ? are the only wildcards: wherever stars, several in a row  *)
(* or at the ends, make it try again, no match is missed and none made up. *)
MatchIsExact == at \in {"true", "false"} => (at = "true" <=> Covers)

=============================================================================
