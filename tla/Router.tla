------------------------------- MODULE Router -------------------------------
(* The subject matcher of the embedded NATS server (src/nats/router.rs):    *)
(* the loop of `matches`, one iteration per step, on an arbitrary pattern   *)
(* and an arbitrary subject.  Indices count from 1.                         *)
EXTENDS Subjects

CONSTANTS
  Patterns,      \* the subscription patterns
  Inputs,        \* the subjects published
  None           \* `matches` has not returned

ASSUME SubjectsAssumption ==
  /\ \A p \in Patterns : p \in Seq(Seq(STRING)) /\ Len(p) > 0
  /\ \A s \in Inputs : s \in Seq(Seq(STRING)) /\ Len(s) > 0
  /\ None \notin BOOLEAN

VARIABLES
  pattern_tokens, subject_tokens,
  pattern_index, subject_index,   \* the next token of each
  result

vars == <<pattern_tokens, subject_tokens, pattern_index, subject_index, result>>

Init ==
  /\ pattern_tokens \in Patterns
  /\ subject_tokens \in Inputs
  /\ pattern_index = 1
  /\ subject_index = 1
  /\ result = None

Return(answer) ==
  /\ result' = answer
  /\ UNCHANGED <<pattern_tokens, subject_tokens, pattern_index, subject_index>>

(* `subject_index += 1`, on to the next pattern token.                      *)
Consume ==
  /\ pattern_index' = pattern_index + 1
  /\ subject_index' = subject_index + 1
  /\ UNCHANGED <<pattern_tokens, subject_tokens, result>>

InLoop == result = None /\ pattern_index <= Len(pattern_tokens)

Token == pattern_tokens[pattern_index]

(* Variant: ">" accepted anywhere in the pattern.                            *)
RestArmAnywhere ==
  /\ InLoop
  /\ Token = Rest
  /\ Return(subject_index <= Len(subject_tokens))

RestArm ==
  /\ InLoop
  /\ Token = Rest
  /\ Return(/\ pattern_index = Len(pattern_tokens)
            /\ subject_index <= Len(subject_tokens))

StarArm ==
  /\ InLoop
  /\ Token = Star
  /\ IF subject_index > Len(subject_tokens) THEN Return(FALSE) ELSE Consume

LiteralArm ==
  /\ InLoop
  /\ Token \notin {Rest, Star}
  /\ IF /\ subject_index <= Len(subject_tokens)
        /\ subject_tokens[subject_index] = Token
     THEN Consume ELSE Return(FALSE)

AfterLoop ==
  /\ result = None
  /\ pattern_index > Len(pattern_tokens)
  /\ Return(subject_index = Len(subject_tokens) + 1)

Next == RestArm \/ StarArm \/ LiteralArm \/ AfterLoop

Spec == Init /\ [][Next]_vars

-----------------------------------------------------------------------------
TypeOK ==
  /\ pattern_tokens \in Patterns
  /\ subject_tokens \in Inputs
  /\ pattern_index \in 1..(Len(pattern_tokens) + 1)
  /\ subject_index \in 1..(Len(subject_tokens) + 1)
  /\ result \in BOOLEAN \cup {None}

(* What `matches` returns is exactly whether the pattern stands for the     *)
(* subject: a single left-to-right pass decides the wildcard rule, with the *)
(* boundary cases of ">" (last, at least one token) and of the two lengths. *)
MatchesIsFits ==
  result # None => result = Fits(pattern_tokens, subject_tokens)

=============================================================================
