---------------------------- MODULE RouterProofs ----------------------------
(* The embedded server's matcher computes the wildcard rule, for patterns   *)
(* and subjects of any length.                                              *)
EXTENDS Router, TLAPS

(* The loop invariant: the two indices move together, and everything to     *)
(* their left has been accepted token by token.                             *)
LoopInv ==
  /\ TypeOK
  /\ subject_index = pattern_index
  /\ \A i \in 1..(pattern_index - 1) :
       TokenFits(pattern_tokens[i], subject_tokens[i])
  /\ MatchesIsFits

(* The inputs are non-empty sequences: `split('.')` yields a first token.   *)
LEMMA Lengths ==
  ASSUME TypeOK
  PROVE  /\ Len(pattern_tokens) \in Nat \ {0}
         /\ Len(subject_tokens) \in Nat \ {0}
BY SubjectsAssumption DEF TypeOK

(* Before the first iteration nothing has been accepted or refused.         *)
LEMMA StartsInv == Init => LoopInv
<1> SUFFICES ASSUME Init PROVE LoopInv
  OBVIOUS
<1>1. TypeOK
  BY SubjectsAssumption DEF Init, TypeOK
<1> QED
  BY <1>1 DEF Init, LoopInv, MatchesIsFits

(* An iteration that accepts the token keeps the loop invariant.            *)
LEMMA ConsumeInv ==
  ASSUME LoopInv, InLoop, Consume,
         subject_index <= Len(subject_tokens),
         TokenFits(Token, subject_tokens[subject_index])
  PROVE  LoopInv'
<1>1. /\ Len(pattern_tokens) \in Nat \ {0}
      /\ Len(subject_tokens) \in Nat \ {0}
  BY Lengths DEF LoopInv
<1>2. TypeOK'
  BY <1>1 DEF LoopInv, TypeOK, InLoop, Consume
<1>3. (subject_index = pattern_index)'
  BY DEF LoopInv, Consume
<1>4. (\A i \in 1..(pattern_index - 1) :
         TokenFits(pattern_tokens[i], subject_tokens[i]))'
  BY DEF LoopInv, TypeOK, Consume, Token, TokenFits
<1>5. MatchesIsFits'
  BY DEF InLoop, Consume, MatchesIsFits
<1> QED
  BY <1>2, <1>3, <1>4, <1>5 DEF LoopInv

(* Returning the right answer keeps the loop invariant.                     *)
LEMMA ReturnInv ==
  ASSUME LoopInv,
         NEW answer \in BOOLEAN,
         Return(answer),
         answer = Fits(pattern_tokens, subject_tokens)
  PROVE  LoopInv'
<1>1. Fits(pattern_tokens, subject_tokens)'
        = Fits(pattern_tokens, subject_tokens)
  BY DEF Return
<1>2. MatchesIsFits'
  BY <1>1 DEF Return, MatchesIsFits
<1> QED
  BY <1>2 DEF LoopInv, TypeOK, Return, TokenFits

(* Each arm returns the rule's verdict or accepts the token and goes on.    *)
LEMMA StepInv == LoopInv /\ [Next]_vars => LoopInv'
<1> SUFFICES ASSUME LoopInv, [Next]_vars PROVE LoopInv'
  OBVIOUS
<1> DEFINE n == Len(pattern_tokens)
           m == Len(subject_tokens)
<1>1. n \in Nat \ {0} /\ m \in Nat \ {0}
  BY Lengths DEF LoopInv
<1>2. /\ pattern_index \in 1..(n + 1)
      /\ subject_index = pattern_index
      /\ \A i \in 1..(pattern_index - 1) :
           TokenFits(pattern_tokens[i], subject_tokens[i])
  BY DEF LoopInv, TypeOK
<1>3. CASE RestArm
  <2>1. (/\ pattern_index = n
         /\ subject_index <= m) = Fits(pattern_tokens, subject_tokens)
    <3>1. ~TokenFits(pattern_tokens[pattern_index],
                     subject_tokens[pattern_index])
      BY <1>3 DEF RestArm, Token, TokenFits
    <3>2. ASSUME pattern_index = n, subject_index <= m
          PROVE  Fits(pattern_tokens, subject_tokens)
      BY <1>1, <1>2, <1>3, <3>2 DEF RestArm, Token, Fits
    <3>3. ASSUME Fits(pattern_tokens, subject_tokens)
          PROVE  pattern_index = n /\ subject_index <= m
      BY <1>1, <1>2, <1>3, <3>1, <3>3 DEF RestArm, InLoop, Fits
    <3> QED
      BY <3>2, <3>3 DEF Fits
  <2> QED
    BY <1>3, <2>1, ReturnInv, Zenon DEF RestArm
<1>4. CASE StarArm
  <2>1. CASE subject_index > m
    <3>1. Fits(pattern_tokens, subject_tokens) = FALSE
      BY <1>1, <1>2, <1>4, <2>1 DEF StarArm, InLoop, Fits
    <3> QED
      BY <1>4, <2>1, <3>1, ReturnInv, Zenon DEF StarArm
  <2>2. CASE ~(subject_index > m)
    <3>1. TokenFits(Token, subject_tokens[subject_index])
      BY <1>4 DEF StarArm, TokenFits, Star, Rest
    <3> QED
      BY <1>1, <1>2, <1>4, <2>2, <3>1, ConsumeInv DEF StarArm
  <2> QED
    BY <2>1, <2>2
<1>5. CASE LiteralArm
  <2>1. CASE subject_index <= m /\ subject_tokens[subject_index] = Token
    <3>1. TokenFits(Token, subject_tokens[subject_index])
      BY <1>5, <2>1 DEF LiteralArm, TokenFits
    <3> QED
      BY <1>5, <2>1, <3>1, ConsumeInv DEF LiteralArm
  <2>2. CASE ~(subject_index <= m /\ subject_tokens[subject_index] = Token)
    <3>1. Fits(pattern_tokens, subject_tokens) = FALSE
      <4>1. CASE subject_index > m
        BY <1>1, <1>2, <1>5, <4>1 DEF LiteralArm, InLoop, Fits
      <4>2. CASE ~(subject_index > m)
        <5>1. ~TokenFits(pattern_tokens[pattern_index],
                         subject_tokens[pattern_index])
          BY <1>1, <1>2, <1>5, <2>2, <4>2 DEF LiteralArm, Token, TokenFits
        <5>2. pattern_tokens[pattern_index] # Rest
          BY <1>5 DEF LiteralArm, Token
        <5> QED
          BY <1>1, <1>2, <1>5, <5>1, <5>2 DEF LiteralArm, InLoop, Fits
      <4> QED
        BY <4>1, <4>2, Zenon
    <3> QED
      BY <1>5, <2>2, <3>1, ReturnInv, Zenon DEF LiteralArm
  <2> QED
    BY <2>1, <2>2
<1>6. CASE AfterLoop
  <2>1. pattern_index = n + 1
    BY <1>1, <1>2, <1>6 DEF AfterLoop
  <2>2. TokenFits(pattern_tokens[n], subject_tokens[n])
    BY <1>1, <1>2, <2>1
  <2>3. (subject_index = m + 1) = Fits(pattern_tokens, subject_tokens)
    <3>1. \A i \in 1..n : TokenFits(pattern_tokens[i], subject_tokens[i])
      BY <1>1, <1>2, <2>1
    <3>2. pattern_tokens[n] # Rest
      BY <2>2 DEF TokenFits
    <3>3. Fits(pattern_tokens, subject_tokens) <=> m = n
      BY <3>1, <3>2 DEF Fits
    <3>4. (subject_index = m + 1) <=> m = n
      BY <1>1, <1>2, <2>1
    <3>5. Fits(pattern_tokens, subject_tokens) \in BOOLEAN
      BY DEF Fits
    <3> QED
      BY <3>3, <3>4, <3>5, Zenon
  <2>4. Return(subject_index = m + 1)
    BY <1>6 DEF AfterLoop
  <2>5. (subject_index = m + 1) \in BOOLEAN
    OBVIOUS
  <2> HIDE DEF m
  <2> QED
    BY <2>3, <2>4, <2>5, ReturnInv, Zenon
<1>7. CASE UNCHANGED vars
  BY <1>7 DEF vars, LoopInv, TypeOK, MatchesIsFits
<1> QED
  BY <1>3, <1>4, <1>5, <1>6, <1>7 DEF Next

(* `matches` (router.rs) answers exactly by the wildcard rule, whatever the *)
(* pattern and the subject.                                                 *)
THEOREM MatchesCorrect == Spec => []MatchesIsFits
<1>1. LoopInv => MatchesIsFits
  BY DEF LoopInv
<1> QED
  BY <1>1, StartsInv, StepInv, PTL DEF Spec
=============================================================================
