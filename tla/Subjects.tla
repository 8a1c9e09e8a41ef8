------------------------------ MODULE Subjects ------------------------------
(* NATS subjects.  A subject or a pattern is the sequence of its            *)
(* dot-separated tokens, and a token the sequence of its characters; a      *)
(* keyword of the protocol is written as one character.                     *)
EXTENDS Naturals, Sequences

Star == <<"*">>
Rest == <<">">>

(* A pattern token other than ">" accepts a subject token.                  *)
TokenFits(p, s) == p # Rest /\ (p = Star \/ p = s)

(* Which subjects a pattern stands for: "*" is any one token, a final ">"   *)
(* one or more.  The bundled broker enforces grants and subscriptions by    *)
(* this rule; Router shows that the embedded server's loop computes it.     *)
Fits(pattern, subject) ==
  LET n == Len(pattern)
      Prefix(k) == \A i \in 1..k : TokenFits(pattern[i], subject[i])
  IN  \/ Len(subject) = n /\ Prefix(n)
      \/ pattern[n] = Rest /\ Len(subject) >= n /\ Prefix(n - 1)
=============================================================================
