------------------------------- MODULE LawBook -------------------------------
(***************************************************************************)
(* What the type plane promises, with no statement, lock or copy in it.    *)
(* Each project has a book with one entry per epoch, written at its end by *)
(* a proposal that has its quorum at that moment.  What a proposal asks    *)
(* for is fixed when it is tabled, parties that back it keep backing it,   *)
(* and one that is closed is not opened again.                             *)
(***************************************************************************)
EXTENDS Naturals, Sequences, FiniteSets

CONSTANTS Parties, Projects, Proposals, None

VARIABLES
  text,     \* what each proposal asks for: [op, quorum], None before
  open,     \* the pending proposals
  backing,  \* the parties that approve of each
  book      \* per project, its entries: [prop, done]

vars == <<text, open, backing, book>>

Init ==
  /\ text = [x \in Proposals |-> None]
  /\ open = {}
  /\ backing = [x \in Proposals |-> {}]
  /\ book = [p \in Projects |-> <<>>]

Tabled(x) == text[x] # None

(* Whatever it asks for, it is new and alone.                              *)
Table(x) ==
  /\ ~Tabled(x)
  /\ Tabled(x)'
  /\ text' = [text EXCEPT ![x] = text'[x]]
  /\ open' = open \cup {x}
  /\ UNCHANGED <<backing, book>>

Back(x, u) ==
  /\ Tabled(x)
  /\ backing' = [backing EXCEPT ![x] = @ \cup {u}]
  /\ UNCHANGED <<text, open, book>>

Close(x) ==
  /\ Tabled(x)
  /\ open' = open \ {x}
  /\ UNCHANGED <<text, backing, book>>

(* An entry is written.  It is not done when a registration was refused,   *)
(* and then the proposal stays as it was.                                  *)
Enact(p, x, done) ==
  /\ Tabled(x)
  /\ Cardinality(backing[x]) >= text[x].quorum
  /\ done \/ text[x].op = "register"
  /\ book' = [book EXCEPT ![p] = Append(@, [prop |-> x, done |-> done])]
  /\ open' = IF done THEN open \ {x} ELSE open
  /\ UNCHANGED <<text, backing>>

Next ==
  \E x \in Proposals :
    \/ Table(x) \/ Close(x)
    \/ \E u \in Parties : Back(x, u)
    \/ \E p \in Projects, done \in BOOLEAN : Enact(p, x, done)

Spec == Init /\ [][Next]_vars
=============================================================================
