---------------------------- MODULE MCNatsServer ----------------------------
(* A small instance of the embedded server: one client publishes, the other *)
(* subscribes, unsubscribes and publishes too.                              *)
EXTENDS NatsServer, TLC

CONSTANTS c1, c2

A == <<<<"a">>>>
B == <<<<"b">>>>
MCTopics == {A, B}
MCPatterns == {A, <<Star>>}

MCMessages ==
  c1 :> {[verb |-> "PUB", subject |-> A, payload |-> "data"],
         [verb |-> "PUB", subject |-> B, payload |-> "PING"]}
  @@ c2 :> {[verb |-> "SUB", sid |-> 1, subject |-> A],
            [verb |-> "SUB", sid |-> 2, subject |-> <<Star>>],
            [verb |-> "UNSUB", sid |-> 1],
            [verb |-> "CONNECT"],
            [verb |-> "EOF"],
            [verb |-> "PUB", subject |-> B, payload |-> "oversize"]}
MCMaxSent == c1 :> 2 @@ c2 :> 2
=============================================================================
