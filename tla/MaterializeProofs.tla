------------------------- MODULE MaterializeProofs --------------------------
(* For any readers, concepts, items and bounds, and one sealing session:    *)
(* what a fresh pointer names is what is sealed.                            *)
(*                                                                          *)
(* The argument.  Seals commit in the order of their seq, so that a seal in *)
(* the scope of a concept lifts its watermark above every watermark anyone  *)
(* has read.  Whatever is built under the name n was built after the        *)
(* watermark reached n, and so covers what was sealed up to n; and while    *)
(* the watermark is n it holds nothing else.  A pointer that is never put   *)
(* back names a graph at least as high as its own watermark, which is the   *)
(* current one when the pointer is fresh.                                   *)
EXTENDS Materialize, TLAPS

(* The watermark, and what a build contributes, for the seals sd.           *)
High(sd, c) == Max({sd[i] : i \in Scope[c]} \cup {0})
Content(sd, c) == {<<i, sd[i]>> : i \in {j \in Scope[c] : sd[j] > 0}}
HasHigh(sd, c) ==
  \E h \in {sd[i] : i \in Scope[c]} \cup {0} : \A i \in Scope[c] : sd[i] <= h

(* A seal of item i that commits above all others.                          *)
Lifts(sd, sd2, i, q) ==
  sd2 = [sd EXCEPT ![i] = q] /\ \A j \in Items : sd[j] < q

(* A graph named n with the contributions G, for a call that read w first.  *)
Sound(sd, sb, c, w, n, G) ==
  /\ n \in Nat /\ n <= High(sd, c)
  /\ \A i \in Scope[c] : sd[i] \in 1..n => <<i, sd[i]>> \in G
  /\ n = High(sd, c) => G \subseteq Content(sd, c)
  /\ c \notin sb => w <= n

-----------------------------------------------------------------------------
(* The watermark is the largest seq in scope.                               *)
LEMMA HighIsMax ==
  ASSUME NEW sd \in [Items -> Nat], NEW c \in Concepts, HasHigh(sd, c)
  PROVE  /\ High(sd, c) \in {sd[i] : i \in Scope[c]} \cup {0}
         /\ High(sd, c) \in Nat
         /\ \A i \in Scope[c] : sd[i] <= High(sd, c)
<1> DEFINE S == {sd[i] : i \in Scope[c]} \cup {0}
<1>1. S \subseteq Nat
  BY ScopeAssumption
<1>2. \E h \in S : \A y \in S : h >= y
  BY <1>1 DEF HasHigh
<1>3. High(sd, c) \in S /\ \A y \in S : High(sd, c) >= y
  BY <1>2, Zenon DEF High, Max
<1> QED
  BY <1>1, <1>3

(* A bound that occurs is the watermark.                                    *)
LEMMA HighUnique ==
  ASSUME NEW sd \in [Items -> Nat], NEW c \in Concepts,
         NEW h \in {sd[i] : i \in Scope[c]} \cup {0},
         \A i \in Scope[c] : sd[i] <= h
  PROVE  HasHigh(sd, c) /\ High(sd, c) = h
<1>1. HasHigh(sd, c)
  BY Zenon DEF HasHigh
<1>2. h \in Nat
  BY ScopeAssumption
<1>3. h <= High(sd, c) /\ High(sd, c) <= h
  BY <1>1, <1>2, HighIsMax
<1> QED
  BY <1>1, <1>2, <1>3, HighIsMax

(* A seal that commits above all others lifts the watermark of the scopes   *)
(* its item is in, and leaves the others alone.                             *)
LEMMA SealedHigh ==
  ASSUME NEW sd \in [Items -> Nat], NEW i \in Items, NEW q \in Nat,
         NEW sd2, Lifts(sd, sd2, i, q),
         NEW c \in Concepts, HasHigh(sd, c)
  PROVE  /\ HasHigh(sd2, c)
         /\ High(sd, c) < q
         /\ i \in Scope[c] => High(sd2, c) = q
         /\ i \notin Scope[c] =>
              High(sd2, c) = High(sd, c) /\ Content(sd2, c) = Content(sd, c)
<1>1. Scope[c] \subseteq Items /\ sd2 \in [Items -> Nat]
  BY ScopeAssumption DEF Lifts
<1>2. High(sd, c) < q
  BY <1>1, HighIsMax DEF Lifts
<1>3. CASE i \in Scope[c]
  <2>1. q \in {sd2[j] : j \in Scope[c]} \cup {0}
    BY <1>1, <1>3 DEF Lifts
  <2>2. \A j \in Scope[c] : sd2[j] <= q
    BY <1>1 DEF Lifts
  <2> QED
    BY <1>1, <1>2, <1>3, <2>1, <2>2, HighUnique
<1>4. CASE i \notin Scope[c]
  <2>1. \A j \in Scope[c] : sd2[j] = sd[j]
    BY <1>1, <1>4 DEF Lifts
  <2>2. {sd2[j] : j \in Scope[c]} = {sd[j] : j \in Scope[c]}
    BY <2>1
  <2>3. Content(sd2, c) = Content(sd, c)
    BY <2>1 DEF Content
  <2>4. High(sd2, c) = High(sd, c)
    BY <2>2, Zenon DEF High
  <2>5. HasHigh(sd2, c)
    BY <2>1, <2>2, Zenon DEF HasHigh
  <2> QED
    BY <1>2, <1>4, <2>3, <2>4, <2>5
<1> QED
  BY <1>3, <1>4

(* It leaves what was said of a graph true.                                 *)
LEMMA SealedSound ==
  ASSUME NEW sd \in [Items -> Nat], NEW i \in Items, NEW q \in Nat,
         NEW sd2, Lifts(sd, sd2, i, q),
         NEW c \in Concepts, HasHigh(sd, c),
         NEW sb, NEW w, NEW n, NEW G, Sound(sd, sb, c, w, n, G)
  PROVE  Sound(sd2, sb, c, w, n, G)
<1>1. Scope[c] \subseteq Items
  BY ScopeAssumption
<1>2. /\ High(sd, c) < q
      /\ i \in Scope[c] => High(sd2, c) = q
      /\ i \notin Scope[c] =>
           High(sd2, c) = High(sd, c) /\ Content(sd2, c) = Content(sd, c)
  BY SealedHigh
<1>3. High(sd, c) \in Nat
  BY HighIsMax
<1>4. n \in Nat /\ n <= High(sd, c) /\ n < q
  BY <1>2, <1>3 DEF Sound
<1>5. \A j \in Scope[c] : sd2[j] \in 1..n => <<j, sd2[j]>> \in G
  BY <1>1, <1>4 DEF Sound, Lifts
<1>6. n <= High(sd2, c)
  BY <1>2, <1>3, <1>4
<1>7. n = High(sd2, c) => G \subseteq Content(sd2, c)
  BY <1>2, <1>4 DEF Sound
<1> QED
  BY <1>4, <1>5, <1>6, <1>7 DEF Sound

(* More contributions are no harm, as long as they are sealed.              *)
LEMMA MoreSound ==
  ASSUME NEW sd, NEW sb, NEW c, NEW w, NEW n, NEW G, Sound(sd, sb, c, w, n, G),
         NEW sb2, sb \subseteq sb2, NEW G2, G \subseteq G2,
         n = High(sd, c) => G2 \subseteq Content(sd, c)
  PROVE  Sound(sd, sb2, c, w, n, G2)
BY DEF Sound

(* Nor is a call that read a lower watermark.                               *)
LEMMA LowerSound ==
  ASSUME NEW sd, NEW sb, NEW c, NEW w \in Nat, NEW n, NEW G, Sound(sd, sb, c, w, n, G),
         NEW v \in Nat, c \notin sb => v <= w
  PROVE  Sound(sd, sb, c, v, n, G)
<1>1. n \in Nat
  BY Zenon DEF Sound
<1>2. c \notin sb => v <= n
  BY <1>1 DEF Sound
<1> QED
  BY <1>2, Zenon DEF Sound

-----------------------------------------------------------------------------
(* The invariant.                                                           *)

SoleSealer == \A s, t \in Sealers : s = t

Phases == {"idle", "called", "stale", "named", "build", "return", "built",
           "published", "found"}
Pointer == [graph : Nat, watermark : Nat, valid : BOOLEAN]
Call == [concept : Concepts, wm : Nat, name : Nat \cup {None},
         giri : Nat \cup {None}, rows : SUBSET (Items \X Nat),
         found : Nat \cup {None}]

Typed ==
  /\ sealed \in [Items -> Nat] /\ seq \in 0..MaxSeq
  /\ sealing \in [Sealers -> [item : Items, seq : Nat] \cup {None}]
  /\ ptr \in [Concepts -> Pointer \cup {None}]
  /\ graph \in [Names -> SUBSET (Items \X Nat)]
  /\ pc \in [Procs -> Phases]
  /\ call \in [Procs -> Call \cup {None}]
  /\ \A x \in Procs : pc[x] # "idle" => call[x] \in Call
  /\ clean \subseteq Readers /\ setBack \subseteq Concepts

(* A row that is yet to be committed is above all that are.                 *)
Numbered ==
  /\ \A i \in Items : sealed[i] <= seq
  /\ \A s \in Sealers : sealing[s] # None =>
       sealing[s].seq <= seq /\ \A i \in Items : sealed[i] < sealing[s].seq
  /\ \A c \in Concepts : HasHigh(sealed, c)

(* Graphs above the watermark are empty.                                    *)
GraphOK(sd, c, n, G) ==
  /\ n > High(sd, c) => G = {}
  /\ n = High(sd, c) => G \subseteq Content(sd, c)

PtrOK(sd, sb, gr, c, p) ==
  p # None =>
    /\ p.watermark <= High(sd, c)
    /\ Sound(sd, sb, c, p.watermark, p.graph, gr[<<c, p.graph>>])

(* A call k in phase h, beside the pointer p of its concept.                *)
CallOK(sd, sb, gr, p, k, h) ==
  /\ k.wm <= High(sd, k.concept)
  /\ k.name # None => k.wm <= k.name /\ k.name <= High(sd, k.concept)
  /\ h \in {"named", "build", "return"} => k.name # None
  /\ h \in {"called", "stale", "named", "build", "return"} => k.giri = None
  /\ h = "built" => k.giri # None
  /\ h = "found" => k.found # None
  /\ h # "found" => k.found = None
  /\ k.giri = None => k.rows = {}
  /\ k.giri # None =>
       Sound(sd, sb, k.concept, k.wm, k.giri, gr[<<k.concept, k.giri>>] \cup k.rows)
  /\ k.found # None =>
       Sound(sd, sb, k.concept, k.wm, k.found, gr[<<k.concept, k.found>>] \cup k.rows)
  /\ h = "return" =>
       p # None /\ (k.concept \notin sb => k.name <= p.watermark)
  /\ h = "published" /\ k.giri = None =>
       p # None /\ (k.concept \notin sb => k.wm <= p.watermark)

Inv ==
  /\ Typed
  /\ Numbered
  /\ \A c \in Concepts, n \in 0..MaxSeq : GraphOK(sealed, c, n, graph[<<c, n>>])
  /\ \A c \in Concepts : PtrOK(sealed, setBack, graph, c, ptr[c])
  /\ \A x \in Procs : pc[x] # "idle" =>
       CallOK(sealed, setBack, graph, ptr[call[x].concept], call[x], pc[x])
  /\ \A r \in clean :
       pc[r] # "idle" /\ call[r].wm = High(sealed, call[r].concept)

-----------------------------------------------------------------------------
(* Watermarks do not exceed the bound.                                      *)
LEMMA HighBound ==
  ASSUME Inv, NEW c \in Concepts
  PROVE  /\ High(sealed, c) \in 0..MaxSeq
         /\ Watermark(c) = High(sealed, c) /\ Rows(c) = Content(sealed, c)
<1>1. sealed \in [Items -> Nat] /\ HasHigh(sealed, c)
  BY DEF Inv, Typed, Numbered
<1>2. High(sealed, c) \in {sealed[i] : i \in Scope[c]} \cup {0}
  BY <1>1, HighIsMax
<1>3. \A i \in Scope[c] : sealed[i] \in 0..MaxSeq
  BY <1>1, ScopeAssumption, BoundsAssumption DEF Inv, Typed, Numbered
<1>4. High(sealed, c) \in 0..MaxSeq
  BY <1>2, <1>3, BoundsAssumption
<1> QED
  BY <1>4, Zenon DEF Watermark, High, Rows, Content

(* A step of one process that touches its own call only.                    *)
LEMMA LocalFrame ==
  ASSUME Inv, NEW x \in Procs, UNCHANGED <<source, ptr, graph, setBack>>,
         NEW h \in Phases, NEW k \in Call \cup {None},
         pc' = [pc EXCEPT ![x] = h], call' = [call EXCEPT ![x] = k],
         h # "idle" => /\ k \in Call
                       /\ CallOK(sealed, setBack, graph, ptr[k.concept], k, h),
         clean' \subseteq Readers, clean' \subseteq clean \cup {x},
         x \in clean' => h # "idle" /\ k.wm = High(sealed, k.concept)
  PROVE  Inv'
<1>1. /\ sealed' = sealed /\ seq' = seq /\ sealing' = sealing
      /\ ptr' = ptr /\ graph' = graph /\ setBack' = setBack
  BY DEF source
<1>2. pc'[x] = h /\ call'[x] = k
  BY DEF Inv, Typed
<1>3. \A y \in Procs : y # x => pc'[y] = pc[y] /\ call'[y] = call[y]
  BY DEF Inv, Typed
<1>4. Typed'
  BY <1>1, <1>2, <1>3 DEF Inv, Typed
<1>5. Numbered'
  BY <1>1 DEF Inv, Numbered
<1>6. \A y \in Procs : pc'[y] # "idle" =>
        CallOK(sealed, setBack, graph, ptr[call'[y].concept], call'[y], pc'[y])
  BY <1>2, <1>3 DEF Inv
<1>7. \A r \in clean' :
        pc'[r] # "idle" /\ call'[r].wm = High(sealed, call'[r].concept)
  BY <1>2, <1>3 DEF Inv, Procs
<1> QED
  BY <1>1, <1>4, <1>5, <1>6, <1>7, Zenon DEF Inv

(* Beginning a call reads the watermark.                                    *)
LEMMA BeginStep ==
  ASSUME Inv, NEW x \in Procs, NEW c \in Concepts, NEW h \in {"called", "stale"},
         UNCHANGED <<source, ptr, graph, setBack>>,
         pc' = [pc EXCEPT ![x] = h], call' = [call EXCEPT ![x] = Started(c)],
         clean' \subseteq Readers, clean' \subseteq clean \cup {x}
  PROVE  Inv'
<1> DEFINE k == Started(c)
<1>1. Watermark(c) = High(sealed, c) /\ High(sealed, c) \in Nat
  BY HighBound
<1>2. k = [concept |-> c, wm |-> High(sealed, c), name |-> None, giri |-> None,
           rows |-> {}, found |-> None]
  BY <1>1 DEF Started
<1>3. k \in Call
  BY <1>1, <1>2 DEF Call
<1>4. /\ k.concept = c /\ k.wm = High(sealed, c) /\ k.name = None
      /\ k.giri = None /\ k.rows = {} /\ k.found = None
  BY <1>2
<1> HIDE DEF k
<1>5. CallOK(sealed, setBack, graph, ptr[k.concept], k, h)
  BY <1>1, <1>4 DEF CallOK
<1>6. h \in Phases /\ h # "idle" /\ call' = [call EXCEPT ![x] = k]
  BY DEF Phases, k
<1> QED
  BY <1>3, <1>4, <1>5, <1>6, LocalFrame, Zenon

(* Ending a call without a commit leaves nothing behind.                    *)
LEMMA EndStep ==
  ASSUME Inv, NEW x \in Procs, Ended(x),
         UNCHANGED <<source, ptr, graph, setBack>>, clean' = clean \ {x}
  PROVE  Inv'
<1>1. "idle" \in Phases /\ None \in Call \cup {None} /\ clean' \subseteq Readers
  BY DEF Phases, Inv, Typed
<1> QED
  BY <1>1, LocalFrame, Zenon DEF Ended

(* A call in progress moves on to phase h with fields k.                    *)
LEMMA MoveStep ==
  ASSUME Inv, NEW x \in Procs, pc[x] # "idle",
         NEW h \in Phases \ {"idle"}, NEW k \in Call,
         pc' = [pc EXCEPT ![x] = h], call' = [call EXCEPT ![x] = k],
         k.concept = call[x].concept, k.wm = call[x].wm,
         CallOK(sealed, setBack, graph, ptr[k.concept], k, h),
         UNCHANGED <<source, ptr, graph, history>>
  PROVE  Inv'
<1>1. clean' = clean /\ setBack' = setBack
  BY DEF history
<1>2. x \in clean => k.wm = High(sealed, k.concept)
  BY DEF Inv
<1>3. clean \subseteq Readers
  BY DEF Inv, Typed
<1> QED
  BY <1>1, <1>2, <1>3, LocalFrame, Zenon

(* A pointer taken for fresh is no older than the call.                     *)
LEMMA CheckFreshStep ==
  ASSUME Inv, NEW r \in Procs, CheckFresh(r)
  PROVE  Inv'
<1> DEFINE k == call[r]
           h == IF PhenotypeFresh(k.concept, k.wm) THEN "published" ELSE "stale"
<1>1. pc[r] = "called" /\ k \in Call
  BY DEF CheckFresh, Inv, Typed
<1>2. CallOK(sealed, setBack, graph, ptr[k.concept], k, "called")
  BY <1>1 DEF Inv
<1>3. pc' = [pc EXCEPT ![r] = h] /\ UNCHANGED <<source, ptr, graph, history>>
  BY DEF CheckFresh, store
<1>4. call' = [call EXCEPT ![r] = k]
  BY DEF CheckFresh, Inv, Typed
<1>5. k.wm \in Nat /\ k.concept \in Concepts
  BY <1>1, Zenon DEF Call
<1>6. CallOK(sealed, setBack, graph, ptr[k.concept], k, h)
  BY <1>2, <1>5 DEF CallOK, PhenotypeFresh
<1>7. h \in Phases \ {"idle"}
  BY Zenon DEF Phases
<1> HIDE DEF k, h
<1> QED
  BY <1>1, <1>3, <1>4, <1>6, <1>7, MoveStep, ZenonT(30) DEF k

(* The second look at the watermark is no older than the first.             *)
LEMMA NameStep ==
  ASSUME Inv, NEW x \in Procs, NameGraph(x)
  PROVE  Inv'
<1> DEFINE o == call[x]
           k == [o EXCEPT !.name = Watermark(o.concept)]
<1>1. pc[x] = "stale" /\ o \in Call /\ o.concept \in Concepts
  BY Zenon DEF NameGraph, Inv, Typed, Call
<1>2. CallOK(sealed, setBack, graph, ptr[o.concept], o, "stale")
  BY <1>1, Zenon DEF Inv
<1>3. Watermark(o.concept) = High(sealed, o.concept) /\ High(sealed, o.concept) \in Nat
  BY <1>1, HighBound
<1>4. /\ k \in Call
      /\ k.concept = o.concept /\ k.wm = o.wm /\ k.giri = o.giri /\ k.rows = o.rows
      /\ k.found = o.found /\ k.name = High(sealed, o.concept)
  BY <1>1, <1>3 DEF Call
<1>5. /\ pc' = [pc EXCEPT ![x] = "named"] /\ call' = [call EXCEPT ![x] = k]
      /\ UNCHANGED <<source, ptr, graph, history>>
  BY DEF NameGraph, store, Inv, Typed
<1>6. "named" \in Phases \ {"idle"}
  BY Zenon DEF Phases
<1> HIDE DEF k
<1>7. CallOK(sealed, setBack, graph, ptr[k.concept], k, "named")
  BY <1>2, <1>3, <1>4, NoneAssumption DEF CallOK
<1> QED
  BY <1>1, <1>4, <1>5, <1>6, <1>7, MoveStep, Zenon

(* Behind the lock, the pointer found is the one looked for.                *)
LEMMA EnterStep ==
  ASSUME Inv, NEW x \in Procs, Enter(x)
  PROVE  Inv'
<1> DEFINE k == call[x]
           h == IF ptr[k.concept] # None /\ ptr[k.concept].watermark = k.name
                THEN "return" ELSE "build"
<1>1. pc[x] = "named" /\ k \in Call
  BY DEF Enter, Inv, Typed
<1>2. CallOK(sealed, setBack, graph, ptr[k.concept], k, "named")
  BY <1>1 DEF Inv
<1>3. pc' = [pc EXCEPT ![x] = h] /\ UNCHANGED <<source, ptr, graph, history>>
  BY DEF Enter, store
<1>4. call' = [call EXCEPT ![x] = k]
  BY DEF Enter, Inv, Typed
<1>5. k.name \in Nat \cup {None}
  BY <1>1, Zenon DEF Call
<1>6. CallOK(sealed, setBack, graph, ptr[k.concept], k, h)
  BY <1>2, <1>5 DEF CallOK
<1>7. h \in Phases \ {"idle"}
  BY Zenon DEF Phases
<1> HIDE DEF k, h
<1> QED
  BY <1>1, <1>3, <1>4, <1>6, <1>7, MoveStep, Zenon DEF k

(* A call that finds the graph built takes over the pointer it then reads.  *)
LEMMA ReturnStep ==
  ASSUME Inv, NEW x \in Procs, Return(x)
  PROVE  Inv'
<1> DEFINE o == call[x]
           c == o.concept
           p == ptr[c]
           k == [o EXCEPT !.giri = p.graph]
<1>1. pc[x] = "return" /\ o \in Call /\ c \in Concepts
  BY Zenon DEF Return, Inv, Typed, Call
<1>2. CallOK(sealed, setBack, graph, p, o, "return")
  BY <1>1, Zenon DEF Inv
<1>3. p # None /\ p \in Pointer /\ PtrOK(sealed, setBack, graph, c, p)
  BY <1>1, <1>2, Zenon DEF CallOK, Inv, Typed
<1>4. p.graph \in Nat /\ p.watermark \in Nat
  BY <1>3 DEF Pointer
<1>5. /\ k \in Call
      /\ k.concept = c /\ k.wm = o.wm /\ k.giri = p.graph /\ k.rows = o.rows
      /\ k.found = o.found /\ k.name = o.name
  BY <1>1, <1>4, Zenon DEF Call
<1>6. /\ o.wm \in Nat /\ o.name \in Nat /\ o.wm <= o.name /\ o.rows = {}
      /\ o.found = None /\ (c \notin setBack => o.name <= p.watermark)
  BY <1>1, <1>2, ZenonT(30) DEF CallOK, Call
<1>7. Sound(sealed, setBack, c, p.watermark, p.graph, graph[<<c, p.graph>>])
  BY <1>3, ZenonT(60) DEF PtrOK
<1>8. Sound(sealed, setBack, c, o.wm, p.graph, graph[<<c, p.graph>>] \cup o.rows)
  <2>1. Sound(sealed, setBack, c, o.wm, p.graph, graph[<<c, p.graph>>])
    <3>1. c \notin setBack => o.wm <= p.watermark
      BY <1>4, <1>6
    <3> QED
      BY <1>4, <1>6, <1>7, <3>1, LowerSound, ZenonT(60)
  <2> QED
    BY <1>6, <2>1
<1>9. /\ pc' = [pc EXCEPT ![x] = "built"] /\ call' = [call EXCEPT ![x] = k]
      /\ UNCHANGED <<source, ptr, graph, history>>
  BY DEF Return, store, Inv, Typed
<1>10. "built" \in Phases \ {"idle"}
  BY ZenonT(60) DEF Phases
<1> HIDE DEF k
<1>11. CallOK(sealed, setBack, graph, ptr[k.concept], k, "built")
  BY <1>2, <1>4, <1>5, <1>6, <1>8, NoneAssumption DEF CallOK
<1> QED
  BY <1>1, <1>5, <1>9, <1>10, <1>11, MoveStep, ZenonT(30)

(* A graph is built after the watermark has reached its name.               *)
LEMMA BuildStep ==
  ASSUME Inv, NEW x \in Procs, Build(x)
  PROVE  Inv'
<1> DEFINE o == call[x]
           c == o.concept
           k == [o EXCEPT !.giri = o.name, !.rows = Rows(c)]
<1>1. pc[x] = "build" /\ o \in Call /\ c \in Concepts
  BY Zenon DEF Build, Inv, Typed, Call
<1>2. CallOK(sealed, setBack, graph, ptr[c], o, "build")
  BY <1>1 DEF Inv
<1>3. Rows(c) = Content(sealed, c) /\ High(sealed, c) \in 0..MaxSeq
  BY <1>1, HighBound
<1>4. Scope[c] \subseteq Items /\ sealed \in [Items -> Nat]
  BY <1>1, ScopeAssumption DEF Inv, Typed
<1>5. Rows(c) \subseteq Items \X Nat
  BY <1>3, <1>4 DEF Content
<1>6. o.name \in Nat /\ o.wm \in Nat /\ o.wm <= o.name /\ o.name <= High(sealed, c)
      /\ o.found = None
  BY <1>1, <1>2 DEF CallOK, Call
<1>7. /\ k \in Call
      /\ k.concept = c /\ k.wm = o.wm /\ k.giri = o.name /\ k.rows = Rows(c)
      /\ k.found = None /\ k.name = o.name
  BY <1>1, <1>5, <1>6, Zenon DEF Call
<1>8. o.name = High(sealed, c) => graph[<<c, o.name>>] \subseteq Content(sealed, c)
  BY <1>1, <1>3 DEF Inv, GraphOK
<1>9. \A i \in Scope[c] : sealed[i] \in 1..o.name => <<i, sealed[i]>> \in Rows(c)
  BY <1>3, <1>4, <1>6 DEF Content
<1>10. Sound(sealed, setBack, c, o.wm, o.name, graph[<<c, o.name>>] \cup Rows(c))
  BY <1>3, <1>6, <1>8, <1>9 DEF Sound
<1>11. /\ pc' = [pc EXCEPT ![x] = "built"] /\ call' = [call EXCEPT ![x] = k]
       /\ UNCHANGED <<source, ptr, graph, history>>
  BY ZenonT(60) DEF Build, store, Inv, Typed
<1>12. "built" \in Phases \ {"idle"}
  BY ZenonT(30) DEF Phases
<1> HIDE DEF k
<1>13. CallOK(sealed, setBack, graph, ptr[k.concept], k, "built")
  BY <1>2, <1>6, <1>7, <1>10, NoneAssumption DEF CallOK
<1> QED
  BY <1>1, <1>7, <1>11, <1>12, <1>13, MoveStep, Zenon

(* Publishing waits for the row, and changes nothing others can see yet.    *)
LEMMA PublishStep ==
  ASSUME Inv, NEW x \in Procs, Publish(x)
  PROVE  Inv'
<1> DEFINE k == call[x]
<1>1. pc[x] = "built" /\ k \in Call
  BY Zenon DEF Publish, Inv, Typed
<1>2. CallOK(sealed, setBack, graph, ptr[k.concept], k, "built")
  BY <1>1, Zenon DEF Inv
<1>3. /\ pc' = [pc EXCEPT ![x] = "published"] /\ call' = [call EXCEPT ![x] = k]
      /\ UNCHANGED <<source, ptr, graph, history>>
  BY Zenon DEF Publish, store, Inv, Typed
<1>4. CallOK(sealed, setBack, graph, ptr[k.concept], k, "published")
  BY <1>2 DEF CallOK
<1>5. "published" \in Phases \ {"idle"}
  BY Zenon DEF Phases
<1> HIDE DEF k
<1> QED
  BY <1>1, <1>3, <1>4, <1>5, MoveStep, ZenonT(60) DEF k

(* The pointer a reader looks up is its own, or has not gone back since it  *)
(* was fresh.                                                               *)
LEMMA LookUpStep ==
  ASSUME Inv, NEW r \in Procs, LookUp(r)
  PROVE  Inv'
<1> DEFINE o == call[r]
           c == o.concept
           p == ptr[c]
           g == IF Publishes(r) THEN o.giri ELSE p.graph
           k == [o EXCEPT !.found = g]
<1>1. pc[r] = "published" /\ o \in Call /\ c \in Concepts
  BY DEF LookUp, Inv, Typed, Call
<1>2. CallOK(sealed, setBack, graph, p, o, "published")
  BY <1>1 DEF Inv
<1>3. o.wm \in Nat /\ o.giri \in Nat \cup {None}
  BY <1>1 DEF Call
<1>4. g \in Nat /\ Sound(sealed, setBack, c, o.wm, g, graph[<<c, g>>] \cup o.rows)
  <2>1. CASE Publishes(r)
    BY <1>2, <1>3, <2>1, Zenon DEF CallOK, Publishes
  <2>2. CASE ~Publishes(r)
    <3>1. o.giri = None /\ o.rows = {} /\ p # None
      BY <1>1, <1>2, <2>2, Zenon DEF Publishes, CallOK
    <3>2. c \notin setBack => o.wm <= p.watermark
      BY <1>2, <3>1 DEF CallOK
    <3>3. p \in Pointer /\ PtrOK(sealed, setBack, graph, c, p)
      BY <1>1, <3>1 DEF Inv, Typed
    <3>4. p.graph \in Nat /\ p.watermark \in Nat
      BY <3>3, Zenon DEF Pointer
    <3>5. Sound(sealed, setBack, c, p.watermark, p.graph, graph[<<c, p.graph>>])
      BY <3>1, <3>3 DEF PtrOK
    <3>6. Sound(sealed, setBack, c, o.wm, p.graph, graph[<<c, p.graph>>])
      BY <1>3, <3>2, <3>4, <3>5, LowerSound, Zenon
    <3> QED
      BY <2>2, <3>1, <3>4, <3>6
  <2> QED
    BY <2>1, <2>2
<1>5. call' = [call EXCEPT ![r] = k]
  BY DEF LookUp, Inv, Typed
<1>6. pc' = [pc EXCEPT ![r] = "found"] /\ UNCHANGED <<source, ptr, graph, history>>
  BY DEF LookUp, store
<1> HIDE DEF g
<1>7. /\ k \in Call
      /\ k.concept = c /\ k.wm = o.wm /\ k.giri = o.giri /\ k.rows = o.rows
      /\ k.found = g /\ k.name = o.name
  BY <1>1, <1>4 DEF Call
<1>8. "found" \in Phases \ {"idle"}
  BY Zenon DEF Phases
<1> HIDE DEF k
<1>9. CallOK(sealed, setBack, graph, ptr[k.concept], k, "found")
  BY <1>2, <1>4, <1>7, NoneAssumption, Zenon DEF CallOK
<1> QED
  BY <1>1, <1>5, <1>6, <1>7, <1>8, <1>9, MoveStep, ZenonT(30)

(* A graph somebody else adds to under its name.                            *)
LEMMA GrownSound ==
  ASSUME NEW sd, NEW sb, NEW c, NEW w, NEW n, NEW G, NEW R,
         Sound(sd, sb, c, w, n, G \cup R),
         NEW sb2, sb \subseteq sb2, NEW A,
         n = High(sd, c) => A \subseteq Content(sd, c)
  PROVE  Sound(sd, sb2, c, w, n, (G \cup A) \cup R)
<1>1. n = High(sd, c) => (G \cup A) \cup R \subseteq Content(sd, c)
  BY DEF Sound
<1> QED
  BY <1>1, MoreSound

(* A commit publishes the pointer and adds the rows to the graph.  The      *)
(* calls in progress keep what they rely on.                                *)
LEMMA CommitStep ==
  ASSUME Inv, NEW x \in Procs, pc[x] # "idle", call[x].giri # None,
         Committed(x), Ended(x), UNCHANGED source, clean' = clean \ {x}
  PROVE  Inv'
<1> DEFINE k == call[x]
           e == k.concept
           m == <<e, k.giri>>
           q == [graph |-> k.giri, watermark |-> k.wm, valid |-> TRUE]
<1>1. /\ sealed' = sealed /\ seq' = seq /\ sealing' = sealing
  BY Zenon DEF source
<1>2. /\ k \in Call /\ e \in Concepts /\ k.wm \in Nat /\ k.giri \in Nat
      /\ k.rows \in SUBSET (Items \X Nat)
  BY Zenon DEF Inv, Typed, Call
<1>3. /\ k.wm <= High(sealed, e)
      /\ Sound(sealed, setBack, e, k.wm, k.giri, graph[m] \cup k.rows)
  BY ZenonT(60) DEF Inv, CallOK
<1>4. High(sealed, e) \in 0..MaxSeq
  BY <1>2, HighBound, Zenon
<1>5. k.giri \in 0..MaxSeq /\ m \in Names /\ k.giri <= High(sealed, e)
  BY <1>2, <1>3, <1>4, BoundsAssumption, SMTT(30) DEF Sound, Names
<1>6. k.giri = High(sealed, e) => k.rows \subseteq Content(sealed, e)
  BY <1>3, ZenonT(60) DEF Sound
<1>7. /\ graph' = [graph EXCEPT ![m] = graph[m] \cup k.rows]
      /\ ptr' = [ptr EXCEPT ![e] = q]
      /\ setBack' = setBack \cup {c \in {e} : ptr[c] # None /\ k.wm < ptr[c].watermark}
  BY Zenon DEF Committed, Name, Inv, Typed
<1>8. /\ graph'[m] = graph[m] \cup k.rows
      /\ \A n \in Names : n # m => graph'[n] = graph[n]
      /\ ptr'[e] = q /\ \A c \in Concepts : c # e => ptr'[c] = ptr[c]
  BY <1>2, <1>5, <1>7 DEF Inv, Typed
<1>9. /\ setBack \subseteq setBack'
      /\ \A c \in Concepts : c # e => (c \in setBack <=> c \in setBack')
      /\ e \notin setBack' => ptr[e] = None \/ ~(k.wm < ptr[e].watermark)
  BY <1>7
<1>10. /\ pc'[x] = "idle" /\ call'[x] = None
       /\ \A y \in Procs : y # x => pc'[y] = pc[y] /\ call'[y] = call[y]
  BY DEF Ended, Inv, Typed
<1>11. q \in Pointer /\ q.graph = k.giri /\ q.watermark = k.wm /\ q # None
  <2>1. q \in Pointer /\ q.graph = k.giri /\ q.watermark = k.wm
    BY <1>2, Zenon DEF Pointer
  <2> QED
    BY <2>1, NoneAssumption, ZenonT(60) DEF Pointer
<1> HIDE DEF q, k, e, m
<1>12. Typed'
  <2>1. ptr' \in [Concepts -> Pointer \cup {None}]
    BY <1>7, <1>11, Zenon DEF Inv, Typed
  <2>2. graph' \in [Names -> SUBSET (Items \X Nat)]
    <3>1. graph[m] \cup k.rows \in SUBSET (Items \X Nat)
      BY <1>2, <1>5, Zenon DEF Inv, Typed
    <3> QED
      BY <1>7, <3>1, ZenonT(60) DEF Inv, Typed
  <2>3. /\ pc' \in [Procs -> Phases] /\ call' \in [Procs -> Call \cup {None}]
        /\ \A y \in Procs : pc'[y] # "idle" => call'[y] \in Call
    BY <1>10, Zenon DEF Ended, Inv, Typed, Phases
  <2>4. clean' \subseteq Readers /\ setBack' \subseteq Concepts
    BY <1>2, <1>7, Zenon DEF Inv, Typed
  <2> QED
    BY <1>1, <2>1, <2>2, <2>3, <2>4, ZenonT(30) DEF Inv, Typed
<1>13. Numbered'
  BY <1>1 DEF Inv, Numbered
<1>14. ASSUME NEW c \in Concepts, NEW n \in 0..MaxSeq
       PROVE  GraphOK(sealed, c, n, graph'[<<c, n>>])
  <2>1. GraphOK(sealed, c, n, graph[<<c, n>>])
    BY DEF Inv
  <2>2. CASE <<c, n>> = m
    <3>1. c = e /\ n = k.giri
      BY <2>2 DEF m
    <3> QED
      BY <1>2, <1>4, <1>5, <1>6, <1>8, <2>1, <2>2, <3>1 DEF GraphOK
  <2>3. CASE <<c, n>> # m
    <3>1. graph'[<<c, n>>] = graph[<<c, n>>]
      BY <1>8, <2>3 DEF Names
    <3> QED
      BY <2>1, <3>1
  <2> QED
    BY <2>2, <2>3, Zenon
(* What is said of a graph before the commit holds after it.                *)
<1>15. ASSUME NEW c \in Concepts, NEW w, NEW n, NEW R,
              Sound(sealed, setBack, c, w, n, graph[<<c, n>>] \cup R)
       PROVE  Sound(sealed, setBack', c, w, n, graph'[<<c, n>>] \cup R)
  <2>1. n \in 0..MaxSeq
    <3>1. High(sealed, c) \in 0..MaxSeq
      BY HighBound
    <3> QED
      BY <1>15, <3>1, BoundsAssumption DEF Sound
  <2>2. CASE <<c, n>> = m
    <3>1. c = e /\ n = k.giri
      BY <2>2 DEF m
    <3>2. Sound(sealed, setBack', c, w, n, (graph[<<c, n>>] \cup k.rows) \cup R)
      BY <1>6, <1>9, <1>15, <3>1, GrownSound, Zenon
    <3> QED
      BY <1>8, <2>2, <3>2, Zenon
  <2>3. CASE <<c, n>> # m
    <3>1. graph'[<<c, n>>] = graph[<<c, n>>]
      BY <1>8, <2>1, <2>3 DEF Names
    <3> QED
      BY <1>9, <1>15, <3>1 DEF Sound
  <2> QED
    BY <2>2, <2>3
<1>16. ASSUME NEW c \in Concepts
       PROVE  PtrOK(sealed, setBack', graph', c, ptr'[c])
  <2>1. CASE c = e
    <3>1. Sound(sealed, setBack', e, k.wm, k.giri, graph'[m] \cup k.rows)
      BY <1>2, <1>3, <1>15, Zenon DEF m
    <3>2. graph'[m] \cup k.rows = graph'[m]
      BY <1>8
    <3> QED
      BY <1>3, <1>8, <1>11, <2>1, <3>1, <3>2, ZenonT(60) DEF PtrOK, m
  <2>2. CASE c # e
    <3>1. ptr'[c] = ptr[c] /\ PtrOK(sealed, setBack, graph, c, ptr[c])
      BY <1>8, <2>2, Zenon DEF Inv
    <3>2. CASE ptr[c] # None
      <4> DEFINE p == ptr[c]
                 G == graph[<<c, p.graph>>]
                 H == graph'[<<c, p.graph>>]
      <4>1. G = G \cup {} /\ H = H \cup {}
        BY Zenon
      <4>2. Sound(sealed, setBack, c, p.watermark, p.graph, G \cup {})
        BY <3>1, <3>2, <4>1 DEF PtrOK
      <4>3. Sound(sealed, setBack', c, p.watermark, p.graph, H \cup {})
        BY <1>15, <4>2, ZenonT(30)
      <4> QED
        BY <3>1, <3>2, <4>1, <4>3 DEF PtrOK
    <3> QED
      BY <3>1, <3>2 DEF PtrOK
  <2> QED
    BY <2>1, <2>2
<1>17. ASSUME NEW y \in Procs, pc'[y] # "idle"
       PROVE  CallOK(sealed, setBack', graph', ptr'[call'[y].concept], call'[y], pc'[y])
  <2> DEFINE j == call[y]
             c == j.concept
             h == pc[y]
  <2>1. y # x /\ pc'[y] = h /\ call'[y] = j
    BY <1>10, <1>17
  <2>2. h # "idle" /\ j \in Call /\ CallOK(sealed, setBack, graph, ptr[c], j, h)
    BY <1>17, <2>1, ZenonT(30) DEF Inv, Typed
  <2>3. c \in Concepts /\ j.wm \in Nat /\ j.name \in Nat \cup {None}
    BY <2>2, ZenonT(30) DEF Call
  <2> HIDE DEF j, h
  <2>4. j.giri # None =>
          Sound(sealed, setBack', c, j.wm, j.giri, graph'[<<c, j.giri>>] \cup j.rows)
    BY <1>15, <2>2, <2>3, Zenon DEF CallOK
  <2>5. j.found # None =>
          Sound(sealed, setBack', c, j.wm, j.found, graph'[<<c, j.found>>] \cup j.rows)
    BY <1>15, <2>2, <2>3, Zenon DEF CallOK
  <2>6. ASSUME NEW w \in Nat, ptr[c] # None, c \notin setBack => w <= ptr[c].watermark
        PROVE  ptr'[c] # None /\ (c \notin setBack' => w <= ptr'[c].watermark)
    <3>1. CASE c # e
      BY <1>8, <1>9, <2>3, <2>6, <3>1, Zenon
    <3>2. CASE c = e
      <4>1. ptr[c] \in Pointer /\ ptr[c].watermark \in Nat
        BY <2>3, <2>6, Zenon DEF Inv, Typed, Pointer
      <4> QED
        BY <1>2, <1>8, <1>9, <1>11, <2>6, <3>2, <4>1, SMTT(60)
    <3> QED
      BY <3>1, <3>2
  <2>7. h = "return" => ptr'[c] # None /\ (c \notin setBack' => j.name <= ptr'[c].watermark)
    BY <2>2, <2>3, <2>6, ZenonT(30) DEF CallOK
  <2>8. h = "published" /\ j.giri = None =>
          ptr'[c] # None /\ (c \notin setBack' => j.wm <= ptr'[c].watermark)
    <3>1. h = "published" /\ j.giri = None =>
            ptr[c] # None /\ (c \notin setBack => j.wm <= ptr[c].watermark)
      BY <2>2, ZenonT(60) DEF CallOK
    <3> QED
      BY <2>3, <2>6, <3>1, Zenon
  <2> QED
    BY <2>1, <2>2, <2>4, <2>5, <2>7, <2>8, ZenonT(60) DEF CallOK
<1>18. \A r \in clean' :
         pc'[r] # "idle" /\ call'[r].wm = High(sealed, call'[r].concept)
  BY <1>10 DEF Inv, Typed, Procs
<1> QED
  BY <1>1, <1>12, <1>13, <1>14, <1>16, <1>17, <1>18, Zenon DEF Inv

(* Time running out changes what a pointer is good for, not what it names.  *)
LEMMA ExpireStep ==
  ASSUME Inv, NEW c \in Concepts, Expire(c)
  PROVE  Inv'
<1> DEFINE p == ptr[c]
           q == [p EXCEPT !.valid = FALSE]
<1>1. /\ sealed' = sealed /\ seq' = seq /\ sealing' = sealing /\ graph' = graph
      /\ pc' = pc /\ call' = call /\ clean' = clean /\ setBack' = setBack
  BY DEF Expire, source, history
<1>2. p \in Pointer /\ p # None
  BY DEF Expire, Inv, Typed
<1>3. q \in Pointer /\ q.graph = p.graph /\ q.watermark = p.watermark
  BY <1>2, ZenonT(30) DEF Pointer
<1>4. q # None
  BY <1>3, NoneAssumption, Zenon DEF Pointer
<1>5. ptr' = [ptr EXCEPT ![c] = q]
  BY DEF Expire, Inv, Typed
<1>6. ptr'[c] = q /\ \A d \in Concepts : d # c => ptr'[d] = ptr[d]
  BY <1>5, Zenon DEF Inv, Typed
<1> HIDE DEF q
<1>7. Typed'
  BY <1>1, <1>3, <1>5, Zenon DEF Inv, Typed
<1>8. Numbered'
  BY <1>1, ZenonT(30) DEF Inv, Numbered
<1>9. \A d \in Concepts : PtrOK(sealed, setBack, graph, d, ptr'[d])
  BY <1>2, <1>3, <1>6, ZenonT(30) DEF Inv, PtrOK
<1>10. ASSUME NEW x \in Procs, pc[x] # "idle"
       PROVE  CallOK(sealed, setBack, graph, ptr'[call[x].concept], call[x], pc[x])
  <2> DEFINE k == call[x]
  <2>1. k.concept \in Concepts
    BY <1>10, ZenonT(60) DEF Inv, Typed, Call
  <2>2. CallOK(sealed, setBack, graph, ptr[k.concept], k, pc[x])
    BY <1>10 DEF Inv
  <2> QED
    BY <1>2, <1>3, <1>4, <1>6, <2>1, <2>2, ZenonT(30) DEF CallOK
<1> QED
  BY <1>1, <1>7, <1>8, <1>9, <1>10, Zenon DEF Inv

(* A seal takes the next number.                                            *)
LEMMA SealStep ==
  ASSUME SoleSealer, Inv, NEW s \in Sealers, NEW i \in Items, Seal(s, i)
  PROVE  Inv'
<1> DEFINE w == [item |-> i, seq |-> seq + 1]
<1>1. /\ sealed' = sealed /\ ptr' = ptr /\ graph' = graph /\ pc' = pc /\ call' = call
      /\ clean' = clean /\ setBack' = setBack
  BY Zenon DEF Seal, store, history
<1>2. /\ seq' = seq + 1 /\ seq \in Nat /\ seq' \in 0..MaxSeq
      /\ sealing' = [sealing EXCEPT ![s] = w]
  <2>1. seq < MaxSeq /\ seq' = seq + 1 /\ sealing' = [sealing EXCEPT ![s] = w]
    BY Zenon DEF Seal
  <2>2. seq \in 0..MaxSeq
    BY Zenon DEF Inv, Typed
  <2>3. seq \in Nat /\ seq + 1 \in 0..MaxSeq
    <3>1. seq < MaxSeq
      BY <2>1, Zenon
    <3> QED
      BY <2>2, <3>1, BoundsAssumption, SMTT(30)
  <2> QED
    BY <2>1, <2>3, Zenon
<1>3. w \in [item : Items, seq : Nat] /\ w.seq = seq + 1
  BY <1>2, SMTT(60)
<1> HIDE DEF w
<1>4. sealing'[s] = w /\ \A t \in Sealers : t = s
  BY <1>2, SMTT(30) DEF SoleSealer, Inv, Typed
<1>5. Typed'
  BY <1>1, <1>2, <1>3, ZenonT(30) DEF Inv, Typed
<1>6. Numbered'
  <2>1. \A j \in Items : sealed[j] \in Nat /\ sealed[j] <= seq
    BY DEF Inv, Typed, Numbered
  <2>2. \A t \in Sealers : sealing'[t] # None =>
          sealing'[t].seq <= seq' /\ \A j \in Items : sealed[j] < sealing'[t].seq
    BY <1>2, <1>3, <1>4, <2>1
  <2>3. \A j \in Items : sealed[j] <= seq'
    BY <1>2, <2>1
  <2> QED
    BY <1>1, <2>2, <2>3, ZenonT(60) DEF Inv, Numbered
<1> QED
  BY <1>1, <1>5, <1>6, Zenon DEF Inv

(* Its commit lifts the watermarks above everything read so far.            *)
LEMMA CommitSealStep ==
  ASSUME SoleSealer, Inv, NEW s \in Sealers, CommitSeal(s)
  PROVE  Inv'
<1> DEFINE i == sealing[s].item
           q == sealing[s].seq
<1>1. /\ seq' = seq /\ ptr' = ptr /\ graph' = graph /\ pc' = pc /\ call' = call
      /\ setBack' = setBack
  BY Zenon DEF CommitSeal, store
<1>2. i \in Items /\ q \in Nat /\ q <= seq /\ \A j \in Items : sealed[j] < q
  BY ZenonT(60) DEF CommitSeal, Inv, Typed, Numbered
<1>3. Lifts(sealed, sealed', i, q) /\ sealed \in [Items -> Nat]
  BY <1>2 DEF CommitSeal, Lifts, Inv, Typed
<1>4. sealed' \in [Items -> Nat] /\ \A j \in Items : sealed'[j] <= q
  BY <1>2, <1>3, SMTT(60) DEF Lifts
<1>5. \A t \in Sealers : sealing'[t] = None
  BY SMTT(60) DEF CommitSeal, SoleSealer, Inv, Typed
<1>6. clean' = {r \in clean : i \notin Scope[call[r].concept]}
  BY SMTT(30) DEF CommitSeal
<1> HIDE DEF i, q
<1>7. Typed'
  <2>1. sealing' \in [Sealers -> [item : Items, seq : Nat] \cup {None}]
    BY Zenon DEF CommitSeal, Inv, Typed
  <2> QED
    BY <1>1, <1>4, <1>6, <2>1, ZenonT(60) DEF Inv, Typed
<1>8. ASSUME NEW c \in Concepts
      PROVE  /\ HasHigh(sealed, c) /\ HasHigh(sealed', c)
             /\ High(sealed, c) \in Nat /\ High(sealed', c) \in Nat
             /\ High(sealed, c) < q
             /\ i \in Scope[c] => High(sealed', c) = q
             /\ i \notin Scope[c] => /\ High(sealed', c) = High(sealed, c)
                                     /\ Content(sealed', c) = Content(sealed, c)
  <2>1. HasHigh(sealed, c)
    BY ZenonT(30) DEF Inv, Numbered
  <2>2. High(sealed, c) \in Nat
    BY <1>3, <2>1, HighIsMax, ZenonT(60)
  <2>3. /\ HasHigh(sealed', c)
        /\ High(sealed, c) < q
        /\ i \in Scope[c] => High(sealed', c) = q
        /\ i \notin Scope[c] => /\ High(sealed', c) = High(sealed, c)
                                /\ Content(sealed', c) = Content(sealed, c)
    BY <1>2, <1>3, <2>1, SealedHigh, SMTT(30)
  <2>4. High(sealed', c) \in Nat
    BY <1>2, <2>2, <2>3, Zenon
  <2> QED
    BY <2>1, <2>2, <2>3, <2>4, Zenon
<1>9. Numbered'
  <2>1. \A j \in Items : sealed'[j] <= seq
    BY <1>2, <1>4, SMTT(60) DEF Inv, Typed
  <2> QED
    BY <1>1, <1>5, <1>8, <2>1, SMTT(60) DEF Numbered
<1>10. ASSUME NEW c \in Concepts, NEW w, NEW n, NEW G, Sound(sealed, setBack, c, w, n, G)
       PROVE  Sound(sealed', setBack, c, w, n, G)
  BY <1>2, <1>3, <1>8, <1>10, SealedSound, Zenon
<1>11. \A c \in Concepts : High(sealed, c) <= High(sealed', c)
  BY <1>2, <1>8, SMTT(60)
<1>12. ASSUME NEW c \in Concepts, NEW n \in 0..MaxSeq
       PROVE  GraphOK(sealed', c, n, graph[<<c, n>>])
  <2>1. GraphOK(sealed, c, n, graph[<<c, n>>])
    BY DEF Inv
  <2>2. n \in Nat
    BY BoundsAssumption, SMTT(30)
  <2> QED
    BY <1>2, <1>8, <2>1, <2>2, SMTT(60) DEF GraphOK
<1>13. ASSUME NEW c \in Concepts
       PROVE  PtrOK(sealed', setBack, graph, c, ptr[c])
  <2>1. ptr[c] # None => ptr[c].watermark \in Nat
    BY ZenonT(30) DEF Inv, Typed, Pointer
  <2>2. PtrOK(sealed, setBack, graph, c, ptr[c])
    BY Zenon DEF Inv
  <2>3. ptr[c] # None => ptr[c].watermark <= High(sealed', c)
    <3>1. /\ ptr[c] # None => ptr[c].watermark <= High(sealed, c)
          /\ High(sealed, c) \in Nat /\ High(sealed', c) \in Nat
          /\ High(sealed, c) <= High(sealed', c)
      BY <1>8, <1>11, <2>2, Zenon DEF PtrOK
    <3> QED
      BY <2>1, <3>1
  <2> QED
    BY <1>10, <2>2, <2>3, Zenon DEF PtrOK
<1>14. ASSUME NEW x \in Procs, pc[x] # "idle"
       PROVE  CallOK(sealed', setBack, graph, ptr[call[x].concept], call[x], pc[x])
  <2> DEFINE k == call[x]
  <2>1. k \in Call /\ k.concept \in Concepts /\ k.wm \in Nat /\ k.name \in Nat \cup {None}
    BY <1>14, ZenonT(30) DEF Inv, Typed, Call
  <2>2. CallOK(sealed, setBack, graph, ptr[k.concept], k, pc[x])
    BY <1>14, ZenonT(60) DEF Inv
  <2>3. /\ High(sealed, k.concept) \in Nat /\ High(sealed', k.concept) \in Nat
        /\ High(sealed, k.concept) <= High(sealed', k.concept)
    BY <1>8, <1>11, <2>1, Zenon
  <2>4. /\ k.wm <= High(sealed', k.concept)
        /\ k.name # None => k.wm <= k.name /\ k.name <= High(sealed', k.concept)
    <3>1. /\ k.wm <= High(sealed, k.concept)
          /\ k.name # None => k.wm <= k.name /\ k.name <= High(sealed, k.concept)
      BY <2>2, Zenon DEF CallOK
    <3> HIDE DEF k
    <3> QED
      BY <2>1, <2>3, <3>1, NoneAssumption
  <2>5. k.giri # None =>
          Sound(sealed', setBack, k.concept, k.wm, k.giri,
                graph[<<k.concept, k.giri>>] \cup k.rows)
    BY <1>10, <2>1, <2>2, Zenon DEF CallOK
  <2>6. k.found # None =>
          Sound(sealed', setBack, k.concept, k.wm, k.found,
                graph[<<k.concept, k.found>>] \cup k.rows)
    BY <1>10, <2>1, <2>2, ZenonT(30) DEF CallOK
  <2> HIDE DEF k
  <2> QED
    BY <2>2, <2>4, <2>5, <2>6, ZenonT(30) DEF CallOK, k
<1>15. ASSUME NEW r \in clean'
       PROVE  pc[r] # "idle" /\ call[r].wm = High(sealed', call[r].concept)
  <2>1. r \in clean /\ r \in Procs /\ i \notin Scope[call[r].concept]
    BY <1>6, Zenon DEF Inv, Typed, Procs
  <2>2. /\ pc[r] # "idle" /\ call[r].wm = High(sealed, call[r].concept)
        /\ call[r].concept \in Concepts
    BY <2>1, Zenon DEF Inv, Typed, Call
  <2> QED
    BY <1>8, <2>1, <2>2, ZenonT(60)
<1> QED
  BY <1>1, <1>7, <1>9, <1>12, <1>13, <1>14, <1>15, ZenonT(60) DEF Inv

-----------------------------------------------------------------------------
(* The worker builds whatever it picks up: it has no fresh pointer to fall  *)
(* back on.                                                                 *)
WorkerBuilds ==
  /\ pc[Worker] # "called"
  /\ pc[Worker] = "published" => call[Worker].giri # None

(* No step of a reader touches the worker's call.                           *)
LEMMA WorkerStep ==
  ASSUME Inv, WorkerBuilds, [Next]_vars
  PROVE  WorkerBuilds'
<1>1. Worker \in Procs /\ pc \in [Procs -> Phases] /\ call \in [Procs -> Call \cup {None}]
      /\ (pc[Worker] = "built" => call[Worker].giri # None)
  BY ZenonT(60) DEF Inv, Typed, Procs, CallOK
<1>2. CASE UNCHANGED <<pc[Worker], call[Worker]>>
  BY <1>2 DEF WorkerBuilds
<1>3. CASE Step(Worker) \/ CommitDrain \/ Die \/ \E c \in Concepts : PickJob(c)
  BY <1>1, <1>3 DEF WorkerBuilds, Step, CommitDrain, Die, PickJob, Ended, NameGraph,
     Enter, Return, Build, Publish
<1>4. ASSUME NEW r \in Readers, Read(r) \/ Abandon(r) \/ \E c \in Concepts : DerivedSum(r, c)
      PROVE  UNCHANGED <<pc[Worker], call[Worker]>>
  BY <1>1, <1>4, ProcsAssumption DEF Read, Abandon, DerivedSum, CheckFresh, Step, LookUp,
     Answer, Ended, NameGraph, Enter, Return, Build, Publish, Procs
<1>5. ASSUME UNCHANGED <<pc, call>>
      PROVE  UNCHANGED <<pc[Worker], call[Worker]>>
  BY <1>5
<1>6. CASE UNCHANGED vars \/ Restart
  BY <1>2, <1>5, <1>6, Zenon DEF vars, Restart
<1>7. CASE \E s \in Sealers : CommitSeal(s) \/ \E i \in Items : Seal(s, i)
  BY <1>2, <1>5, <1>7 DEF CommitSeal, Seal
<1>8. CASE \E c \in Concepts : EnqueueMaterialize(c) \/ Expire(c)
  BY <1>2, <1>5, <1>8 DEF EnqueueMaterialize, Expire
<1> QED
  BY <1>2, <1>3, <1>4, <1>6, <1>7, <1>8, ZenonT(30) DEF Next, Drain

(* One step of Next per case.                                               *)
LEMMA NextStep ==
  ASSUME SoleSealer, Inv, WorkerBuilds, [Next]_vars
  PROVE  Inv'
<1>1. ASSUME UNCHANGED <<source, ptr, graph, pc, call, history>>
      PROVE  Inv'
  <2>1. /\ sealed' = sealed /\ seq' = seq /\ sealing' = sealing /\ ptr' = ptr
        /\ graph' = graph /\ pc' = pc /\ call' = call /\ clean' = clean
        /\ setBack' = setBack
    BY <1>1, Zenon DEF source, history
  <2>2. Typed'
    BY <2>1, ZenonT(30) DEF Inv, Typed
  <2>3. Numbered'
    BY <2>1, Zenon DEF Inv, Numbered
  <2> QED
    BY <2>1, <2>2, <2>3, Zenon DEF Inv
<1>2. CASE UNCHANGED vars \/ Restart \/ \E c \in Concepts : EnqueueMaterialize(c)
  BY <1>1, <1>2 DEF vars, Restart, EnqueueMaterialize, store
<1>3. ASSUME NEW s \in Sealers, CommitSeal(s) \/ \E i \in Items : Seal(s, i)
      PROVE  Inv'
  BY <1>3, SealStep, CommitSealStep
<1>4. ASSUME NEW c \in Concepts, Expire(c)
      PROVE  Inv'
  BY <1>4, ExpireStep
<1>5. ASSUME NEW c \in Concepts, NEW r \in Readers, DerivedSum(r, c)
      PROVE  Inv'
  <2>1. r \in Procs /\ clean' = clean \cup {r} /\ clean' \subseteq Readers
    BY <1>5, Zenon DEF DerivedSum, Procs, Inv, Typed
  <2>2. UNCHANGED <<source, ptr, graph, setBack>>
    BY <1>5 DEF DerivedSum, store
  <2> QED
    BY <1>5, <2>1, <2>2, BeginStep, Zenon DEF DerivedSum
<1>6. ASSUME NEW c \in Concepts, PickJob(c)
      PROVE  Inv'
  <2>1. Worker \in Procs /\ clean' = clean /\ clean' \subseteq Readers
    BY <1>6 DEF PickJob, Procs, history, Inv, Typed
  <2>2. UNCHANGED <<source, ptr, graph, setBack>>
    BY <1>6 DEF PickJob, store, history
  <2> QED
    BY <1>6, <2>1, <2>2, BeginStep, ZenonT(60) DEF PickJob
<1>7. ASSUME NEW x \in Procs, Step(x)
      PROVE  Inv'
  BY <1>7, NameStep, EnterStep, ReturnStep, BuildStep, PublishStep DEF Step
<1>8. ASSUME NEW r \in Readers, CheckFresh(r) \/ LookUp(r)
      PROVE  Inv'
  BY <1>8, CheckFreshStep, LookUpStep DEF Procs
<1>9. ASSUME NEW r \in Readers, Abandon(r)
      PROVE  Inv'
  BY <1>9, EndStep DEF Abandon, Procs, store
<1>10. ASSUME NEW r \in Readers, Answer(r)
       PROVE  Inv'
  <2>1. r \in Procs /\ pc[r] = "found" /\ Ended(r) /\ clean' = clean \ {r}
        /\ UNCHANGED source
    BY <1>10 DEF Answer, Procs
  <2>2. CASE Publishes(r)
    BY <1>10, <2>1, <2>2, CommitStep, Zenon DEF Answer, Publishes
  <2>3. CASE ~Publishes(r)
    BY <1>10, <2>1, <2>3, EndStep, Zenon DEF Answer
  <2> QED
    BY <2>2, <2>3
<1>11. Worker \in Procs /\ clean \ {Worker} = clean
  BY ProcsAssumption DEF Procs, Inv, Typed
<1>12. CASE CommitDrain
  BY <1>11, <1>12, CommitStep DEF CommitDrain, WorkerBuilds
<1>13. CASE Die
  BY <1>11, <1>13, EndStep DEF Die, store, history
<1> QED
  BY <1>2, <1>3, <1>4, <1>5, <1>6, <1>7, <1>8, <1>9, <1>10, <1>11, <1>12, <1>13, Zenon
  DEF Next, Drain, Read, Procs

(* Nothing is sealed and nobody has called.                                 *)
LEMMA InitHolds ==
  ASSUME Init
  PROVE  Inv /\ WorkerBuilds
<1>1. /\ sealed = [i \in Items |-> 0] /\ sealed \in [Items -> Nat]
      /\ pc = [x \in Procs |-> "idle"] /\ call = [x \in Procs |-> None] /\ clean = {}
      /\ setBack = {} /\ graph = [n \in Names |-> {}] /\ ptr = [c \in Concepts |-> None]
      /\ Worker \in Procs
  BY Zenon DEF Init, Procs
<1>2. Typed
  BY <1>1, BoundsAssumption DEF Init, Typed, Phases
<1>3. ASSUME NEW c \in Concepts
      PROVE  HasHigh(sealed, c) /\ High(sealed, c) = 0
  <2>1. \A i \in Scope[c] : sealed[i] <= 0
    BY <1>1, ScopeAssumption
  <2> QED
    BY <1>1, <2>1, HighUnique, Zenon
<1>4. Numbered
  BY <1>1, <1>3 DEF Init, Numbered
<1>5. \A c \in Concepts, n \in 0..MaxSeq : GraphOK(sealed, c, n, graph[<<c, n>>])
  BY <1>1 DEF GraphOK, Names
<1>6. \A c \in Concepts : PtrOK(sealed, setBack, graph, c, ptr[c])
  BY <1>1 DEF PtrOK
<1> QED
  BY <1>1, <1>2, <1>4, <1>5, <1>6, Zenon DEF Inv, WorkerBuilds

(* With one sealing session the invariant holds throughout.                 *)
LEMMA Invariant ==
  ASSUME SoleSealer
  PROVE  Spec => []Inv
<1>1. Init => Inv /\ WorkerBuilds
  BY InitHolds
<1>2. Inv /\ WorkerBuilds /\ [Next]_vars => (Inv /\ WorkerBuilds)'
  BY NextStep, WorkerStep
<1> QED
  BY <1>1, <1>2, PTL DEF Spec

(* A graph that goes up to the current watermark holds what is sealed.      *)
LEMMA SoundIsExact ==
  ASSUME Inv, NEW c \in Concepts, c \notin setBack, NEW n, NEW G,
         Sound(sealed, setBack, c, High(sealed, c), n, G)
  PROVE  G = Rows(c)
<1>1. High(sealed, c) \in Nat /\ Rows(c) = Content(sealed, c)
  BY HighBound
<1>2. n = High(sealed, c)
  BY <1>1 DEF Sound
<1>3. Scope[c] \subseteq Items /\ sealed \in [Items -> Nat] /\ HasHigh(sealed, c)
  BY ScopeAssumption, ZenonT(30) DEF Inv, Typed, Numbered
<1>4. \A i \in Scope[c] : sealed[i] <= n
  BY <1>2, <1>3, HighIsMax, ZenonT(60)
<1>5. Content(sealed, c) \subseteq G
  BY <1>1, <1>2, <1>3, <1>4 DEF Content, Sound
<1> QED
  BY <1>1, <1>2, <1>5, ZenonT(30) DEF Sound

(* What a fresh pointer names is what is sealed (_phenotype_fresh), however *)
(* many readers and drains build at once, for every set of concepts and     *)
(* items and every bound, as long as the seals come from one session and no *)
(* slow call has put the pointer back.                                      *)
THEOREM FreshPointerIsTrue ==
  ASSUME SoleSealer
  PROVE  Spec => []FreshIsTrue
<1>1. Inv => FreshIsTrue
  <2> SUFFICES ASSUME Inv, NEW c \in Concepts \ setBack, PhenotypeFresh(c, Watermark(c))
               PROVE  graph[<<c, ptr[c].graph>>] = Rows(c)
    BY DEF FreshIsTrue
  <2>1. ptr[c] # None /\ ptr[c].watermark = High(sealed, c)
    BY HighBound, Zenon DEF PhenotypeFresh
  <2>2. Sound(sealed, setBack, c, High(sealed, c), ptr[c].graph, graph[<<c, ptr[c].graph>>])
    BY <2>1, ZenonT(30) DEF Inv, PtrOK
  <2> QED
    BY <2>2, SoundIsExact, Zenon
<1> QED
  BY Invariant, <1>1, PTL

(* A call of derived_sum that nothing in its scope was sealed during sums   *)
(* exactly what is sealed, under the same two conditions.                   *)
THEOREM AnswerIsTrue ==
  ASSUME SoleSealer
  PROVE  Spec => []AnswerTrue
<1>1. Inv => AnswerTrue
  <2> SUFFICES ASSUME Inv, NEW r \in clean, pc[r] = "found",
                      call[r].concept \notin setBack
               PROVE  Sum(r) = Rows(call[r].concept)
    BY DEF AnswerTrue
  <2> DEFINE k == call[r]
  <2>1. /\ r \in Procs /\ k.concept \in Concepts
        /\ k.wm = High(sealed, k.concept)
    BY Zenon DEF Inv, Typed, Procs, Call
  <2>2. Sound(sealed, setBack, k.concept, k.wm, k.found,
              graph[<<k.concept, k.found>>] \cup k.rows)
    BY <2>1, ZenonT(30) DEF Inv, CallOK
  <2>3. graph[<<k.concept, k.found>>] \cup k.rows = Rows(k.concept)
    <3> DEFINE c == k.concept
               G == graph[<<k.concept, k.found>>] \cup k.rows
    <3>1. c \in Concepts /\ c \notin setBack
      BY <2>1, Zenon
    <3>2. Sound(sealed, setBack, c, High(sealed, c), k.found, G)
      BY <2>1, <2>2
    <3> HIDE DEF c, G
    <3>3. G = Rows(c)
      BY <3>1, <3>2, SoundIsExact, Zenon
    <3> QED
      BY <3>3 DEF c, G
  <2> QED
    BY <2>3, Zenon DEF Sum
<1> QED
  BY Invariant, <1>1, PTL

(* A published graph leaves out nothing that was sealed up to the watermark *)
(* in its name; that a pointer was put back makes no difference to it.      *)
THEOREM PublishedGraphCovers ==
  ASSUME SoleSealer
  PROVE  Spec => []GraphCovers
<1>1. Inv => GraphCovers
  BY Zenon DEF Inv, PtrOK, Sound, GraphCovers
<1> QED
  BY Invariant, <1>1, PTL
=============================================================================
