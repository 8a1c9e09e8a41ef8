----------------------------- MODULE Admission ------------------------------
(* Who may connect to the broker: the policy the worker keeps for the auth  *)
(* callout (src/lib.rs, bgworker.rs), the responder on the relay's thread   *)
(* (nats_client.rs, auth_callout.rs) and the connections it admits.         *)
(*                                                                          *)
(* Three copies of the policy follow each other: the configuration file and *)
(* the sealed kernels, the worker's settings and LEDGER_KERNELS, and the    *)
(* CALLOUT_POLICY the responder reads.  Grants are minted once, when a      *)
(* connection is admitted.                                                  *)
EXTENDS Callout, FiniteSets

CONSTANTS
  Conns,
  Tokens,        \* realm JWTs that clients present
  Configs,       \* contents of postgresql.conf: [anon, kernels, jwks, seed]
  Kernels,       \* names that can be germinated, canonical by B:4124
  DefaultKernel, \* the kernel of the GUC's default, "pgck"
  Inputs,        \* subjects a client may try to publish on
  Faults,        \* which of "crash", "thread" occur
  MaxNow,        \* bound: the clock
  MaxChanges     \* bound: edits of the file, seals and retirements of kernels

(* The names a roster can come to hold.                                     *)
Names == Kernels \cup UNION {f.kernels : f \in Configs}

Policies == [anon : BOOLEAN, kernels : SUBSET Names]

ASSUME NoneAssumption == None \notin {"off", "starting", "serving", "dead"} \cup Policies
ASSUME ConfigsAssumption == \A f \in Configs : f.anon \in BOOLEAN
ASSUME TokensAssumption ==
  \A t \in Tokens : t.exp \in Int \cup {None} /\ t.sub \in Seq(STRING) \cup {None}
(* A subject that is published has no empty token.                          *)
ASSUME InputsAssumption ==
  \A s \in Inputs : s \in Seq(Seq(STRING)) /\ \A i \in DOMAIN s : s[i] # <<>>
ASSUME ClockAssumption == MaxNow \in Nat

VARIABLES
  file, hup,     \* postgresql.conf, and SIGHUP pending in the worker
  sealed,        \* sealed and unretired ckp:Kernel instances
  catalog,       \* the extension: "absent", "old" (no _ledger_kernels), "current"
  changes,
  now,
  up, tick,      \* the worker's process, and the next step of its tick
  guc,           \* the settings it has loaded
  auth,          \* the verifier latched by oidc_auth_config
  responder,     \* None, "off", "starting", "serving" or "dead"
  ledgerKernels, due,  \* LEDGER_KERNELS, and whether LEDGER_REFRESH_EVERY is over
  policy,        \* CALLOUT_POLICY
  conn           \* connection -> its state at the broker

outside == <<file, hup, sealed, catalog, changes>>
worker == <<up, tick, guc, auth, responder, ledgerKernels, due, policy>>
vars == <<outside, now, worker, conn>>

Idle == [state |-> "idle"]

Init ==
  /\ file \in Configs
  /\ hup = FALSE
  /\ catalog \in {"absent", "old", "current"}
  /\ sealed \in IF catalog = "absent" THEN {{}} ELSE SUBSET Kernels
  /\ changes = 0
  /\ now = 0
  /\ up = TRUE
  /\ tick = "wait"
  /\ guc = file
  /\ auth = None
  /\ responder = None
  /\ ledgerKernels = {}
  /\ due = TRUE
  /\ policy = None
  /\ conn = [c \in Conns |-> Idle]

-----------------------------------------------------------------------------
(* The database and its operator (external).                                *)

Change == changes < MaxChanges /\ changes' = changes + 1

(* A new file, then pg_reload_conf().                                       *)
Reconfigure(f) ==
  /\ Change
  /\ f # file
  /\ file' = f
  /\ hup' = up
  /\ UNCHANGED <<sealed, catalog, now, worker, conn>>

Germinate(k) ==
  /\ Change
  /\ catalog # "absent" /\ k \notin sealed
  /\ sealed' = sealed \cup {k}
  /\ UNCHANGED <<file, hup, catalog, now, worker, conn>>

Retire(k) ==
  /\ Change
  /\ k \in sealed
  /\ sealed' = sealed \ {k}
  /\ UNCHANGED <<file, hup, catalog, now, worker, conn>>

(* CREATE EXTENSION, ALTER EXTENSION UPDATE.                                *)
Upgrade ==
  /\ catalog # "current"
  /\ catalog' = "current"
  /\ UNCHANGED <<file, hup, sealed, changes, now, worker, conn>>

-----------------------------------------------------------------------------
(* The worker's loop (pgck_bridge_main) and its tick; the drains that end   *)
(* the tick are in Bridge and Orbit.                                        *)

Wake ==
  /\ up /\ tick = "wait"
  /\ guc' = IF hup THEN file ELSE guc
  /\ hup' = FALSE
  /\ tick' = "policy"
  /\ UNCHANGED <<file, sealed, catalog, changes, now, up, auth, responder,
                 ledgerKernels, due, policy, conn>>

(* The names that are one token of a subject.                               *)
OneToken(names) == {k \in names : k # <<>> /\ \A i \in DOMAIN k : k[i] \notin MetaChars}

(* Variant: filled once, like the verifier.                                 *)
RefreshCalloutPolicyOnce ==
  /\ up /\ tick = "policy"
  /\ policy' = IF policy # None THEN policy
               ELSE [anon |-> guc.anon, kernels |-> OneToken(guc.kernels) \cup ledgerKernels]
  /\ tick' = "init"
  /\ UNCHANGED <<outside, now, up, guc, auth, responder, ledgerKernels, due, conn>>

RefreshCalloutPolicy ==
  /\ up /\ tick = "policy"
  /\ policy' = [anon |-> guc.anon, kernels |-> OneToken(guc.kernels) \cup ledgerKernels]
  /\ tick' = "init"
  /\ UNCHANGED <<outside, now, up, guc, auth, responder, ledgerKernels, due, conn>>

(* CLIENT_INITIALISED: once per process, from the settings of that moment.  *)
InitRelay ==
  /\ up /\ tick = "init"
  /\ IF responder = None
     THEN /\ auth' = OidcAuthConfig(guc.jwks)
          /\ responder' = IF ParseAccountSeed(guc.seed) THEN "starting" ELSE "off"
     ELSE UNCHANGED <<auth, responder>>
  /\ tick' = "roster"
  /\ UNCHANGED <<outside, now, up, guc, ledgerKernels, due, policy, conn>>

(* Variant: an empty roster counts as no answer and keeps the old one.      *)
RefreshLedgerKernelsKeep ==
  /\ up /\ tick = "roster"
  /\ due /\ catalog = "current"
  /\ ledgerKernels' = IF sealed = {} THEN ledgerKernels ELSE OneToken(sealed)
  /\ due' = FALSE
  /\ tick' = "wait"
  /\ UNCHANGED <<outside, now, up, guc, auth, responder, policy, conn>>

(* refresh_ledger_kernels behind pgck_ready; LEDGER_LAST is set first.      *)
RefreshLedgerKernels ==
  /\ up /\ tick = "roster"
  /\ due /\ catalog = "current"
  /\ ledgerKernels' = OneToken(sealed)
  /\ due' = FALSE
  /\ tick' = "wait"
  /\ UNCHANGED <<outside, now, up, guc, auth, responder, policy, conn>>

SkipLedgerKernels ==
  /\ up /\ tick = "roster"
  /\ ~due \/ catalog = "absent"
  /\ tick' = "wait"
  /\ UNCHANGED <<outside, now, up, guc, auth, responder, ledgerKernels, due, policy,
                 conn>>

FiveSeconds ==
  /\ ~due
  /\ due' = TRUE
  /\ UNCHANGED <<outside, now, up, tick, guc, auth, responder, ledgerKernels, policy,
                 conn>>

(* The process ends, and its threads and caches with it.                    *)
Die ==
  /\ up' = FALSE
  /\ tick' = "wait"
  /\ hup' = FALSE
  /\ auth' = None
  /\ responder' = None
  /\ ledgerKernels' = {}
  /\ due' = TRUE
  /\ policy' = None
  /\ UNCHANGED <<file, sealed, catalog, changes, now, guc, conn>>

(* A catalog without ckp._ledger_kernels: the query raises.                 *)
LedgerQueryRaises ==
  /\ up /\ tick = "roster"
  /\ due /\ catalog = "old"
  /\ Die

Crash == "crash" \in Faults /\ up /\ Die

(* The worker has no restart time: it comes back with the postmaster.       *)
Restart ==
  /\ ~up
  /\ up' = TRUE
  /\ guc' = file
  /\ UNCHANGED <<outside, now, tick, auth, responder, ledgerKernels, due, policy, conn>>

-----------------------------------------------------------------------------
(* The relay's thread: run_relay_thread and the run_callout task it spawns. *)

Subscribe ==
  /\ responder = "starting"
  /\ responder' = "serving"
  /\ UNCHANGED <<outside, now, up, tick, guc, auth, ledgerKernels, due, policy, conn>>

(* A subscription of the callout or of the relay fails or ends: the thread's*)
(* runtime goes, and nothing starts it again.                               *)
ThreadEnds ==
  /\ "thread" \in Faults
  /\ responder \in {"starting", "serving"}
  /\ responder' = "dead"
  /\ UNCHANGED <<outside, now, up, tick, guc, auth, ledgerKernels, due, policy, conn>>

CalloutPolicy ==
  IF policy = None THEN [anon |-> TRUE, kernels |-> {DefaultKernel}] ELSE policy

(* Variant: a request that cannot be read is skipped.                       *)
AnswerReadable(c) ==
  /\ responder = "serving"
  /\ conn[c].state = "asked" /\ conn[c].token # Malformed
  /\ conn' = [conn EXCEPT ![c] =
       [state |-> "answered", token |-> conn[c].token,
        reply |-> HandleRequest(conn[c].token, auth, now, CalloutPolicy)]]
  /\ UNCHANGED <<outside, now, worker>>

(* One turn of run_callout's loop; a message that has no reply subject or   *)
(* is no text is not a request of the broker.                               *)
Answer(c) ==
  /\ responder = "serving"
  /\ conn[c].state = "asked"
  /\ conn' = [conn EXCEPT ![c] =
       [state |-> "answered", token |-> conn[c].token,
        reply |-> HandleRequest(conn[c].token, auth, now, CalloutPolicy)]]
  /\ UNCHANGED <<outside, now, worker>>

-----------------------------------------------------------------------------
(* The broker and its clients (external).                                   *)

Connect(c, t) ==
  /\ conn[c].state = "idle"
  /\ conn' = [conn EXCEPT ![c] = [state |-> "asked", token |-> t]]
  /\ UNCHANGED <<outside, now, worker>>

Expired(reply, t) == reply.exp # None /\ reply.exp <= t

Admit(c) ==
  /\ conn[c].state = "answered"
  /\ conn' = [conn EXCEPT ![c] =
       IF ~conn[c].reply.granted \/ Expired(conn[c].reply, now) THEN Idle
       ELSE [state |-> "open", token |-> conn[c].token, reply |-> conn[c].reply]]
  /\ UNCHANGED <<outside, now, worker>>

(* The broker gives up on the callout, or the client leaves.                *)
Drop(c) ==
  /\ conn[c].state # "idle"
  /\ conn' = [conn EXCEPT ![c] = Idle]
  /\ UNCHANGED <<outside, now, worker>>

(* The clock; the broker ends the connections whose user-JWT expires.       *)
Advance ==
  /\ now < MaxNow
  /\ now' = now + 1
  /\ conn' = [c \in Conns |->
       IF conn[c].state = "open" /\ Expired(conn[c].reply, now + 1) THEN Idle ELSE conn[c]]
  /\ UNCHANGED <<outside, worker>>

-----------------------------------------------------------------------------
Tick ==
  \/ Wake
  \/ RefreshCalloutPolicy
  \/ InitRelay
  \/ RefreshLedgerKernels
  \/ SkipLedgerKernels
  \/ LedgerQueryRaises

Next ==
  \/ \E f \in Configs : Reconfigure(f)
  \/ \E k \in Kernels : Germinate(k) \/ Retire(k)
  \/ Upgrade
  \/ Tick
  \/ FiveSeconds
  \/ Crash
  \/ Restart
  \/ Subscribe
  \/ ThreadEnds
  \/ \E c \in Conns :
       \/ \E t \in Tokens \cup {None, Malformed} : Connect(c, t)
       \/ Answer(c)
       \/ Admit(c)
       \/ Drop(c)
  \/ Advance

Spec == Init /\ [][Next]_vars

(* The latch wakes the worker at least every TICK_INTERVAL and its steps    *)
(* end; five seconds pass; the thread's runtime polls its tasks.            *)
FairSpec ==
  /\ Spec
  /\ WF_vars(Tick)
  /\ WF_vars(FiveSeconds)
  /\ WF_vars(Subscribe)
  /\ \A c \in Conns : WF_vars(Answer(c))

-----------------------------------------------------------------------------
KeySets == SUBSET UNION {f.jwks : f \in Configs}

(* Admission is bounded by the credential that earned it (handle_request,   *)
(* build_user_jwt): while a connection is open under an identity, its token *)
(* names that identity, is signed with a realm key, and has not expired,    *)
(* whatever leeway the verifier gives, and whatever the worker did since.   *)
CredentialBound ==
  \A c \in Conns :
    conn[c].state = "open" /\ conn[c].reply.identity # None =>
      LET token == conn[c].token
      IN  /\ token \in Tokens
          /\ token.sub = conn[c].reply.identity
          /\ \E keys \in KeySets : \E jwk \in keys : Usable(jwk) /\ jwk.x = token.key
          /\ now < token.exp

(* What a client may publish is what the relay will attribute to it.  Each  *)
(* subject the grants of a connection allow reaches exactly one of the      *)
(* relay's two subscriptions, and route_inbound reads from it a kernel that *)
(* is a name of the roster, the connection's own identity (not mangled when *)
(* it is a subject token already), and a result subject the connection may  *)
(* read.  An anonymous connection publishes nothing the relay takes.        *)
DoorIdentity ==
  \A c \in Conns : conn[c].state = "open" =>
    \A s \in Inputs : (\E p \in conn[c].reply.pub : Fits(p, s)) =>
      LET sub == conn[c].reply.identity
          routed == RouteInbound(s)
      IN  /\ sub # None
          /\ Fits(RelayIdSubject, s) /\ ~Fits(RelayInSubject, s)
          /\ routed.taken
          /\ routed.kernel \in Names
          /\ routed.identity = SubjectToken(sub)
          /\ (sub # <<>> /\ \A i \in DOMAIN sub : sub[i] \in SafeChars) => routed.identity = sub
          /\ \E p \in conn[c].reply.sub : Fits(p, routed.result)

(* "A Sighup'd admit_anonymous=false reaches the responder within one tick  *)
(* interval" (refresh_callout_policy): once the worker has loaded it, only  *)
(* an answer between the load and the refresh of that very tick may still   *)
(* admit an anonymous connection.                                           *)
StrictIsStrict ==
  [][\A c \in Conns :
       /\ conn[c].state = "asked" /\ conn'[c].state = "answered"
       /\ conn'[c].reply.granted /\ conn'[c].reply.identity = None
       => guc.anon \/ tick = "policy"]_vars

(* The three copies of the policy converge: a worker that stays up, on a    *)
(* catalog that has the roster, comes to answer with the file's settings    *)
(* and the kernels sealed and unretired, whatever order the edits, seals,   *)
(* retirements, refreshes and crashes came in.                              *)
PolicyConverges ==
  <>[](up /\ catalog = "current") =>
    <>[](policy = [anon |-> file.anon, kernels |-> OneToken(file.kernels) \cup OneToken(sealed)])

(* While the responder serves, a request is answered, malformed or not: one *)
(* request never ends the loop of run_callout.                              *)
RequestsAnswered ==
  \A c \in Conns :
    conn[c].state = "asked" /\ responder = "serving" ~>
      conn[c].state # "asked" \/ responder \in {None, "dead"}
=============================================================================
