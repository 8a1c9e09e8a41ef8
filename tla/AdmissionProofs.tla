-------------------------- MODULE AdmissionProofs ---------------------------
(* Who is admitted, for how long and under which name, for every set of     *)
(* connections, tokens, configurations and kernels.                         *)
EXTENDS Admission, SequenceTheorems, TLAPS

(* The names that pass the filter are single tokens and no wildcards.       *)
LEMMA NamesAreTokens ==
  ASSUME NEW names, NEW k \in OneToken(names)
  PROVE  k \in names /\ k # Star /\ k # Rest
<1>1. k \in names /\ \A i \in DOMAIN k : k[i] \notin MetaChars
  BY Zenon DEF OneToken
<1>2. 1 \in DOMAIN Star /\ Star[1] \in MetaChars /\ 1 \in DOMAIN Rest /\ Rest[1] \in MetaChars
  BY CharsAssumption DEF Star, Rest
<1> QED BY <1>1, <1>2

(* So is the identity that goes into a subject.                             *)
LEMMA IdentityIsToken ==
  ASSUME NEW sub
  PROVE  SubjectToken(sub) # Star /\ SubjectToken(sub) # Rest
<1>1. CASE sub = <<>>
  <2>1. SubjectToken(sub) = <<"-">> BY <1>1 DEF SubjectToken
  <2>2. "-" # "*" /\ "-" # ">" OBVIOUS
  <2> QED BY <2>1, <2>2 DEF Star, Rest
<1>2. CASE sub # <<>>
  <2>1. SubjectToken(sub) = [i \in DOMAIN sub |-> IF sub[i] \in SafeChars THEN sub[i] ELSE "-"]
    BY <1>2, Zenon DEF SubjectToken
  <2>2. \A i \in DOMAIN SubjectToken(sub) : SubjectToken(sub)[i] \notin MetaChars
    BY <2>1, CharsAssumption, Zenon
  <2>3. 1 \in DOMAIN Star /\ Star[1] \in MetaChars /\ 1 \in DOMAIN Rest /\ Rest[1] \in MetaChars
    BY CharsAssumption DEF Star, Rest
  <2> QED BY <2>2, <2>3
<1> QED BY <1>1, <1>2

(* An identity made of safe characters is its own token.                    *)
LEMMA SafeIdentityKept ==
  ASSUME NEW sub \in Seq(STRING), sub # <<>>, \A i \in DOMAIN sub : sub[i] \in SafeChars
  PROVE  SubjectToken(sub) = sub
BY DEF SubjectToken

(* A subject that an input grant allows has the grant's tokens.             *)
LEMMA GrantedSubject ==
  ASSUME NEW k, k # Star, k # Rest, NEW t, t # Star, t # Rest,
         NEW s \in Seq(Seq(STRING)), Fits(InputSubject(k, t), s)
  PROVE  /\ Len(s) >= 7
         /\ s[1] = <<"input">> /\ s[2] = <<"kernel">> /\ s[3] = k
         /\ s[4] = <<"id">> /\ s[5] = t /\ s[6] = <<"action">>
<1> DEFINE p == InputSubject(k, t)
<1>1. /\ Len(p) = 7
      /\ p[1] = <<"input">> /\ p[2] = <<"kernel">> /\ p[3] = k
      /\ p[4] = <<"id">> /\ p[5] = t /\ p[6] = <<"action">> /\ p[7] = Rest
  BY Zenon DEF InputSubject
<1>2. <<"input">> # Star /\ <<"kernel">> # Star /\ <<"id">> # Star /\ <<"action">> # Star
  BY Zenon DEF Star
<1>3. ~TokenFits(p[7], s[7])
  BY <1>1, Zenon DEF TokenFits
<1>4. Len(s) >= 7 /\ \A i \in 1..6 : TokenFits(p[i], s[i])
  <2> HIDE DEF p
  <2>1. Fits(p, s) BY DEF p
  <2>2. ~(\A i \in 1..7 : TokenFits(p[i], s[i])) BY <1>3
  <2> QED BY <2>1, <2>2, <1>1 DEF Fits
<1> HIDE DEF p
<1>5. \A i \in 1..6 : p[i] # Star
  <2> TAKE i \in 1..6
  <2>1. i = 1 \/ i = 2 \/ i = 3 \/ i = 4 \/ i = 5 \/ i = 6 OBVIOUS
  <2> QED BY <2>1, <1>1, <1>2, Zenon
<1>6. \A i \in 1..6 : s[i] = p[i]
  BY <1>4, <1>5, Zenon DEF TokenFits
<1>7. 1 \in 1..6 /\ 2 \in 1..6 /\ 3 \in 1..6 /\ 4 \in 1..6 /\ 5 \in 1..6 /\ 6 \in 1..6
  OBVIOUS
<1>8. s[1] = p[1] /\ s[2] = p[2] /\ s[3] = p[3] /\ s[4] = p[4] /\ s[5] = p[5] /\ s[6] = p[6]
  BY <1>6, <1>7, Zenon
<1> QED BY <1>1, <1>4, <1>8

(* What the relay makes of such a subject: the scoped subscription alone    *)
(* receives it, and route_inbound reads the grant's kernel and identity.    *)
LEMMA RelayedSubject ==
  ASSUME NEW k, k # Star, k # Rest, NEW t, NEW s \in Inputs,
         t # Star, t # Rest, Fits(InputSubject(k, t), s)
  PROVE  /\ Fits(RelayIdSubject, s) /\ ~Fits(RelayInSubject, s)
         /\ RouteInbound(s).taken
         /\ RouteInbound(s).kernel = k
         /\ RouteInbound(s).identity = t
         /\ Fits(ResultSubject(k), RouteInbound(s).result)
<1>1. s \in Seq(Seq(STRING)) /\ \A i \in DOMAIN s : s[i] # <<>>
  BY InputsAssumption, Zenon
<1>2. /\ Len(s) >= 7
      /\ s[1] = <<"input">> /\ s[2] = <<"kernel">> /\ s[3] = k
      /\ s[4] = <<"id">> /\ s[5] = t /\ s[6] = <<"action">>
  BY <1>1, GrantedSubject, ZenonT(60)
<1>3. /\ s[3] # <<>> /\ s[5] # <<>> /\ s[7] # <<>>
      /\ k \in Seq(STRING) /\ t \in Seq(STRING)
  <2>1. Len(s) \in Nat /\ DOMAIN s = 1..Len(s) BY <1>1
  <2>2. 3 \in DOMAIN s /\ 5 \in DOMAIN s /\ 7 \in DOMAIN s BY <2>1, <1>2
  <2>3. s[3] \in Seq(STRING) /\ s[5] \in Seq(STRING) BY <2>2, <1>1
  <2> QED BY <2>2, <2>3, <1>1, <1>2
<1>4. Fits(RelayIdSubject, s)
  <2> DEFINE p == RelayIdSubject
  <2>1. /\ Len(p) = 7 /\ p[1] = <<"input">> /\ p[2] = <<"kernel">> /\ p[3] = Star
        /\ p[4] = <<"id">> /\ p[5] = Star /\ p[6] = <<"action">> /\ p[7] = Rest
    BY Zenon DEF RelayIdSubject
  <2>2. /\ <<"input">> # Rest /\ <<"kernel">> # Rest /\ Star # Rest
        /\ <<"id">> # Rest /\ <<"action">> # Rest
    BY Zenon DEF Star, Rest
  <2> HIDE DEF p
  <2>3. \A i \in 1..6 : TokenFits(p[i], s[i])
    <3> TAKE i \in 1..6
    <3>1. i = 1 \/ i = 2 \/ i = 3 \/ i = 4 \/ i = 5 \/ i = 6 OBVIOUS
    <3> QED BY <3>1, <2>1, <2>2, <1>2, Zenon DEF TokenFits
  <2>4. Fits(p, s) BY <2>1, <2>3, <1>2 DEF Fits
  <2> QED BY <2>4 DEF p
<1>5. ~Fits(RelayInSubject, s)
  <2> DEFINE p == RelayInSubject
  <2>1. Len(p) = 5 /\ p[4] = <<"action">>
    BY Zenon DEF RelayInSubject
  <2>2. <<"action">> # Star /\ <<"action">> # <<"id">>
    BY Zenon DEF Star
  <2> HIDE DEF p
  <2>3. ~TokenFits(p[4], s[4])
    BY <2>1, <2>2, <1>2, Zenon DEF TokenFits
  <2>4. ~(\A i \in 1..4 : TokenFits(p[i], s[i])) /\ ~(\A i \in 1..5 : TokenFits(p[i], s[i]))
    BY <2>3
  <2>5. ~Fits(p, s)
    BY <2>1, <2>4 DEF Fits
  <2> QED BY <2>5 DEF p
<1> DEFINE verb == SubSeq(s, 7, Len(s))
<1>6. /\ verb \in Seq(Seq(STRING)) /\ Len(verb) = Len(s) - 6 /\ verb[1] = s[7]
  <2>1. Len(s) \in Nat /\ Len(s) >= 7 BY <1>1, <1>2
  <2>2. verb \in Seq(Seq(STRING)) BY <1>1, <2>1, SubSeqProperties
  <2>3. Len(verb) = Len(s) - 6 BY <1>1, <2>1, SubSeqProperties
  <2>4. verb[1] = s[7] BY <1>1, <2>1, SubSeqProperties
  <2> QED BY <2>2, <2>3, <2>4, Zenon
<1> HIDE DEF verb
<1>7. verb # <<<<>>>>
  <2>1. (<<<<>>>>)[1] = <<>> OBVIOUS
  <2> QED BY <1>3, <1>6, <2>1
<1> DEFINE head == <<<<"result">>, <<"kernel">>, k>>
           S == Seq(STRING) \cup {<<"result">>, <<"kernel">>}
<1>h. /\ head \in Seq(S) /\ verb \in Seq(S) /\ Len(head) = 3
      /\ head[1] = <<"result">> /\ head[2] = <<"kernel">> /\ head[3] = k
  <2>1. <<"result">> \in S /\ <<"kernel">> \in S /\ k \in S BY <1>3
  <2>2. Seq(STRING) \subseteq S OBVIOUS
  <2> HIDE DEF S
  <2>3. head \in Seq(S) BY <2>1
  <2>4. verb \in Seq(S) BY <1>6, <2>2
  <2> QED BY <2>3, <2>4
<1>8. RouteInbound(s) = [taken |-> TRUE, kernel |-> k, identity |-> t, result |-> head \o verb]
  <2>1. Len(s) > 3 /\ Len(s) > 6 /\ 6 + 1 = 7 BY <1>2
  <2> QED BY <2>1, <1>2, <1>3, <1>7 DEF RouteInbound, verb
<1> HIDE DEF head, S
<1>9. Fits(ResultSubject(k), RouteInbound(s).result)
  <2> DEFINE p == ResultSubject(k)
             r == head \o verb
  <2>1. /\ Len(p) = 4 /\ p[1] = <<"result">> /\ p[2] = <<"kernel">> /\ p[3] = k /\ p[4] = Rest
    BY Zenon DEF ResultSubject
  <2>4. /\ Len(r) = 3 + Len(verb)
        /\ r[1] = <<"result">> /\ r[2] = <<"kernel">> /\ r[3] = k
    <3>1. head \in Seq(S) /\ verb \in Seq(S) BY <1>h
    <3>2. /\ Len(r) = Len(head) + Len(verb)
          /\ \A i \in 1..Len(head) + Len(verb) :
               r[i] = IF i <= Len(head) THEN head[i] ELSE verb[i - Len(head)]
      BY <3>1, ConcatProperties, Zenon
    <3> HIDE DEF r
    <3>3. Len(verb) \in Nat BY <3>1
    <3> QED BY <3>2, <3>3, <1>h
  <2>5. <<"result">> # Rest /\ <<"kernel">> # Rest
    BY Zenon DEF Rest
  <2> HIDE DEF p, r
  <2>6. \A i \in 1..3 : TokenFits(p[i], r[i])
    <3> TAKE i \in 1..3
    <3>1. i = 1 \/ i = 2 \/ i = 3 OBVIOUS
    <3> QED BY <3>1, <2>1, <2>4, <2>5, Zenon DEF TokenFits
  <2>7. Len(r) >= 4 BY <2>4, <1>6, <1>2
  <2>8. Fits(p, r) BY <2>1, <2>6, <2>7 DEF Fits
  <2> QED BY <2>8, <1>8 DEF p, r
<1> QED BY <1>4, <1>5, <1>8, <1>9

-----------------------------------------------------------------------------
(* What a granted reply to a token says, whichever policy was in force.     *)
Minted(token, r) ==
  r.granted =>
    /\ r.identity = None => r.pub = {}
    /\ r.identity # None =>
         /\ token \in Tokens /\ token.sub = r.identity
         /\ r.exp = token.exp /\ r.exp # None
         /\ \E keys \in KeySets : \E jwk \in keys : Usable(jwk) /\ jwk.x = token.key
         /\ \A p \in r.pub : \E k \in OneToken(Names) :
              p = InputSubject(k, SubjectToken(r.identity)) /\ ResultSubject(k) \in r.sub

GoodKeys(keys) ==
  keys # None => keys \in KeySets \ {{}} /\ \A jwk \in keys : Usable(jwk)

(* Whatever is asked under whatever policy, what handle_request grants is   *)
(* Minted.                                                                  *)
LEMMA HandlerMints ==
  ASSUME NEW token \in Tokens \cup {None, Malformed}, NEW keys, GoodKeys(keys),
         NEW t, NEW pol, pol.kernels \subseteq OneToken(Names)
  PROVE  LET r == HandleRequest(token, keys, t, pol)
         IN  Minted(token, r) /\ (r.granted /\ r.identity = None => pol.anon)
<1> DEFINE r == HandleRequest(token, keys, t, pol)
           admission == CalloutIdentity(token, keys, t)
           perms == PermissionsFor(admission, pol.kernels)
<1>1. CASE ~r.granted
  BY <1>1, Zenon DEF Minted
<1>2. CASE r.granted
  <2>1. /\ token # Malformed
        /\ r = [granted |-> TRUE, identity |-> admission.sub, exp |-> admission.exp,
                pub |-> perms.pub, sub |-> perms.sub]
        /\ admission.sub = None => pol.anon
    BY <1>2, SMTT(30) DEF HandleRequest, Refusal, BuildUserJwt
  <2>2. CASE admission.sub = None
    <3>1. perms.pub = {} BY <2>2 DEF PermissionsFor
    <3> QED BY <2>1, <2>2, <3>1 DEF Minted
  <2>3. CASE admission.sub # None
    <3>1. /\ token # None /\ keys # None /\ VerifyJwt(token, keys, t)
          /\ admission = [sub |-> token.sub, exp |-> token.exp]
      BY <2>3, Zenon DEF CalloutIdentity, Anonymous
    <3>2. token \in Tokens /\ token.exp # None
      BY <2>1, <3>1, Zenon DEF VerifyJwt, VerifyEddsa
    <3>3. \E ks \in KeySets : \E jwk \in ks : Usable(jwk) /\ jwk.x = token.key
      BY <3>1, Zenon DEF VerifyJwt, VerifyEddsa, GoodKeys
    <3>4. ASSUME NEW p \in perms.pub
          PROVE  \E k \in OneToken(Names) :
                   p = InputSubject(k, SubjectToken(admission.sub)) /\ ResultSubject(k) \in perms.sub
      <4> HIDE DEF admission
      <4>1. /\ perms.pub = {InputSubject(k, SubjectToken(admission.sub)) : k \in pol.kernels}
            /\ {ResultSubject(k) : k \in pol.kernels} \subseteq perms.sub
        BY <2>3, Zenon DEF PermissionsFor
      <4> QED BY <4>1, SMTT(30)
    <3> QED BY <2>1, <2>3, <3>1, <3>2, <3>3, <3>4 DEF Minted
  <2> QED BY <2>2, <2>3
<1> QED BY <1>1, <1>2

-----------------------------------------------------------------------------
(* The worker's side: the policy is there before the responder is, holds    *)
(* only single tokens, and lags behind the settings only between their load *)
(* and the refresh of the same tick.                                        *)
WorkerInv ==
  /\ file \in Configs /\ guc \in Configs
  /\ sealed \subseteq Kernels /\ ledgerKernels \subseteq OneToken(Kernels)
  /\ policy # None => /\ policy.kernels \subseteq OneToken(Names)
                      /\ tick # "policy" => policy.anon = guc.anon
  /\ tick \in {"init", "roster"} \/ responder # None => policy # None
  /\ ~up => policy = None /\ responder = None /\ tick = "wait"
  /\ GoodKeys(auth)

(* The broker's side.                                                       *)
ConnOK(c, cn, t) ==
  /\ cn[c].state # "idle" => cn[c].token \in Tokens \cup {None, Malformed}
  /\ cn[c].state \in {"answered", "open"} => Minted(cn[c].token, cn[c].reply)
  /\ cn[c].state = "open" => cn[c].reply.granted /\ ~Expired(cn[c].reply, t)

ConnInv ==
  /\ now \in Nat
  /\ DOMAIN conn = Conns
  /\ \A c \in Conns : ConnOK(c, conn, now)

(* The filter of names only removes.                                        *)
LEMMA FilterSubset ==
  /\ \A A, B : A \subseteq B => OneToken(A) \subseteq OneToken(B)
  /\ \A A : OneToken(A) \subseteq A
BY Zenon DEF OneToken

(* The worker starts without a policy and without a responder.              *)
LEMMA WorkerInit == Init => WorkerInv
BY SMTT(30) DEF Init, WorkerInv, GoodKeys

(* Every step of the worker, the operator or the relay keeps the order of   *)
(* the copies.                                                              *)
LEMMA WorkerStep == WorkerInv /\ [Next]_vars => WorkerInv'
<1> SUFFICES ASSUME WorkerInv, [Next]_vars PROVE WorkerInv'
  OBVIOUS
<1> USE DEF WorkerInv
<1>1. CASE UNCHANGED worker /\ file' \in Configs /\ sealed' \subseteq Kernels
  BY <1>1, Zenon DEF worker, GoodKeys
<1>2. ASSUME NEW f \in Configs, Reconfigure(f) PROVE WorkerInv'
  BY <1>1, <1>2, Zenon DEF Reconfigure
<1>3. ASSUME NEW k \in Kernels, Germinate(k) \/ Retire(k) PROVE WorkerInv'
  BY <1>1, <1>3, Zenon DEF Germinate, Retire
<1>4. CASE Upgrade
  BY <1>1, <1>4, Zenon DEF Upgrade
<1>5. CASE Wake
  BY <1>5, Zenon DEF Wake, GoodKeys
<1>6. CASE RefreshCalloutPolicy
  <2> DEFINE kernels == OneToken(guc.kernels) \cup ledgerKernels
  <2>1. guc.kernels \subseteq Names /\ Kernels \subseteq Names
    BY Zenon DEF Names
  <2>2. kernels \subseteq OneToken(Names)
    BY <2>1, FilterSubset, Zenon
  <2>3. policy' \in Policies
    BY <1>6, <2>2, FilterSubset, ConfigsAssumption, Zenon
    DEF RefreshCalloutPolicy, Policies
  <2>4. policy' # None
    BY <2>3, NoneAssumption, Zenon
  <2> QED BY <1>6, <2>2, <2>4 DEF RefreshCalloutPolicy, GoodKeys, outside
<1>7. CASE InitRelay
  <2>1. GoodKeys(OidcAuthConfig(guc.jwks))
    <3>1. guc.jwks \subseteq UNION {f.jwks : f \in Configs} OBVIOUS
    <3> QED BY <3>1 DEF OidcAuthConfig, GoodKeys, KeySets
  <2>2. GoodKeys(auth)'
    BY <1>7, <2>1, Zenon DEF InitRelay, GoodKeys
  <2> QED BY <1>7, <2>2 DEF InitRelay, outside
<1>8. CASE RefreshLedgerKernels
  <2>1. OneToken(sealed) \subseteq OneToken(Kernels) BY FilterSubset
  <2> QED BY <1>8, <2>1 DEF RefreshLedgerKernels, GoodKeys, outside
<1>9. CASE SkipLedgerKernels \/ FiveSeconds
  BY <1>9, Zenon DEF SkipLedgerKernels, FiveSeconds, GoodKeys, outside
<1>10. CASE LedgerQueryRaises \/ Crash
  BY <1>10, Zenon DEF LedgerQueryRaises, Crash, Die, GoodKeys
<1>11. CASE Restart
  BY <1>11, Zenon DEF Restart, GoodKeys, outside
<1>12. CASE Subscribe \/ ThreadEnds
  BY <1>12, NoneAssumption, Zenon
  DEF Subscribe, ThreadEnds, GoodKeys, outside
<1>13. ASSUME NEW c \in Conns, NEW t, Connect(c, t) PROVE WorkerInv'
  BY <1>1, <1>13, Zenon DEF Connect, outside
<1>14. ASSUME NEW c \in Conns, Answer(c) \/ Admit(c) \/ Drop(c) PROVE WorkerInv'
  BY <1>1, <1>14, SMTT(30) DEF Answer, Admit, Drop, outside
<1>15. CASE Advance
  BY <1>1, <1>15, Zenon DEF Advance, outside
<1>16. CASE UNCHANGED vars
  BY <1>1, <1>16, Zenon DEF vars, outside
<1> QED
  BY <1>2, <1>3, <1>4, <1>5, <1>6, <1>7, <1>8, <1>9, <1>10, <1>11, <1>12,
     <1>13, <1>14, <1>15, <1>16, Zenon
  DEF Next, Tick

(* No connection is open at first.                                          *)
LEMMA ConnInit == Init => ConnInv
<1>1. Idle.state = "idle" BY DEF Idle
<1> QED BY <1>1 DEF Init, ConnInv, ConnOK

(* A connection changes by an answer, an admission or the clock only.       *)
LEMMA ConnStep == WorkerInv /\ ConnInv /\ [Next]_vars => ConnInv'
<1> SUFFICES ASSUME WorkerInv, ConnInv, [Next]_vars PROVE ConnInv'
  OBVIOUS
<1>0. Idle.state = "idle" BY DEF Idle
<1>1. CASE UNCHANGED <<now, conn>>
  BY <1>1, Zenon DEF ConnInv, ConnOK
<1>2. ASSUME NEW c \in Conns, NEW rec, now' = now, conn' = [conn EXCEPT ![c] = rec],
             rec.state # "idle" => rec.token \in Tokens \cup {None, Malformed},
             rec.state \in {"answered", "open"} => Minted(rec.token, rec.reply),
             rec.state = "open" => rec.reply.granted /\ ~Expired(rec.reply, now)
      PROVE  ConnInv'
  <2>1. conn'[c] = rec /\ \A d \in Conns \ {c} : conn'[d] = conn[d]
    BY <1>2, Zenon DEF ConnInv
  <2>2. DOMAIN conn' = Conns /\ now' \in Nat
    BY <1>2, Zenon DEF ConnInv
  <2>3. ASSUME NEW d \in Conns PROVE ConnOK(d, conn', now')
    <3>1. CASE d = c BY <1>2, <2>1, <3>1 DEF ConnOK
    <3>2. CASE d # c
      <4>1. ConnOK(d, conn, now) BY DEF ConnInv
      <4> QED BY <1>2, <2>1, <3>2, <4>1 DEF ConnOK
    <3> QED BY <3>1, <3>2
  <2> QED BY <2>2, <2>3 DEF ConnInv
<1>3. ASSUME NEW c \in Conns, NEW t \in Tokens \cup {None, Malformed}, Connect(c, t)
      PROVE  ConnInv'
  <2> DEFINE rec == [state |-> "asked", token |-> t]
  <2>1. now' = now /\ conn' = [conn EXCEPT ![c] = rec] BY <1>3 DEF Connect
  <2>2. rec.state = "asked" /\ rec.token = t OBVIOUS
  <2> HIDE DEF rec
  <2> QED BY <1>2, <2>1, <2>2, Zenon
<1>4. ASSUME NEW c \in Conns, Answer(c) PROVE ConnInv'
  <2> DEFINE r == HandleRequest(conn[c].token, auth, now, CalloutPolicy)
             rec == [state |-> "answered", token |-> conn[c].token, reply |-> r]
  <2>1. now' = now /\ conn' = [conn EXCEPT ![c] = rec] /\ conn[c].token \in Tokens \cup {None, Malformed}
    BY <1>4, Zenon DEF Answer, ConnInv, ConnOK
  <2>2. CalloutPolicy = policy /\ policy.kernels \subseteq OneToken(Names) /\ GoodKeys(auth)
    BY <1>4, NoneAssumption, Zenon DEF Answer, WorkerInv, CalloutPolicy
  <2>3. Minted(conn[c].token, r)
    BY <2>1, <2>2, HandlerMints, Zenon
  <2>4. rec.state = "answered" /\ rec.token = conn[c].token /\ rec.reply = r OBVIOUS
  <2> HIDE DEF rec, r
  <2> QED BY <1>2, <2>1, <2>3, <2>4, Zenon
<1>5. ASSUME NEW c \in Conns, Admit(c) PROVE ConnInv'
  <2> DEFINE opened == [state |-> "open", token |-> conn[c].token, reply |-> conn[c].reply]
  <2>1. ConnOK(c, conn, now) /\ conn[c].state = "answered" /\ now' = now
    BY <1>5, Zenon DEF Admit, ConnInv
  <2>2. \/ conn' = [conn EXCEPT ![c] = Idle]
        \/ /\ conn' = [conn EXCEPT ![c] = opened]
           /\ conn[c].reply.granted /\ ~Expired(conn[c].reply, now)
    BY <1>5, Zenon DEF Admit
  <2>3. opened.state = "open" /\ opened.token = conn[c].token /\ opened.reply = conn[c].reply
    OBVIOUS
  <2> HIDE DEF opened
  <2>4. CASE conn' = [conn EXCEPT ![c] = Idle]
    BY <1>0, <1>2, <2>1, <2>4, Zenon
  <2>5. CASE /\ conn' = [conn EXCEPT ![c] = opened]
             /\ conn[c].reply.granted /\ ~Expired(conn[c].reply, now)
    <3>1. conn[c].token \in Tokens \cup {None, Malformed} /\ Minted(conn[c].token, conn[c].reply)
      BY <2>1, Zenon DEF ConnOK
    <3> QED BY <1>2, <2>1, <2>3, <2>5, <3>1, Zenon
  <2> QED BY <2>2, <2>4, <2>5
<1>6. ASSUME NEW c \in Conns, Drop(c) PROVE ConnInv'
  BY <1>0, <1>2, <1>6, Zenon DEF Drop
<1>7. CASE Advance
  <2>1. now' \in Nat /\ DOMAIN conn' = Conns
    BY <1>7 DEF Advance, ConnInv
  <2>2. ASSUME NEW c \in Conns PROVE ConnOK(c, conn', now')
    <3>1. ConnOK(c, conn, now) BY DEF ConnInv
    <3>2. CASE conn[c].state = "open" /\ Expired(conn[c].reply, now + 1)
      <4>1. conn'[c] = Idle BY <1>7, <3>2 DEF Advance
      <4> QED BY <1>0, <4>1 DEF ConnOK
    <3>3. CASE ~(conn[c].state = "open" /\ Expired(conn[c].reply, now + 1))
      <4>1. conn'[c] = conn[c] /\ now' = now + 1 BY <1>7, <3>3 DEF Advance
      <4> QED BY <3>1, <3>3, <4>1 DEF ConnOK
    <3> QED BY <3>2, <3>3
  <2> QED BY <2>1, <2>2 DEF ConnInv
<1>8. CASE (\E f \in Configs : Reconfigure(f)) \/ (\E k \in Kernels : Germinate(k) \/ Retire(k)) \/ Upgrade
  BY <1>1, <1>8, SMTT(30) DEF Reconfigure, Germinate, Retire, Upgrade
<1>9. CASE Tick \/ FiveSeconds \/ Crash \/ Restart \/ Subscribe \/ ThreadEnds
  BY <1>1, <1>9, Zenon
  DEF Tick, Wake, RefreshCalloutPolicy, InitRelay, RefreshLedgerKernels,
      SkipLedgerKernels, LedgerQueryRaises, FiveSeconds, Crash, Die, Restart,
      Subscribe, ThreadEnds
<1>10. CASE UNCHANGED vars
  BY <1>1, <1>10, Zenon DEF vars
<1> QED BY <1>3, <1>4, <1>5, <1>6, <1>7, <1>8, <1>9, <1>10 DEF Next

(* Both sides together are inductive.                                       *)
LEMMA Invariant == Spec => [](WorkerInv /\ ConnInv)
<1>1. Init => WorkerInv /\ ConnInv BY WorkerInit, ConnInit
<1>2. (WorkerInv /\ ConnInv) /\ [Next]_vars => (WorkerInv /\ ConnInv)' BY WorkerStep, ConnStep
<1> QED BY <1>1, <1>2, PTL DEF Spec

(* A connection with an identity never outlives the token that earned it,   *)
(* for any leeway and any sequence of edits, crashes and restarts           *)
(* (handle_request and the expiry it mints).                                *)
THEOREM CredentialsBound == Spec => []CredentialBound
<1>1. ConnInv => CredentialBound
  <2> SUFFICES ASSUME ConnInv, NEW c \in Conns, conn[c].state = "open", conn[c].reply.identity # None
               PROVE  LET token == conn[c].token
                      IN  /\ token \in Tokens
                          /\ token.sub = conn[c].reply.identity
                          /\ \E keys \in KeySets : \E jwk \in keys : Usable(jwk) /\ jwk.x = token.key
                          /\ now < token.exp
    BY Zenon DEF CredentialBound
  <2>1. /\ conn[c].reply.granted /\ ~Expired(conn[c].reply, now)
        /\ Minted(conn[c].token, conn[c].reply) /\ now \in Nat
    BY SMTT(30) DEF ConnInv, ConnOK
  <2>2. /\ conn[c].token \in Tokens /\ conn[c].token.sub = conn[c].reply.identity
        /\ conn[c].reply.exp = conn[c].token.exp /\ conn[c].reply.exp # None
        /\ \E keys \in KeySets : \E jwk \in keys : Usable(jwk) /\ jwk.x = conn[c].token.key
    BY <2>1, Zenon DEF Minted
  <2>3. conn[c].token.exp \in Int
    BY <2>2, TokensAssumption
  <2>4. now < conn[c].token.exp
    BY <2>1, <2>2, <2>3, SMTT(30) DEF Expired
  <2> QED BY <2>2, <2>4
<1> QED BY <1>1, Invariant, PTL

(* Whatever the grants of a connection let it publish, the relay attributes *)
(* to that connection, exactly once, and answers where it may listen, for   *)
(* every identity a realm can issue and every name a roster can hold        *)
(* (permissions_for against route_inbound).                                 *)
THEOREM DoorIdentifies == Spec => []DoorIdentity
<1>1. ConnInv => DoorIdentity
  <2> SUFFICES ASSUME ConnInv, NEW c \in Conns, conn[c].state = "open",
                      NEW s \in Inputs, NEW p \in conn[c].reply.pub, Fits(p, s)
               PROVE  LET sub == conn[c].reply.identity
                          routed == RouteInbound(s)
                      IN  /\ sub # None
                          /\ Fits(RelayIdSubject, s) /\ ~Fits(RelayInSubject, s)
                          /\ routed.taken
                          /\ routed.kernel \in Names
                          /\ routed.identity = SubjectToken(sub)
                          /\ (sub # <<>> /\ \A i \in DOMAIN sub : sub[i] \in SafeChars)
                               => routed.identity = sub
                          /\ \E q \in conn[c].reply.sub : Fits(q, routed.result)
    BY Zenon DEF DoorIdentity
  <2> DEFINE sub == conn[c].reply.identity
  <2>1. conn[c].reply.granted /\ Minted(conn[c].token, conn[c].reply)
    BY SMTT(30) DEF ConnInv, ConnOK
  <2>2. sub # None
    BY <2>1, ZenonT(60) DEF Minted
  <2>3. conn[c].token \in Tokens /\ conn[c].token.sub = sub
    BY <2>1, <2>2, SMTT(30) DEF Minted
  <2>4. PICK k \in OneToken(Names) :
          p = InputSubject(k, SubjectToken(sub)) /\ ResultSubject(k) \in conn[c].reply.sub
    BY <2>1, <2>2, Zenon DEF Minted
  <2>5. k \in Names /\ k # Star /\ k # Rest
    BY NamesAreTokens, Zenon
  <2>6. SubjectToken(sub) # Star /\ SubjectToken(sub) # Rest
    BY IdentityIsToken, Zenon
  <2>7. Fits(InputSubject(k, SubjectToken(sub)), s)
    BY <2>4, SMTT(30)
  <2> HIDE DEF sub
  <2>8. /\ Fits(RelayIdSubject, s) /\ ~Fits(RelayInSubject, s)
        /\ RouteInbound(s).taken /\ RouteInbound(s).kernel = k
        /\ RouteInbound(s).identity = SubjectToken(sub)
        /\ Fits(ResultSubject(k), RouteInbound(s).result)
    BY <2>5, <2>6, <2>7, RelayedSubject
  <2>9. sub \in Seq(STRING)
    BY <2>2, <2>3, TokensAssumption, SMTT(30)
  <2>10. (sub # <<>> /\ \A i \in DOMAIN sub : sub[i] \in SafeChars) => SubjectToken(sub) = sub
    BY <2>9, SafeIdentityKept, Zenon
  <2> QED BY <2>2, <2>4, <2>5, <2>8, <2>10, ZenonT(30) DEF sub
<1> QED BY <1>1, Invariant, PTL

(* Once the worker has loaded admit_anonymous = off, an anonymous           *)
(* connection is granted only by an answer that falls between the load and  *)
(* the policy refresh of the same tick.                                     *)
THEOREM StrictHolds == Spec => StrictIsStrict
<1> DEFINE Step == \A c \in Conns :
                     /\ conn[c].state = "asked" /\ conn'[c].state = "answered"
                     /\ conn'[c].reply.granted /\ conn'[c].reply.identity = None
                     => guc.anon \/ tick = "policy"
<1>1. WorkerInv /\ ConnInv /\ [Next]_vars => [Step]_vars
  <2> SUFFICES ASSUME WorkerInv, ConnInv, Next, NEW c \in Conns,
                      conn[c].state = "asked", conn'[c].state = "answered",
                      conn'[c].reply.granted, conn'[c].reply.identity = None
               PROVE  guc.anon \/ tick = "policy"
    OBVIOUS
  <2>0. Idle.state = "idle" BY DEF Idle
  <2>1. Answer(c)
    <3>1. \E d \in Conns : Answer(d)
      <4>1. conn' # conn BY SMTT(30)
      <4>2. ~Advance
        BY <2>0, Zenon DEF Advance
      <4>3. ASSUME NEW d \in Conns, NEW t, Connect(d, t) PROVE FALSE
        <5>1. conn' = [conn EXCEPT ![d] = [state |-> "asked", token |-> t]] /\ conn[d].state = "idle"
          BY <4>3, Zenon DEF Connect
        <5>2. d # c BY <5>1
        <5> QED BY <5>1, <5>2
      <4>4. ASSUME NEW d \in Conns, Admit(d) PROVE FALSE
        <5>1. d # c BY <4>4 DEF Admit
        <5>2. conn'[c] = conn[c] BY <4>4, <5>1 DEF Admit
        <5> QED BY <5>2
      <4>5. ASSUME NEW d \in Conns, Drop(d) PROVE FALSE
        BY <2>0, <4>5, Zenon DEF Drop, ConnInv
      <4> QED BY <4>1, <4>2, <4>3, <4>4, <4>5, Zenon DEF Next, Tick, Reconfigure, Germinate, Retire,
            Upgrade, Wake, RefreshCalloutPolicy, InitRelay, RefreshLedgerKernels,
            SkipLedgerKernels, LedgerQueryRaises, FiveSeconds, Crash, Die, Restart, Subscribe,
            ThreadEnds
    <3>2. PICK d \in Conns : Answer(d) BY <3>1
    <3>3. d = c BY <3>2 DEF Answer
    <3> QED BY <3>2, <3>3
  <2>2. conn'[c].reply = HandleRequest(conn[c].token, auth, now, CalloutPolicy)
    BY <2>1, Zenon DEF Answer, ConnInv
  <2>3. conn[c].token \in Tokens \cup {None, Malformed}
    BY Zenon DEF ConnInv, ConnOK
  <2>4. /\ CalloutPolicy = policy /\ policy.kernels \subseteq OneToken(Names) /\ GoodKeys(auth)
        /\ tick # "policy" => policy.anon = guc.anon
    BY <2>1, NoneAssumption, SMTT(30) DEF Answer, WorkerInv, CalloutPolicy
  <2>5. policy.anon
    BY <2>2, <2>3, <2>4, HandlerMints, Zenon
  <2> QED BY <2>4, <2>5, Zenon
<1>2. StrictIsStrict <=> [][Step]_vars
  BY Zenon DEF StrictIsStrict
<1> QED BY <1>1, <1>2, Invariant, PTL DEF Spec
=============================================================================
