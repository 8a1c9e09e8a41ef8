------------------------------ MODULE Callout -------------------------------
(* The auth callout as functions (src/auth_callout.rs, jwt_verify.rs, and   *)
(* route_inbound of nats_client.rs): what token is believed, what user-JWT  *)
(* is minted for it, and how the relay reads the subject an admitted        *)
(* connection publishes on.                                                 *)
EXTENDS Subjects, Integers

CONSTANTS
  Issuer, Audience,  \* what pgck.oidc_issuer and pgck.oidc_audience name
  Leeway,            \* leeway_secs of AuthConfig: 30 in the code
  SafeChars,         \* the characters [A-Za-z0-9_-]
  MetaChars,         \* . * > and white space
  Malformed,         \* a text request without the fields of one
  None

ASSUME CharsAssumption ==
  {"*", ">"} \subseteq MetaChars /\ MetaChars \cap (SafeChars \cup {"-"}) = {}

-----------------------------------------------------------------------------
(* jwt_verify.rs.  A JWKS document is a set of entries [kty, crv, kid, x]   *)
(* with distinct kids.  A token names its `alg` and `kid` in the header, is *)
(* signed by `key`, and has claims iss, aud (a set), exp, nbf and sub, None *)
(* when absent; one that is not three segments of JSON has alg None.        *)

Usable(jwk) == jwk.kty = "OKP" /\ jwk.crv = "Ed25519" /\ None \notin {jwk.kid, jwk.x}

(* Jwks::parse, AuthConfig::from_parts and oidc_auth_config: no usable key, *)
(* a URL or no document at all leave tokens unverified.                     *)
OidcAuthConfig(jwks) ==
  LET keys == {jwk \in jwks : Usable(jwk)} IN IF keys = {} THEN None ELSE keys

(* parse_account_seed: the seed of another kind of key starts no responder. *)
ParseAccountSeed(seed) == seed = "account"

(* The header, the signature, then the claims.                              *)
VerifyEddsa(token, key, now) ==
  /\ token.alg = "EdDSA"
  /\ token.key = key
  /\ token.iss = Issuer
  /\ Audience \in token.aud
  /\ token.exp # None /\ token.exp + Leeway > now
  /\ token.nbf # None => token.nbf - Leeway <= now
  /\ token.sub # None

(* The key is looked up by the token's `kid`.                               *)
VerifyJwt(token, keys, now) ==
  \E jwk \in keys : jwk.kid = token.kid /\ VerifyEddsa(token, jwk.x, now)

Anonymous == [sub |-> None, exp |-> None]

(* Variant: the user-JWT gets the verifier's leeway too.                    *)
CalloutIdentityLenient(token, keys, now) ==
  IF token # None /\ keys # None /\ VerifyJwt(token, keys, now)
  THEN [sub |-> token.sub, exp |-> token.exp + Leeway]
  ELSE Anonymous

(* Anything but a token that verifies is anonymous.                         *)
CalloutIdentity(token, keys, now) ==
  IF token # None /\ keys # None /\ VerifyJwt(token, keys, now)
  THEN [sub |-> token.sub, exp |-> token.exp]
  ELSE Anonymous

-----------------------------------------------------------------------------
(* auth_callout.rs.                                                         *)

(* Variant: the claim goes into the subject as it is.                       *)
SubjectTokenRaw(sub) == sub

SubjectToken(sub) ==
  IF sub = <<>> THEN <<"-">>
  ELSE [i \in DOMAIN sub |-> IF sub[i] \in SafeChars THEN sub[i] ELSE "-"]

EventSubject(k) == <<<<"event">>, <<"kernel">>, k, Rest>>
ResultSubject(k) == <<<<"result">>, <<"kernel">>, k, Rest>>
InputSubject(k, token) ==
  <<<<"input">>, <<"kernel">>, k, <<"id">>, token, <<"action">>, Rest>>
InboxSubject == <<<<"_INBOX">>, Rest>>

PermissionsFor(admission, kernels) ==
  LET events == {EventSubject(k) : k \in kernels}
  IN  IF admission.sub = None THEN [pub |-> {}, sub |-> events]
      ELSE [pub |-> {InputSubject(k, SubjectToken(admission.sub)) : k \in kernels},
            sub |-> events \cup {ResultSubject(k) : k \in kernels}
                           \cup {InboxSubject}]

Refusal == [granted |-> FALSE]

(* The user-JWT inherits the token's expiry; without a pub grant it denies  *)
(* every subject.                                                           *)
BuildUserJwt(admission, perms) ==
  [granted |-> TRUE, identity |-> admission.sub, exp |-> admission.exp,
   pub |-> perms.pub, sub |-> perms.sub]

(* A signed response with an error or with a user-JWT.                      *)
HandleRequest(token, keys, now, policy) ==
  IF token = Malformed THEN Refusal
  ELSE LET admission == CalloutIdentity(token, keys, now)
       IN  IF admission.sub = None /\ ~policy.anon THEN Refusal
           ELSE BuildUserJwt(admission, PermissionsFor(admission, policy.kernels))

-----------------------------------------------------------------------------
(* nats_client.rs: the relay's subscriptions and what it makes of a subject.*)

RelayInSubject == <<<<"input">>, <<"kernel">>, Star, <<"action">>, Rest>>
RelayIdSubject ==
  <<<<"input">>, <<"kernel">>, Star, <<"id">>, Star, <<"action">>, Rest>>

RouteInbound(subject) ==
  LET scoped == Len(subject) > 3 /\ subject[4] = <<"id">>
      at == IF scoped THEN 6 ELSE 4
      verb == SubSeq(subject, at + 1, Len(subject))
  IN  IF /\ Len(subject) > at
         /\ subject[1] = <<"input">> /\ subject[2] = <<"kernel">>
         /\ subject[3] # <<>>
         /\ scoped => subject[5] # <<>>
         /\ subject[at] = <<"action">>
         /\ verb # <<<<>>>>
      THEN [taken |-> TRUE, kernel |-> subject[3],
            identity |-> IF scoped THEN subject[5] ELSE None,
            result |-> <<<<"result">>, <<"kernel">>, subject[3]>> \o verb]
      ELSE [taken |-> FALSE]
=============================================================================
