---------------------------- MODULE MCAdmission -----------------------------
(* One connection at a time; tokens that differ from a good one in one      *)
(* respect each; two kernels, one named by the file and one sealed.         *)
EXTENDS Admission

CONSTANTS realmKey, otherKey, issuer, audience

Good ==
  [alg |-> "EdDSA", kid |-> "k1", key |-> realmKey, iss |-> issuer, aud |-> {audience},
   exp |-> 2, nbf |-> None, sub |-> <<"u">>]

MCTokens ==
  {Good,
   [Good EXCEPT !.key = otherKey],   \* not signed by the realm
   [Good EXCEPT !.sub = <<"*">>]}    \* an identity that is no token

Key(kty, x) == [kid |-> "k1", kty |-> kty, x |-> x, crv |-> "Ed25519"]

A == <<"a">>
B == <<"b">>

(* A sound configuration, its strict form with a name that is no token, and *)
(* one with neither a usable key nor an account seed.                       *)
MCConfigs ==
  {[anon |-> TRUE, kernels |-> {A}, jwks |-> {Key("OKP", realmKey)}, seed |-> "account"],
   [anon |-> FALSE, kernels |-> {A, <<"*">>}, jwks |-> {Key("OKP", realmKey)}, seed |-> "account"],
   [anon |-> TRUE, kernels |-> {}, jwks |-> {Key("RSA", realmKey)}, seed |-> "user"]}

MCKernels == {B}

(* Every shape of an input subject over the names in play.                  *)
MCInputs ==
  LET input(k, rest) == <<<<"input">>, <<"kernel">>, k>> \o rest
      names == {A, B, <<"x">>}
      ids == {<<"u">>, <<"-">>, <<"v">>, <<"action">>}
  IN  {input(k, <<<<"action">>, <<"v">>>>) : k \in names}
      \cup {input(k, <<<<"id">>, i, <<"action">>>> \o verb) :
              k \in names, i \in ids, verb \in {<<<<"v">>>>, <<<<"v">>, <<"action">>>>}}

MCSafe == {"a", "b", "u", "v", "x", "-"}
MCMeta == {".", "*", ">", " "}
=============================================================================
