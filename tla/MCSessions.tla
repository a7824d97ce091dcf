----------------------------- MODULE MCSessions -----------------------------
(***************************************************************************)
(* Instances of Sessions for TLC.                                           *)
(***************************************************************************)
EXTENDS Sessions, TLC

CONSTANTS r1, r2, ann, bob, t1, t2

MCSymmetry == Permutations(Request) \union Permutations(Token)
\* CONSTRAINT: what comes through the proxy carries no session cookie, which the
\* gate would not look at.
CookieOrProxy ==
  \A r \in Request : request[r].header # NoName => request[r].token = NoToken
=============================================================================
