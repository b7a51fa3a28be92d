--------------------------- MODULE MCOAuthProvider ---------------------------
(***************************************************************************)
(* Small instances of OAuthProvider for TLC.                               *)
(***************************************************************************)
EXTENDS OAuthProvider, TLC

CONSTANTS read, execute, account, g1, g2

MCScopes == {read, execute}

\* Any set of scopes is asked for; one that is granted, or one that may not be.
Anything == SUBSET MCScopes
OneScope == {{s} : s \in MCScopes}

\* Of three scopes the user approves two; the client asks for none, for one of them,
\* or for one of them and the third.
ThreeScopes == {read, execute, account}
Overlapping == {{}, {execute}, {execute, account}}
Narrow == (g1 :> {read, execute})

\* The user approves one scope, or an answer without scopes.
Either == (g1 :> {read}) @@ (g2 :> {})

Symmetric == Permutations(Exchanges)
=============================================================================
