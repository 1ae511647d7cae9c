---------------------------- MODULE MCSwaggerOAuth ----------------------------
(* Instance of SwaggerOAuth for TLC: two operations, of which one requires both *)
(* scopes, and APIs of either version.                                          *)
EXTENDS SwaggerOAuth

CONSTANTS k1, k2, e1, e2, read, write, o1, o2

MCScopes == {read, write}
MCOps == {o1, o2}
MCKeys == {k1, k2}
MCEndpoints == {e1, e2}
MCTokenNames == {"access_token", "token"}

Required == [op \in MCOps |-> IF op = o1 THEN {read} ELSE {read, write}]
Scheme(key, flow, scopes, name, url) ==
  [key |-> key, oauth2 |-> TRUE, scopes |-> scopes, flow |-> flow, grants |-> <<>>,
   tokenName |-> name, tokenUrl |-> url]
ApiKey == [Scheme(k2, "none", NoScopes, NoName, e2) EXCEPT !.oauth2 = FALSE]
Empty == Scheme(k2, "none", <<>>, NoName, e2)
Password == Scheme(k2, "none", <<read>>, NoName, e2)
Code(scopes) == Scheme(k1, "accessCode", scopes, NoName, e1)
OfVersion12 ==
  [Scheme(k2, "none", <<read>>, "token", e2) EXCEPT !.grants = <<"accessCode", "implicit">>]

ApiWith(schemes) == [schemes |-> schemes, required |-> Required]
Implicit == ApiWith(<<Scheme(k1, "implicit", <<read, write>>, "token", e1), ApiKey>>)
AccessCode == ApiWith(<<Password, Code(<<write>>)>>)
BothFlows == ApiWith(<<Code(<<read>>), Scheme(k2, "implicit", <<write>>, "token", e2)>>)
OneScope == ApiWith(<<Code(<<read>>), Empty>>)
Version12 == ApiWith(<<OfVersion12>>)

Grants(apis) == [apis |-> apis, popups |-> {"grant"}]
Anything(apis) == [apis |-> apis, popups |-> Behaviours]
MCWorlds ==
  {Grants(<<Implicit>>), Grants(<<AccessCode>>), Grants(<<BothFlows>>),
   Anything(<<Implicit>>), Anything(<<OneScope, Version12>>)}
=============================================================================
