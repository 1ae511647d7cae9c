----------------------------- MODULE SwaggerOAuth -----------------------------
(***************************************************************************)
(* The OAuth login of the REST documentation page, lib/swagger-oauth.js:   *)
(* dialogs in which scopes are ticked, popups that the authorization       *)
(* server answers when it likes, the exchange of codes for tokens, and the *)
(* icons of the operations, which tell whether a token covers them.        *)
(*                                                                         *)
(* All of them share global variables of the page, and nothing keeps the   *)
(* user from logging in again, logging out or exploring another API while  *)
(* an answer is awaited: the page has no mask to show (popupMask).         *)
(***************************************************************************)
EXTENDS Naturals, Sequences, FiniteSets, SequencesExt, FiniteSetsExt

CONSTANTS Scopes, Ops, Keys, Endpoints,
          TokenNames, NoName,  \* names under which tokens are sent
          NoUrl, NoKey, NoScopes,
          MaxLogins,           \* bound on the dialogs
          Worlds               \* the circumstances considered (below)

\* One security scheme of an API: with a flow (2.0) or with grant types (1.2).  Its
\* list of scopes may be empty, or, as NoScopes, missing.
Schemes ==
  [key : Keys, oauth2 : BOOLEAN, scopes : Seq(Scopes) \cup {NoScopes},
   flow : {"implicit", "accessCode", "none"}, grants : Seq({"implicit", "accessCode"}),
   tokenName : TokenNames \cup {NoName}, tokenUrl : Endpoints]

Apis == [schemes : Seq(Schemes), required : [Ops -> SUBSET Scopes]]

\* The APIs that are explored, the first at first, and what users and servers do
\* with a popup.
Behaviours == {"grant", "deny", "close"}

ASSUME OAuthAssumption ==
  /\ MaxLogins \in Nat
  /\ "access_token" \in TokenNames /\ NoName \notin TokenNames
  /\ NoUrl \notin Endpoints /\ NoKey \notin Keys
  /\ \A w \in Worlds : w.apis \in Seq(Apis) /\ w.apis # <<>> /\ w.popups \subseteq Behaviours

VARIABLES
  world,
  api,            \* window.swaggerUi.api, a number of an API
  loading,        \* whether its operations and schemes are still to come
  dialogs,        \* the dialogs in the page, the oldest first
  popupDialog,    \* the dialogs that the global variable stands for
  tokenName, tokenUrl, oauth2KeyName, enabledScopes,
  popups,         \* windows that are open
  exchanges,      \* codes that were posted
  icon, info,     \* of each operation
  authz           \* clientAuthorizations.authz: the token of each key, if any

names == <<tokenName, tokenUrl>>
page == <<icon, info, authz>>
ui == <<api, loading, dialogs, popupDialog, names, oauth2KeyName, enabledScopes, popups,
        exchanges, page>>
vars == <<world, ui>>

Api == world.apis[api]
AuthSchemes == IF loading THEN <<>> ELSE Api.schemes
Shown == IF loading THEN {} ELSE Ops

Dialogs ==
  [scopes : Seq(Scopes), ticked : SUBSET Nat, shown : BOOLEAN, emptied : BOOLEAN,
   bound : BOOLEAN]
\* What an answer to a popup can bring: a token, or a code that one endpoint takes.
Windows ==
  [dialog : 1 .. MaxLogins, kind : {"token", "code"}, name : TokenNames,
   endpoint : Endpoints, scopes : SUBSET Scopes]
Tokens == [dialog : 1 .. MaxLogins, scopes : SUBSET Scopes]

TypeOK ==
  /\ api \in DOMAIN world.apis /\ loading \in BOOLEAN
  /\ dialogs \in Seq(Dialogs) /\ Len(dialogs) <= MaxLogins
  /\ popupDialog \subseteq DOMAIN dialogs
  /\ tokenName \in TokenNames \cup {NoName} /\ tokenUrl \in Endpoints \cup {NoUrl}
  /\ oauth2KeyName \in Keys \cup {NoKey}
  /\ enabledScopes \in (SUBSET Scopes) \cup {NoScopes}
  /\ popups \subseteq Windows
  /\ \A x \in exchanges : x.window \in Windows /\ x.url \in Endpoints /\ x.code \in BOOLEAN
  /\ icon \in [Ops -> {"on", "off"}]
  /\ info \in [Ops -> SUBSET {"error", "warning", "info"}]
  /\ authz \in [Keys \cup {NoKey} -> SUBSET Tokens]

Init ==
  /\ world \in Worlds
  /\ api = 1 /\ loading = TRUE
  /\ dialogs = <<>> /\ popupDialog = {}
  /\ tokenName = NoName /\ tokenUrl = NoUrl /\ oauth2KeyName = NoKey
  /\ enabledScopes = NoScopes
  /\ popups = {} /\ exchanges = {}
  /\ icon = [op \in Ops |-> "off"] /\ info = [op \in Ops |-> {"error"}]
  /\ authz = [k \in Keys \cup {NoKey} |-> {}]

-----------------------------------------------------------------------------
(* handleLogin and the dialog *)
OAuth2(s) == s.oauth2 /\ s.scopes # NoScopes
ScopesOf(schemes) == FlattenSeq([i \in DOMAIN schemes |->
                                   IF OAuth2(schemes[i]) THEN schemes[i].scopes ELSE <<>>])

\* The key is that of the last scheme that lists scopes, be it none.
KeyOf(schemes) ==
  LET found == {i \in DOMAIN schemes : OAuth2(schemes[i])}
  IN IF found = {} THEN oauth2KeyName ELSE schemes[Max(found)].key

NewDialog ==
  [scopes |-> ScopesOf(AuthSchemes), ticked |-> {}, shown |-> TRUE, emptied |-> FALSE,
   bound |-> TRUE]

\* The buttons of every dialog lose their handlers, those of the new one get one.
\* Mutant: the others keep theirs.
KeepHandlers(ds) == ds
Unbind(ds) == [d \in DOMAIN ds |-> [ds[d] EXCEPT !.bound = FALSE]]

HandleLogin(op) ==
  /\ op \in Shown /\ icon[op] = "off" /\ Len(dialogs) < MaxLogins
  /\ oauth2KeyName' = KeyOf(AuthSchemes)
  /\ dialogs' = Append(Unbind(dialogs), NewDialog)
  /\ popupDialog' = {Len(dialogs) + 1}
  /\ UNCHANGED <<api, loading, names, enabledScopes, popups, exchanges, page>>

Open(d) == dialogs[d].shown /\ ~dialogs[d].emptied

\* A label is for the first box with its number, which may be in an older dialog.
BoxOf(i) ==
  Min({d \in DOMAIN dialogs : ~dialogs[d].emptied /\ i \in DOMAIN dialogs[d].scopes})

Tick(d, i) ==
  /\ Open(d) /\ i \in DOMAIN dialogs[d].scopes
  /\ \E box \in {d, BoxOf(i)} :
       dialogs' = [dialogs EXCEPT ![box].ticked = (@ \cup {i}) \ (@ \cap {i})]
  /\ UNCHANGED <<api, loading, popupDialog, names, oauth2KeyName, enabledScopes, popups,
                 exchanges, page>>

Hidden(ds) == [d \in DOMAIN ds |-> [ds[d] EXCEPT !.shown = @ /\ d \notin popupDialog]]

\* Cancel, in any dialog, is about the dialog of the global variable.
Cancel(d) ==
  /\ Open(d)
  /\ dialogs' = [e \in DOMAIN dialogs |->
                   [Hidden(dialogs)[e] EXCEPT !.emptied = @ \/ e \in popupDialog]]
  /\ popupDialog' = {}
  /\ UNCHANGED <<api, loading, names, oauth2KeyName, enabledScopes, popups, exchanges, page>>

\* What is ticked in any dialog of the page.
Ticked ==
  UNION {{dialogs[d].scopes[i] : i \in dialogs[d].ticked} :
           d \in {d \in DOMAIN dialogs : ~dialogs[d].emptied}}

\* A server names its token access_token unless told otherwise, and so does the page.
\* Mutant: the page takes the name as it is.
NameAsGiven(s) == s.tokenName
ServerName(s) == IF s.tokenName = NoName THEN "access_token" ELSE s.tokenName

\* Mutant: the url of the tokens is taken for the other flow.
WithTokenUrl(s) == IF s.flow = "implicit" THEN s.tokenUrl ELSE NoUrl
TokenUrlOf(s) == IF s.flow = "accessCode" THEN s.tokenUrl ELSE NoUrl

HasFlow(s) == s.oauth2 /\ s.flow # "none"
Flows(schemes) == {i \in DOMAIN schemes : HasFlow(schemes[i])}
Deciding(schemes) == Flows(schemes) \cup {i \in DOMAIN schemes : schemes[i].grants # <<>>}

\* What a scheme asks for, by its flow or else by the last of its grant types.
KindOf(s) ==
  IF (IF HasFlow(s) THEN s.flow ELSE Last(s.grants)) = "implicit" THEN "token" ELSE "code"
NameOf(s) == IF HasFlow(s) THEN ServerName(s) ELSE s.tokenName

\* The last scheme that has a flow or grant types decides; the latter leave tokenUrl.
\* A page without such a scheme opens a window that nobody answers.
Authorize(d) ==
  LET schemes == AuthSchemes
      last == schemes[Max(Deciding(schemes))]
  IN /\ Open(d) /\ dialogs[d].bound
     /\ dialogs' = Hidden(dialogs)
     /\ enabledScopes' = Ticked
     /\ tokenUrl' = IF Flows(schemes) = {} THEN tokenUrl
                    ELSE TokenUrlOf(schemes[Max(Flows(schemes))])
     /\ IF Deciding(schemes) = {} THEN UNCHANGED <<tokenName, popups>>
        ELSE /\ tokenName' = NameOf(last)
             /\ popups' = popups \cup
                  {[dialog |-> d, kind |-> KindOf(last), name |-> ServerName(last),
                    endpoint |-> last.tokenUrl, scopes |-> Ticked]}
     /\ UNCHANGED <<api, loading, popupDialog, oauth2KeyName, exchanges, page>>

-----------------------------------------------------------------------------
(* handleLogout.  window.authorizations has no tokens, so none is removed. *)
HandleLogout(op) ==
  /\ op \in Shown
  /\ enabledScopes' = NoScopes
  /\ icon' = [o \in Ops |-> "off"]
  /\ info' = [o \in Ops |-> IF "warning" \in info[o]
                            THEN (info[o] \cup {"error"}) \ {"warning"} ELSE info[o]]
  /\ UNCHANGED <<api, loading, dialogs, popupDialog, names, oauth2KeyName, popups, exchanges,
                 authz>>

-----------------------------------------------------------------------------
(* onOAuthComplete *)
\* Scopes that were never enabled, or not since a logout, are missing to nothing.
Satisfied(op) == enabledScopes # NoScopes => Api.required[op] \subseteq enabledScopes

\* Mutant: a warning stays when all scopes are satisfied.
KeepsWarning(op) ==
  IF Satisfied(op) THEN (info[op] \cup {"info"}) \ {"error"}
  ELSE (info[op] \cup {"warning"}) \ {"error"}
InfoOf(op) ==
  IF Satisfied(op) THEN (info[op] \cup {"info"}) \ {"warning", "error"}
  ELSE (info[op] \cup {"warning"}) \ {"error"}

\* Mutant: only when all operations are satisfied.
AddWhenAllSatisfied(token) ==
  authz' = IF \A op \in Shown : Satisfied(op)
           THEN [authz EXCEPT ![oauth2KeyName] = {token}] ELSE authz
Add(token) == authz' = [authz EXCEPT ![oauth2KeyName] = {token}]

\* A token under another name is none.
Complete(w, name) ==
  IF name = tokenName
  THEN /\ icon' = [op \in Ops |-> IF op \in Shown
                                  THEN IF Satisfied(op) THEN "on" ELSE "off" ELSE icon[op]]
       /\ info' = [op \in Ops |-> IF op \in Shown THEN InfoOf(op) ELSE info[op]]
       /\ Add([dialog |-> w.dialog, scopes |-> w.scopes])
  ELSE UNCHANGED page

\* o2c.html in the popup: what came is posted as a code, if the page has an url now.
PostCode(w, code) ==
  /\ exchanges' = exchanges \cup {[window |-> w, url |-> tokenUrl, code |-> code]}
  /\ UNCHANGED <<dialogs, page>>

Answered(w) ==
  /\ w \in popups /\ popups' = popups \ {w}
  /\ UNCHANGED <<api, loading, popupDialog, names, oauth2KeyName, enabledScopes>>

Granted(w) ==
  /\ "grant" \in world.popups /\ Answered(w)
  /\ IF tokenUrl # NoUrl THEN PostCode(w, w.kind = "code")
     ELSE /\ IF w.kind = "token" THEN Complete(w, w.name) ELSE UNCHANGED page
          /\ UNCHANGED <<dialogs, exchanges>>

\* An error unticks every box.
Denied(w) ==
  /\ "deny" \in world.popups /\ Answered(w)
  /\ IF tokenUrl # NoUrl THEN PostCode(w, FALSE)
     ELSE /\ dialogs' = [d \in DOMAIN dialogs |-> [dialogs[d] EXCEPT !.ticked = {}]]
          /\ UNCHANGED <<exchanges, page>>

Closed(w) ==
  /\ "close" \in world.popups /\ Answered(w)
  /\ UNCHANGED <<dialogs, exchanges, page>>

\* The endpoint takes a code of its own; any other answer is an error, onOAuthComplete("").
Exchanged(x) ==
  /\ x \in exchanges /\ exchanges' = exchanges \ {x}
  /\ IF x.code /\ x.url = x.window.endpoint
     THEN Complete(x.window, x.window.name) ELSE UNCHANGED page
  /\ UNCHANGED <<api, loading, dialogs, popupDialog, names, oauth2KeyName, enabledScopes, popups>>

-----------------------------------------------------------------------------
\* The header explores an API: the operations go, and the tokens move along.
Explore(a) ==
  /\ ~loading /\ a \in DOMAIN world.apis
  /\ api' = a /\ loading' = TRUE
  /\ icon' = [op \in Ops |-> "off"] /\ info' = [op \in Ops |-> {"error"}]
  /\ UNCHANGED <<dialogs, popupDialog, names, oauth2KeyName, enabledScopes, popups, exchanges,
                 authz>>

\* onComplete calls initOAuth, which finds the dialogs that are in the page.
InitOAuth ==
  /\ loading /\ loading' = FALSE
  /\ popupDialog' = DOMAIN dialogs
  /\ UNCHANGED <<api, dialogs, names, oauth2KeyName, enabledScopes, popups, exchanges, page>>

User ==
  \/ \E op \in Ops : HandleLogin(op) \/ HandleLogout(op)
  \/ \E d \in DOMAIN dialogs :
       \/ Cancel(d) \/ Authorize(d)
       \/ \E i \in DOMAIN dialogs[d].scopes : Tick(d, i)
  \/ \E a \in DOMAIN world.apis : Explore(a)

Popup(w) == Granted(w) \/ Denied(w) \/ Closed(w)

Step ==
  \/ User \/ InitOAuth
  \/ \E w \in popups : Popup(w)
  \/ \E x \in exchanges : Exchanged(x)

Next == Step /\ UNCHANGED world
Spec == Init /\ [][Next]_vars

\* The user does something about a popup, and servers answer.
FairSpec ==
  /\ Spec
  /\ \A d \in 1 .. MaxLogins :
       /\ WF_popups(\E w \in popups : w.dialog = d /\ Popup(w))
       /\ WF_exchanges(\E x \in exchanges : x.window.dialog = d /\ Exchanged(x))

-----------------------------------------------------------------------------
\* A login can be authorized from one dialog at most, the newest, and doing so hides
\* it: no dialog opens two popups (the handlers that handleLogin binds and unbinds).
OneLiveDialog ==
  \A d \in DOMAIN dialogs :
    (Open(d) /\ dialogs[d].bound) => d = Len(dialogs) /\ d \in popupDialog

\* The icon of an operation and its info box agree: it is on only when the box says
\* that all scopes are satisfied, and never both warns and has an error
\* (onOAuthComplete and handleLogout).
IconsAgree ==
  \A op \in Ops :
    /\ icon[op] = "on" => info[op] = {"info"}
    /\ ~({"error", "warning"} \subseteq info[op])

\* An icon is on only when there is a token (clientAuthorizations.add).
OnWithToken == (\E op \in Ops : icon[op] = "on") => \E k \in DOMAIN authz : authz[k] # {}

\* With one API whose schemes have flows, and servers that grant, every login brings
\* its token to the client (o2c.html, processOAuthCode and onOAuthComplete).
Plain == Len(world.apis) = 1 /\ \A s \in Range(world.apis[1].schemes) : s.grants = <<>>
LoginBringsToken ==
  \A d \in 1 .. MaxLogins :
    (Plain /\ world.popups = {"grant"} /\ \E w \in popups : w.dialog = d)
      ~> \E k \in DOMAIN authz : \E token \in authz[k] : token.dialog = d

\* "all scopes are satisfied" (swagger-oauth.js:273): the icon of an operation is on
\* only when a token has the scopes that it requires.
SatisfiedMeansCovered ==
  \A op \in Ops : icon[op] = "on" =>
    \E k \in DOMAIN authz : \E token \in authz[k] : Api.required[op] \subseteq token.scopes
=============================================================================
