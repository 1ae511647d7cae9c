-------------------------- MODULE SwaggerOAuthProofs --------------------------
(* Proofs about SwaggerOAuth for every set of operations, scopes and worlds and *)
(* any number of logins.                                                        *)
EXTENDS SwaggerOAuth, FiniteSetTheorems, SequenceTheorems, WellFoundedInduction, TLAPS

USE OAuthAssumption

\* The lists of scopes that dialogs can have, and the numbers of their boxes.
Lists == {ScopesOf(world.apis[a].schemes) : a \in DOMAIN world.apis} \cup {ScopesOf(<<>>)}
Boxes == UNION {DOMAIN list : list \in Lists}
Entries ==
  [scopes : Lists, ticked : SUBSET Boxes, shown : BOOLEAN, emptied : BOOLEAN, bound : BOOLEAN]

Places == world \in Worlds /\ api \in DOMAIN world.apis /\ loading \in BOOLEAN
DialogsInPage == dialogs \in Seq(Entries) /\ popupDialog \subseteq DOMAIN dialogs
Icons == icon \in [Ops -> {"on", "off"}] /\ info \in [Ops -> SUBSET {"error", "warning", "info"}]
Tokened ==
  DOMAIN authz = Keys \cup {NoKey} /\ oauth2KeyName \in Keys \cup {NoKey}

IInv ==
  /\ Places /\ DialogsInPage /\ Icons /\ Tokened
  /\ OneLiveDialog /\ IconsAgree /\ OnWithToken

-----------------------------------------------------------------------------
\* A finite set of numbers that is not empty has a greatest.
LEMMA MaxInSet ==
  ASSUME NEW n \in Nat, NEW S \in SUBSET (1 .. n), S # {}
  PROVE  Max(S) \in S
  <1>. DEFINE Above(i) == {j \in S : j > i}
              T == {Above(i) : i \in S}
              R == StrictSubsetOrdering(1 .. n)
  <1>1. IsFiniteSet(1 .. n)
    BY FS_Interval
  <1>2. IsWellFoundedOn(R, FiniteSubsetsOf(1 .. n))
    BY FS_StrictSubsetOrderingWellFounded
  <1>3. T \subseteq FiniteSubsetsOf(1 .. n)
    BY <1>1, FS_FiniteSubsetsOfFinite
  <1>4. T # {}
    OBVIOUS
  <1>5. \E x \in T : \A y \in T : <<y, x>> \notin R
    <2>. HIDE DEF T, R
    <2>. QED
      BY <1>2, <1>3, <1>4, WFMin
  <1>6. PICK i \in S : \A j \in S : <<Above(j), Above(i)>> \notin R
    BY <1>5
  <1>7. \A j \in S : i >= j
    <2>1. SUFFICES ASSUME NEW j \in S, j > i PROVE FALSE
      OBVIOUS
    <2>2. \A k \in S : k \in Nat
      OBVIOUS
    <2>3. Above(j) \subseteq Above(i)
      <3>1. SUFFICES ASSUME NEW k \in Above(j) PROVE k \in Above(i)
        OBVIOUS
      <3>2. k \in S /\ k > j
        OBVIOUS
      <3>3. k \in Nat /\ j \in Nat /\ i \in Nat
        BY <2>2, <3>2
      <3>4. k > i
        BY <2>1, <3>2, <3>3
      <3>. QED
        BY <3>2, <3>4
    <2>4. j \in Above(i) /\ j \notin Above(j)
      BY <2>1, <2>2
    <2>5. Above(j) \in SUBSET (1 .. n) /\ Above(i) \in SUBSET (1 .. n)
      OBVIOUS
    <2>6. <<Above(j), Above(i)>> \in R
      BY <2>3, <2>4, <2>5 DEF StrictSubsetOrdering
    <2>. QED
      BY <1>6, <2>6
  <1>. QED
    BY <1>7 DEF Max

LEMMA SchemesTyped ==
  ASSUME Places
  PROVE  AuthSchemes \in Seq(Schemes) /\ ScopesOf(AuthSchemes) \in Lists
  <1>1. CASE loading
    <2>1. AuthSchemes = <<>>
      BY <1>1 DEF AuthSchemes
    <2>. QED
      BY <2>1 DEF Lists
  <1>2. CASE ~loading
    <2>1. world.apis \in Seq(Apis) /\ api \in DOMAIN world.apis
      BY DEF Places
    <2>2. world.apis[api] \in Apis
      BY <2>1
    <2>. QED
      BY <1>2, <2>1, <2>2 DEF AuthSchemes, Api, Apis, Lists
  <1>. QED
    BY <1>1, <1>2

LEMMA KeyTyped ==
  ASSUME Places, Tokened
  PROVE  KeyOf(AuthSchemes) \in Keys \cup {NoKey}
  <1>. DEFINE schemes == AuthSchemes
              found == {i \in DOMAIN schemes : OAuth2(schemes[i])}
  <1>1. schemes \in Seq(Schemes)
    BY SchemesTyped
  <1>2. CASE found = {}
    BY <1>2 DEF KeyOf, Tokened
  <1>3. CASE found # {}
    <2>1. Len(schemes) \in Nat /\ found \subseteq 1 .. Len(schemes)
      BY <1>1
    <2>2. Max(found) \in found
      <3>. HIDE DEF found
      <3>. QED
        BY <1>3, <2>1, MaxInSet
    <2>3. schemes[Max(found)] \in Schemes
      BY <1>1, <2>2
    <2>. QED
      BY <1>3, <2>3 DEF KeyOf, Schemes
  <1>. QED
    BY <1>2, <1>3

LEMMA InitIInv == Init => IInv
  <1>. SUFFICES ASSUME Init PROVE IInv
    OBVIOUS
  <1>1. Places
    <2>1. world.apis \in Seq(Apis) /\ world.apis # <<>>
      BY DEF Init
    <2>. QED
      BY <2>1 DEF Init, Places
  <1>2. DialogsInPage /\ OneLiveDialog
    BY EmptySeq DEF Init, DialogsInPage, OneLiveDialog
  <1>3. Icons /\ IconsAgree /\ Tokened /\ OnWithToken
    BY DEF Init, Icons, IconsAgree, Tokened, OnWithToken
  <1>. QED
    BY <1>1, <1>2, <1>3 DEF IInv

-----------------------------------------------------------------------------
(* The dialogs *)
\* A step that changes, of the dialogs in the page, only what is ticked, or hides and
\* empties some.
Fades ==
  /\ dialogs' \in Seq(Entries) /\ Len(dialogs') = Len(dialogs)
  /\ \A d \in DOMAIN dialogs : Open(d)' => Open(d) /\ dialogs'[d].bound = dialogs[d].bound
  /\ popupDialog' \subseteq DOMAIN dialogs
  /\ \A d \in popupDialog \ popupDialog' : ~Open(d)'

LEMMA SameEntries ==
  ASSUME UNCHANGED world
  PROVE  Entries' = Entries
  BY DEF Entries, Lists, Boxes

LEMMA FadesKeepsOne ==
  ASSUME DialogsInPage, OneLiveDialog, Fades, UNCHANGED world
  PROVE  DialogsInPage' /\ OneLiveDialog'
  <1>1. DOMAIN dialogs' = DOMAIN dialogs
    BY DEF Fades, DialogsInPage
  <1>2. DialogsInPage'
    BY <1>1, SameEntries DEF Fades, DialogsInPage
  <1>3. SUFFICES ASSUME NEW d \in DOMAIN dialogs, Open(d)', dialogs'[d].bound
                 PROVE  d = Len(dialogs') /\ d \in popupDialog'
    BY <1>1, <1>2 DEF OneLiveDialog
  <1>4. Open(d) /\ dialogs[d].bound
    BY <1>3 DEF Fades
  <1>5. d = Len(dialogs) /\ d \in popupDialog
    BY <1>4 DEF OneLiveDialog
  <1>. QED
    BY <1>3, <1>5 DEF Fades

LEMMA MapSeq ==
  ASSUME NEW S, NEW s \in Seq(S), NEW t, DOMAIN t = DOMAIN s, t = [i \in DOMAIN s |-> t[i]],
         \A i \in DOMAIN s : t[i] \in S
  PROVE  t \in Seq(S) /\ Len(t) = Len(s)
  <1>1. t \in [1 .. Len(s) -> S]
    OBVIOUS
  <1>. QED
    BY <1>1

LEMMA LoginDialog ==
  ASSUME IInv, UNCHANGED world, NEW op \in Ops, HandleLogin(op)
  PROVE  DialogsInPage' /\ OneLiveDialog'
  <1>. DEFINE n == Len(dialogs)
              ds == Unbind(dialogs)
  <1>1. dialogs \in Seq(Entries) /\ n \in Nat
    BY DEF IInv, DialogsInPage
  <1>2. \A d \in DOMAIN dialogs : ds[d] \in Entries /\ ds[d].bound = FALSE
    <2>1. SUFFICES ASSUME NEW d \in DOMAIN dialogs
                   PROVE  ds[d] \in Entries /\ ds[d].bound = FALSE
      OBVIOUS
    <2>2. dialogs[d] \in Entries
      BY <1>1
    <2>3. ds[d] = [dialogs[d] EXCEPT !.bound = FALSE]
      BY DEF Unbind
    <2>. QED
      BY <2>2, <2>3 DEF Entries
  <1>3. ds \in Seq(Entries) /\ Len(ds) = n
    <2>1. DOMAIN ds = DOMAIN dialogs /\ ds = [i \in DOMAIN dialogs |-> ds[i]]
      BY DEF Unbind
    <2>. QED
      BY <1>1, <1>2, <2>1, MapSeq
  <1>4. NewDialog \in Entries
    BY SchemesTyped DEF IInv, NewDialog, Entries
  <1>5. dialogs' = Append(ds, NewDialog) /\ popupDialog' = {n + 1}
    BY DEF HandleLogin
  <1>6. /\ dialogs' \in Seq(Entries) /\ Len(dialogs') = n + 1
        /\ \A d \in 1 .. n : dialogs'[d] = ds[d]
    <2>. HIDE DEF ds
    <2>. QED
      BY <1>3, <1>4, <1>5, AppendProperties
  <1>7. Entries' = Entries
    BY SameEntries
  <1>8. DialogsInPage'
    BY <1>1, <1>5, <1>6, <1>7 DEF DialogsInPage
  <1>9. \A d \in DOMAIN dialogs' : dialogs'[d].bound => d = n + 1
    BY <1>1, <1>2, <1>6
  <1>. QED
    BY <1>5, <1>6, <1>8, <1>9 DEF OneLiveDialog

LEMMA HiddenEntries ==
  ASSUME DialogsInPage
  PROVE  /\ Hidden(dialogs) \in Seq(Entries) /\ Len(Hidden(dialogs)) = Len(dialogs)
         /\ DOMAIN Hidden(dialogs) = DOMAIN dialogs
         /\ \A d \in DOMAIN dialogs :
              /\ Hidden(dialogs)[d].emptied = dialogs[d].emptied
              /\ Hidden(dialogs)[d].bound = dialogs[d].bound
              /\ Hidden(dialogs)[d].shown <=> dialogs[d].shown /\ d \notin popupDialog
  <1>. DEFINE ds == Hidden(dialogs)
  <1>1. dialogs \in Seq(Entries)
    BY DEF DialogsInPage
  <1>2. DOMAIN ds = DOMAIN dialogs /\ ds = [d \in DOMAIN dialogs |-> ds[d]]
    BY DEF Hidden
  <1>3. ASSUME NEW d \in DOMAIN dialogs
        PROVE  /\ ds[d] \in Entries
               /\ ds[d].emptied = dialogs[d].emptied /\ ds[d].bound = dialogs[d].bound
               /\ ds[d].shown <=> dialogs[d].shown /\ d \notin popupDialog
    <2>1. dialogs[d] \in Entries
      BY <1>1
    <2>2. ds[d] = [dialogs[d] EXCEPT !.shown = @ /\ d \notin popupDialog]
      BY DEF Hidden
    <2>3. (dialogs[d].shown /\ d \notin popupDialog) \in BOOLEAN
      OBVIOUS
    <2>. QED
      BY <2>1, <2>2, <2>3 DEF Entries
  <1>. HIDE DEF ds
  <1>4. ds \in Seq(Entries) /\ Len(ds) = Len(dialogs)
    BY <1>1, <1>2, <1>3, MapSeq
  <1>. QED
    BY <1>2, <1>3, <1>4 DEF ds

LEMMA AuthorizeDialog ==
  ASSUME IInv, UNCHANGED world, NEW e \in DOMAIN dialogs, Authorize(e)
  PROVE  DialogsInPage' /\ OneLiveDialog'
  <1>1. DialogsInPage /\ OneLiveDialog
    BY DEF IInv
  <1>2. dialogs' = Hidden(dialogs) /\ popupDialog' = popupDialog
    BY DEF Authorize
  <1>3. Fades
    BY <1>1, <1>2, HiddenEntries DEF Fades, Open, DialogsInPage
  <1>. QED
    BY <1>1, <1>3, FadesKeepsOne

LEMMA CancelDialog ==
  ASSUME IInv, UNCHANGED world, NEW e \in DOMAIN dialogs, Cancel(e)
  PROVE  DialogsInPage' /\ OneLiveDialog'
  <1>. DEFINE hidden == Hidden(dialogs)
              ds == [d \in DOMAIN dialogs |->
                       [hidden[d] EXCEPT !.emptied = @ \/ d \in popupDialog]]
  <1>1. DialogsInPage /\ OneLiveDialog
    BY DEF IInv
  <1>2. dialogs' = ds /\ popupDialog' = {}
    BY DEF Cancel
  <1>3. hidden \in Seq(Entries) /\ DOMAIN hidden = DOMAIN dialogs /\ Len(hidden) = Len(dialogs)
    BY <1>1, HiddenEntries
  <1>4. ASSUME NEW d \in DOMAIN dialogs
        PROVE  /\ ds[d] \in Entries /\ ds[d].bound = dialogs[d].bound
               /\ ds[d].shown <=> dialogs[d].shown /\ d \notin popupDialog
               /\ ds[d].emptied <=> dialogs[d].emptied \/ d \in popupDialog
    <2>1. /\ hidden[d].emptied = dialogs[d].emptied /\ hidden[d].bound = dialogs[d].bound
          /\ hidden[d].shown <=> dialogs[d].shown /\ d \notin popupDialog
      BY <1>1, HiddenEntries
    <2>. HIDE DEF hidden
    <2>2. hidden[d] \in Entries
      BY <1>3
    <2>3. ds[d] = [hidden[d] EXCEPT !.emptied = @ \/ d \in popupDialog]
      OBVIOUS
    <2>4. (hidden[d].emptied \/ d \in popupDialog) \in BOOLEAN
      OBVIOUS
    <2>5. ds[d] \in Entries /\ ds[d].bound = hidden[d].bound /\ ds[d].shown = hidden[d].shown
          /\ ds[d].emptied = (hidden[d].emptied \/ d \in popupDialog)
      BY <2>2, <2>3, <2>4 DEF Entries
    <2>. QED
      BY <2>1, <2>5
  <1>5. DOMAIN ds = DOMAIN hidden /\ ds = [d \in DOMAIN hidden |-> ds[d]]
    BY <1>3
  <1>. HIDE DEF ds, hidden
  <1>6. ds \in Seq(Entries) /\ Len(ds) = Len(dialogs)
    BY <1>3, <1>4, <1>5, MapSeq
  <1>7. Fades
    BY <1>1, <1>2, <1>4, <1>6 DEF Fades, Open, DialogsInPage
  <1>. QED
    BY <1>1, <1>7, FadesKeepsOne

LEMMA TickDialog ==
  ASSUME IInv, UNCHANGED world, NEW e \in DOMAIN dialogs, NEW i \in DOMAIN dialogs[e].scopes,
         Tick(e, i)
  PROVE  DialogsInPage' /\ OneLiveDialog'
  <1>1. DialogsInPage /\ OneLiveDialog /\ dialogs \in Seq(Entries)
    BY DEF IInv, DialogsInPage
  <1>2. PICK box : dialogs' = [dialogs EXCEPT ![box].ticked = (@ \cup {i}) \ (@ \cap {i})]
    BY DEF Tick
  <1>3. i \in Boxes
    <2>1. dialogs[e] \in Entries
      BY <1>1
    <2>. QED
      BY <2>1 DEF Entries, Boxes
  <1>4. popupDialog' = popupDialog
    BY DEF Tick
  <1>5. ASSUME NEW d \in DOMAIN dialogs
        PROVE  /\ dialogs'[d] \in Entries /\ dialogs'[d].bound = dialogs[d].bound
               /\ dialogs'[d].shown = dialogs[d].shown
               /\ dialogs'[d].emptied = dialogs[d].emptied
    <2>1. dialogs[d] \in Entries
      BY <1>1
    <2>2. CASE d = box
      <3>1. dialogs'[d] = [dialogs[d] EXCEPT !.ticked =
                             (dialogs[d].ticked \cup {i}) \ (dialogs[d].ticked \cap {i})]
        BY <1>1, <1>2, <2>2
      <3>2. ((dialogs[d].ticked \cup {i}) \ (dialogs[d].ticked \cap {i})) \in SUBSET Boxes
        BY <1>3, <2>1 DEF Entries
      <3>. QED
        BY <2>1, <3>1, <3>2 DEF Entries
    <2>3. CASE d # box
      BY <1>1, <1>2, <2>1, <2>3
    <2>. QED
      BY <2>2, <2>3
  <1>6. DOMAIN dialogs' = DOMAIN dialogs /\ dialogs' = [d \in DOMAIN dialogs |-> dialogs'[d]]
    BY <1>2
  <1>7. dialogs' \in Seq(Entries) /\ Len(dialogs') = Len(dialogs)
    BY <1>1, <1>5, <1>6, MapSeq
  <1>8. Fades
    BY <1>1, <1>4, <1>5, <1>7 DEF Fades, Open, DialogsInPage, OneLiveDialog
  <1>. QED
    BY <1>1, <1>8, FadesKeepsOne

\* An error unticks every box.
LEMMA UntickedDialog ==
  ASSUME IInv, UNCHANGED <<world, popupDialog>>,
         dialogs' = [d \in DOMAIN dialogs |-> [dialogs[d] EXCEPT !.ticked = {}]]
  PROVE  DialogsInPage' /\ OneLiveDialog'
  <1>1. DialogsInPage /\ OneLiveDialog /\ dialogs \in Seq(Entries)
    BY DEF IInv, DialogsInPage
  <1>2. ASSUME NEW d \in DOMAIN dialogs
        PROVE  /\ dialogs'[d] \in Entries /\ dialogs'[d].bound = dialogs[d].bound
               /\ dialogs'[d].shown = dialogs[d].shown
               /\ dialogs'[d].emptied = dialogs[d].emptied
    <2>1. dialogs[d] \in Entries /\ dialogs'[d] = [dialogs[d] EXCEPT !.ticked = {}]
      BY <1>1
    <2>. QED
      BY <2>1 DEF Entries
  <1>3. DOMAIN dialogs' = DOMAIN dialogs /\ dialogs' = [d \in DOMAIN dialogs |-> dialogs'[d]]
    OBVIOUS
  <1>4. dialogs' \in Seq(Entries) /\ Len(dialogs') = Len(dialogs)
    BY <1>1, <1>2, <1>3, MapSeq
  <1>5. Fades
    BY <1>1, <1>2, <1>4 DEF Fades, Open, DialogsInPage, OneLiveDialog
  <1>. QED
    BY <1>1, <1>5, FadesKeepsOne

LEMMA SameDialogs ==
  ASSUME IInv, UNCHANGED <<world, dialogs>>, popupDialog' \in {popupDialog, DOMAIN dialogs}
  PROVE  DialogsInPage' /\ OneLiveDialog'
  <1>1. DialogsInPage'
    BY SameEntries DEF IInv, DialogsInPage
  <1>. QED
    BY <1>1 DEF IInv, OneLiveDialog, Open

LEMMA NextDialogs ==
  ASSUME IInv, Next
  PROVE  DialogsInPage' /\ OneLiveDialog'
  <1>. USE DEF Next, page, names
  <1>1. ASSUME NEW op \in Ops, HandleLogin(op) \/ HandleLogout(op)
        PROVE  DialogsInPage' /\ OneLiveDialog'
    BY <1>1, LoginDialog, SameDialogs DEF HandleLogout
  <1>2. ASSUME NEW d \in DOMAIN dialogs, Cancel(d) \/ Authorize(d)
        PROVE  DialogsInPage' /\ OneLiveDialog'
    BY <1>2, CancelDialog, AuthorizeDialog
  <1>3. ASSUME NEW d \in DOMAIN dialogs, NEW i \in DOMAIN dialogs[d].scopes, Tick(d, i)
        PROVE  DialogsInPage' /\ OneLiveDialog'
    BY <1>3, TickDialog
  <1>4. ASSUME NEW a \in DOMAIN world.apis, Explore(a) PROVE DialogsInPage' /\ OneLiveDialog'
    BY <1>4, SameDialogs DEF Explore
  <1>5. ASSUME InitOAuth PROVE DialogsInPage' /\ OneLiveDialog'
    BY <1>5, SameDialogs DEF InitOAuth
  <1>6. ASSUME NEW w \in popups, Popup(w) PROVE DialogsInPage' /\ OneLiveDialog'
    BY <1>6, SameDialogs, UntickedDialog
       DEF Popup, Granted, Denied, Closed, Answered, PostCode
  <1>7. ASSUME NEW x \in exchanges, Exchanged(x) PROVE DialogsInPage' /\ OneLiveDialog'
    BY <1>7, SameDialogs DEF Exchanged
  <1>. QED
    BY <1>1, <1>2, <1>3, <1>4, <1>5, <1>6, <1>7 DEF Step, User

-----------------------------------------------------------------------------
(* The icons and the tokens *)
PageOK == Icons /\ Tokened /\ IconsAgree /\ OnWithToken

LEMMA CompletePage ==
  ASSUME PageOK, NEW w, NEW name, Complete(w, name), UNCHANGED oauth2KeyName
  PROVE  PageOK'
  <1>1. CASE name # tokenName
    BY <1>1 DEF Complete, PageOK, Icons, Tokened, IconsAgree, OnWithToken, page
  <1>2. CASE name = tokenName
    <2>. DEFINE token == [dialog |-> w.dialog, scopes |-> w.scopes]
    <2>1. authz' = [authz EXCEPT ![oauth2KeyName] = {token}]
      BY <1>2 DEF Complete, Add
    <2>2. Tokened' /\ OnWithToken'
      BY <2>1 DEF PageOK, Tokened, OnWithToken
    <2>3. icon' = [op \in Ops |-> IF op \in Shown
                                  THEN IF Satisfied(op) THEN "on" ELSE "off" ELSE icon[op]]
          /\ info' = [op \in Ops |-> IF op \in Shown THEN InfoOf(op) ELSE info[op]]
      BY <1>2 DEF Complete
    <2>4. ASSUME NEW op \in Ops
          PROVE  /\ icon'[op] \in {"on", "off"} /\ info'[op] \subseteq {"error", "warning", "info"}
                 /\ icon'[op] = "on" => info'[op] = {"info"}
                 /\ ~({"error", "warning"} \subseteq info'[op])
      <3>1. /\ icon[op] \in {"on", "off"} /\ info[op] \subseteq {"error", "warning", "info"}
            /\ icon[op] = "on" => info[op] = {"info"}
            /\ ~({"error", "warning"} \subseteq info[op])
        BY DEF PageOK, Icons, IconsAgree
      <3>2. CASE op \notin Shown
        BY <2>3, <3>1, <3>2
      <3>3. CASE op \in Shown /\ Satisfied(op)
        <4>1. icon'[op] = "on" /\ info'[op] = (info[op] \cup {"info"}) \ {"warning", "error"}
          BY <2>3, <3>3 DEF InfoOf
        <4>2. info'[op] = {"info"}
          BY <3>1, <4>1
        <4>. QED
          BY <4>1, <4>2
      <3>4. CASE op \in Shown /\ ~Satisfied(op)
        <4>1. icon'[op] = "off" /\ info'[op] = (info[op] \cup {"warning"}) \ {"error"}
          BY <2>3, <3>4 DEF InfoOf
        <4>. QED
          BY <3>1, <4>1
      <3>. QED
        BY <3>2, <3>3, <3>4
    <2>5. Icons' /\ IconsAgree'
      BY <2>3, <2>4 DEF Icons, IconsAgree
    <2>. QED
      BY <2>2, <2>5 DEF PageOK
  <1>. QED
    BY <1>1, <1>2

LEMMA LogoutPage ==
  ASSUME PageOK, NEW op \in Ops, HandleLogout(op)
  PROVE  PageOK'
  <1>1. ASSUME NEW o \in Ops
        PROVE  /\ icon'[o] = "off" /\ info'[o] \subseteq {"error", "warning", "info"}
               /\ ~({"error", "warning"} \subseteq info'[o])
    BY DEF HandleLogout, PageOK, Icons, IconsAgree
  <1>2. Icons' /\ IconsAgree'
    BY <1>1 DEF HandleLogout, Icons, IconsAgree
  <1>3. Tokened' /\ OnWithToken'
    BY <1>1 DEF HandleLogout, PageOK, Tokened, OnWithToken
  <1>. QED
    BY <1>2, <1>3 DEF PageOK

LEMMA ExplorePage ==
  ASSUME PageOK, NEW a, Explore(a)
  PROVE  PageOK'
  BY DEF Explore, PageOK, Icons, IconsAgree, Tokened, OnWithToken

LEMMA SamePage ==
  ASSUME PageOK, UNCHANGED page, oauth2KeyName' \in Keys \cup {NoKey}
  PROVE  PageOK'
  BY DEF page, PageOK, Icons, IconsAgree, Tokened, OnWithToken

LEMMA NextPage ==
  ASSUME IInv, Next
  PROVE  PageOK'
  <1>1. PageOK /\ oauth2KeyName \in Keys \cup {NoKey}
    BY DEF IInv, PageOK, Tokened
  <1>2. ASSUME NEW op \in Ops, HandleLogin(op) PROVE PageOK'
    <2>1. KeyOf(AuthSchemes) \in Keys \cup {NoKey}
      BY KeyTyped DEF IInv
    <2>. QED
      BY <1>1, <1>2, <2>1, SamePage DEF HandleLogin
  <1>3. ASSUME NEW op \in Ops, HandleLogout(op) PROVE PageOK'
    BY <1>1, <1>3, LogoutPage
  <1>4. ASSUME NEW d \in DOMAIN dialogs, Cancel(d) \/ Authorize(d) PROVE PageOK'
    BY <1>1, <1>4, SamePage DEF Cancel, Authorize
  <1>5. ASSUME NEW d \in DOMAIN dialogs, NEW i \in DOMAIN dialogs[d].scopes, Tick(d, i)
        PROVE  PageOK'
    BY <1>1, <1>5, SamePage DEF Tick
  <1>6. ASSUME NEW a \in DOMAIN world.apis, Explore(a) PROVE PageOK'
    BY <1>1, <1>6, ExplorePage
  <1>7. ASSUME InitOAuth PROVE PageOK'
    BY <1>1, <1>7, SamePage DEF InitOAuth
  <1>8. ASSUME NEW w \in popups, Popup(w) PROVE PageOK'
    BY <1>1, <1>8, SamePage, CompletePage
       DEF Popup, Granted, Denied, Closed, Answered, PostCode
  <1>9. ASSUME NEW x \in exchanges, Exchanged(x) PROVE PageOK'
    BY <1>1, <1>9, SamePage, CompletePage DEF Exchanged
  <1>. QED
    BY <1>2, <1>3, <1>4, <1>5, <1>6, <1>7, <1>8, <1>9 DEF Next, Step, User

LEMMA NextPlaces ==
  ASSUME IInv, Next
  PROVE  Places'
  BY DEF IInv, Next, Step, User, Places, HandleLogin, HandleLogout, Cancel, Authorize, Tick,
         Explore, InitOAuth, Popup, Granted, Denied, Closed, Answered, Exchanged

LEMMA NextIInv ==
  ASSUME IInv, [Next]_vars
  PROVE  IInv'
  <1>1. CASE Next
    BY <1>1, NextDialogs, NextPage, NextPlaces DEF IInv, PageOK
  <1>2. CASE UNCHANGED vars
    <2>1. DialogsInPage' /\ OneLiveDialog' /\ PageOK'
      BY <1>2, SameDialogs, SamePage DEF vars, ui, IInv, PageOK, Tokened
    <2>. QED
      BY <1>2, <2>1 DEF IInv, PageOK, Places, vars, ui
  <1>. QED
    BY <1>1, <1>2

LEMMA InvariantHolds == Spec => []IInv
  <1>1. Init => IInv
    BY InitIInv
  <1>2. IInv /\ [Next]_vars => IInv'
    BY NextIInv
  <1>. QED
    BY <1>1, <1>2, PTL DEF Spec

-----------------------------------------------------------------------------
\* Whatever is opened, ticked, cancelled and explored, one dialog at most can be
\* authorized, the newest (the handlers of handleLogin).
THEOREM OneDialogAuthorizes == Spec => []OneLiveDialog
  BY InvariantHolds, PTL DEF IInv

\* The icon and the info box of an operation agree, whatever answers come in which
\* order (onOAuthComplete and handleLogout).
THEOREM IconsAndInfosAgree == Spec => []IconsAgree
  BY InvariantHolds, PTL DEF IInv

\* No icon is on while the client has no token at all (onOAuthComplete).
THEOREM NoIconWithoutToken == Spec => []OnWithToken
  BY InvariantHolds, PTL DEF IInv

-----------------------------------------------------------------------------
(* TypeOK: the scopes of a dialog, those that are ticked, and what is asked  *)
(* of the server.                                                            *)

\* A set of numbers that is not empty has a least.
LEMMA LeastInSet ==
  ASSUME NEW S \in SUBSET Nat, S # {}
  PROVE  \E i \in S : \A j \in S : i <= j
  <1>. DEFINE R == {ss \in Nat \X Nat : ss[1] < ss[2]}
  <1>1. IsWellFoundedOn(R, Nat)
    BY NatLessThanWellFounded DEF OpToRel
  <1>2. \E x \in S : \A y \in S : <<y, x>> \notin R
    <2>. HIDE DEF R
    <2>. QED
      BY <1>1, WFMin
  <1>3. PICK i \in S : \A j \in S : <<j, i>> \notin R
    BY <1>2
  <1>4. ASSUME NEW j \in S PROVE i <= j
    <2>1. i \in Nat /\ j \in Nat
      OBVIOUS
    <2>2. ~(j < i)
      BY <1>3, <2>1
    <2>. QED
      BY <2>1, <2>2
  <1>. QED
    BY <1>4

LEMMA MinInSet ==
  ASSUME NEW S \in SUBSET Nat, S # {}
  PROVE  Min(S) \in S
  BY LeastInSet DEF Min

\* The lists of all schemes put together are a list of scopes.
LEMMA Flattened ==
  ASSUME NEW s \in Seq(Seq(Scopes))
  PROVE  FlattenSeq(s) \in Seq(Scopes)
  <1>. DEFINE n == Len(s)
              Joined(f, m) == f = [i \in 1 .. m |-> IF i = 1 THEN s[i] ELSE f[i - 1] \o s[i]]
              flatten == CHOOSE f : Joined(f, n)
              Typed(m) == \E f \in [1 .. m -> Seq(Scopes)] : Joined(f, m)
              Untyped == {m \in 0 .. n : ~Typed(m)}
  <1>1. n \in Nat /\ \A i \in 1 .. n : s[i] \in Seq(Scopes)
    OBVIOUS
  <1>2. Typed(0)
    <2>. DEFINE f == [i \in 1 .. 0 |-> <<>>]
    <2>1. f \in [1 .. 0 -> Seq(Scopes)] /\ Joined(f, 0)
      OBVIOUS
    <2>. QED
      BY <2>1
  <1>3. ASSUME NEW m \in 1 .. n, Typed(m - 1) PROVE Typed(m)
    <2>1. PICK g \in [1 .. m - 1 -> Seq(Scopes)] : Joined(g, m - 1)
      BY <1>3
    <2>. DEFINE last == IF m = 1 THEN s[m] ELSE g[m - 1] \o s[m]
                f == [i \in 1 .. m |-> IF i = m THEN last ELSE g[i]]
    <2>2. last \in Seq(Scopes)
      <3>1. s[m] \in Seq(Scopes) /\ (m # 1 => g[m - 1] \in Seq(Scopes))
        BY <1>1
      <3>. QED
        BY <3>1, ConcatProperties
    <2>3. \A i \in 1 .. m - 1 : g[i] = IF i = 1 THEN s[i] ELSE g[i - 1] \o s[i]
      BY <2>1
    <2>4. ASSUME NEW i \in 1 .. m
          PROVE  f[i] = IF i = 1 THEN s[i] ELSE f[i - 1] \o s[i]
      <3>1. CASE i = m
        <4>1. m # 1 => f[m - 1] = g[m - 1]
          BY <1>1
        <4>. QED
          BY <3>1, <4>1
      <3>2. CASE i # m
        <4>1. i \in 1 .. m - 1 /\ f[i] = g[i] /\ (i # 1 => f[i - 1] = g[i - 1])
          BY <1>1, <3>2
        <4>. QED
          BY <2>3, <4>1
      <3>. QED
        BY <3>1, <3>2
    <2>5. f \in [1 .. m -> Seq(Scopes)]
      BY <1>1, <2>2
    <2>6. Joined(f, m)
      BY <2>4
    <2>. QED
      BY <2>5, <2>6
  <1>4. Untyped = {}
    <2>. HIDE DEF Typed
    <2>1. SUFFICES ASSUME Untyped # {} PROVE FALSE
      OBVIOUS
    <2>2. PICK m \in Untyped : \A j \in Untyped : m <= j
      <3>1. Untyped \in SUBSET Nat
        BY <1>1
      <3>. HIDE DEF Untyped
      <3>. QED
        BY <2>1, <3>1, LeastInSet
    <2>3. m \in 1 .. n
      BY <1>1, <1>2, <2>2
    <2>4. m - 1 \in 0 .. n /\ ~(m <= m - 1)
      BY <1>1, <2>3
    <2>5. Typed(m - 1)
      BY <2>2, <2>4
    <2>. QED
      BY <1>3, <2>2, <2>3, <2>5
  <1>5. Typed(n)
    <2>. HIDE DEF Typed
    <2>. QED
      BY <1>1, <1>4
  <1>6. Joined(flatten, n)
    BY <1>5
  <1>. DEFINE Bad == {i \in 1 .. n : flatten[i] \notin Seq(Scopes)}
  <1>7. Bad = {}
    <2>1. SUFFICES ASSUME Bad # {} PROVE FALSE
      OBVIOUS
    <2>2. \A i \in 1 .. n : flatten[i] = IF i = 1 THEN s[i] ELSE flatten[i - 1] \o s[i]
      BY <1>6
    <2>. HIDE DEF flatten
    <2>3. PICK i \in Bad : \A j \in Bad : i <= j
      <3>1. Bad \in SUBSET Nat
        BY <1>1
      <3>. HIDE DEF Bad
      <3>. QED
        BY <2>1, <3>1, LeastInSet
    <2>4. i # 1
      BY <1>1, <2>2, <2>3
    <2>5. i - 1 \in 1 .. n /\ ~(i <= i - 1) /\ i \in 1 .. n
      BY <1>1, <2>3, <2>4
    <2>6. flatten[i - 1] \in Seq(Scopes) /\ s[i] \in Seq(Scopes)
      BY <1>1, <2>3, <2>5
    <2>7. flatten[i] = flatten[i - 1] \o s[i]
      BY <2>2, <2>4, <2>5
    <2>8. flatten[i] \in Seq(Scopes)
      BY <2>6, <2>7, ConcatProperties
    <2>. QED
      BY <2>3, <2>8
  <1>8. CASE n = 0
    <2>1. s = <<>>
      BY <1>8, EmptySeq
    <2>2. FlattenSeq(s) = <<>>
      BY <2>1 DEF FlattenSeq
    <2>. QED
      BY <2>2, EmptySeq
  <1>9. CASE n # 0
    <2>1. FlattenSeq(s) = flatten[n]
      BY <1>9 DEF FlattenSeq
    <2>. HIDE DEF flatten
    <2>2. flatten[n] \in Seq(Scopes)
      BY <1>1, <1>7, <1>9
    <2>. QED
      BY <2>1, <2>2
  <1>. QED
    BY <1>8, <1>9

LEMMA ScopesTyped ==
  ASSUME NEW schemes \in Seq(Schemes)
  PROVE  ScopesOf(schemes) \in Seq(Scopes)
  <1>. DEFINE lists == [i \in DOMAIN schemes |->
                          IF OAuth2(schemes[i]) THEN schemes[i].scopes ELSE <<>>]
  <1>1. \A i \in 1 .. Len(schemes) : schemes[i] \in Schemes
    OBVIOUS
  <1>2. \A i \in 1 .. Len(schemes) : OAuth2(schemes[i]) => schemes[i].scopes \in Seq(Scopes)
    BY <1>1 DEF Schemes, OAuth2
  <1>3. DOMAIN schemes = 1 .. Len(schemes) /\ Len(schemes) \in Nat
    OBVIOUS
  <1>4. lists \in [1 .. Len(schemes) -> Seq(Scopes)]
    BY <1>2, <1>3, EmptySeq
  <1>5. lists \in Seq(Seq(Scopes))
    <2>. HIDE DEF lists
    <2>. QED
      BY <1>3, <1>4
  <1>. HIDE DEF lists
  <1>6. FlattenSeq(lists) \in Seq(Scopes)
    BY <1>5, Flattened
  <1>. QED
    BY <1>6 DEF ScopesOf, lists

\* What the dialogs, the windows and the client hold beyond the invariant above.
Boxed ==
  /\ Len(dialogs) <= MaxLogins
  /\ \A d \in DOMAIN dialogs : dialogs[d].ticked \subseteq DOMAIN dialogs[d].scopes
Named ==
  /\ tokenName \in TokenNames \cup {NoName} /\ tokenUrl \in Endpoints \cup {NoUrl}
  /\ enabledScopes \in (SUBSET Scopes) \cup {NoScopes}
Asked ==
  /\ popups \subseteq Windows
  /\ \A x \in exchanges : x.window \in Windows /\ x.url \in Endpoints /\ x.code \in BOOLEAN
Held == authz \in [Keys \cup {NoKey} -> SUBSET Tokens]

TypeInv == Boxed /\ Named /\ Asked /\ Held

LEMMA ListsTyped ==
  ASSUME Places
  PROVE  /\ Lists \subseteq Seq(Scopes) /\ Boxes \subseteq Nat /\ Entries \subseteq Dialogs
         /\ \A e \in Entries : e.scopes \in Seq(Scopes)
  <1>1. world.apis \in Seq(Apis)
    BY DEF Places
  <1>2. \A a \in DOMAIN world.apis : world.apis[a].schemes \in Seq(Schemes)
    <2>1. \A a \in DOMAIN world.apis : world.apis[a] \in Apis
      BY <1>1
    <2>. QED
      BY <2>1 DEF Apis
  <1>3. \A list \in Lists : list \in Seq(Scopes)
    BY <1>2, EmptySeq, ScopesTyped DEF Lists
  <1>4. \A list \in Lists : DOMAIN list \subseteq Nat
    <2>1. \A list \in Seq(Scopes) : DOMAIN list \subseteq Nat
      OBVIOUS
    <2>. QED
      BY <1>3, <2>1
  <1>5. Boxes \subseteq Nat
    BY <1>4 DEF Boxes
  <1>. QED
    BY <1>3, <1>5 DEF Entries, Dialogs

LEMMA TypeInvTypes ==
  ASSUME IInv, TypeInv
  PROVE  TypeOK
  <1>1. dialogs \in Seq(Dialogs) /\ popupDialog \subseteq DOMAIN dialogs
    <2>1. dialogs \in Seq(Entries) /\ Entries \subseteq Dialogs
      BY ListsTyped DEF IInv, DialogsInPage
    <2>. QED
      BY <2>1 DEF IInv, DialogsInPage
  <1>. QED
    BY <1>1 DEF IInv, Places, Icons, Tokened, TypeInv, Boxed, Named, Asked, Held, TypeOK

LEMMA InitTypeInv ==
  ASSUME Init
  PROVE  TypeInv
  <1>1. Boxed
    BY DEF Init, Boxed
  <1>2. Named /\ Asked
    <2>1. /\ tokenName = NoName /\ tokenUrl = NoUrl /\ enabledScopes = NoScopes
          /\ popups = {} /\ exchanges = {}
      BY DEF Init
    <2>. QED
      BY <2>1 DEF Named, Asked
  <1>3. Held
    <2>1. authz = [k \in Keys \cup {NoKey} |-> {}]
      BY DEF Init
    <2>. QED
      BY <2>1 DEF Held
  <1>. QED
    BY <1>1, <1>2, <1>3 DEF TypeInv

\* What is ticked are scopes.
LEMMA TickedTyped ==
  ASSUME IInv, Boxed
  PROVE  Ticked \subseteq Scopes
  <1>1. SUFFICES ASSUME NEW d \in DOMAIN dialogs, NEW i \in dialogs[d].ticked
                 PROVE  dialogs[d].scopes[i] \in Scopes
    BY DEF Ticked
  <1>2. dialogs[d].scopes \in Seq(Scopes) /\ i \in DOMAIN dialogs[d].scopes
    BY ListsTyped DEF IInv, DialogsInPage, Boxed
  <1>. QED
    BY <1>2

LEMMA LastScheme ==
  ASSUME Places, NEW S, S \subseteq DOMAIN AuthSchemes, S # {}
  PROVE  Max(S) \in S /\ AuthSchemes[Max(S)] \in Schemes
  <1>1. AuthSchemes \in Seq(Schemes) /\ Len(AuthSchemes) \in Nat
    BY SchemesTyped
  <1>2. S \in SUBSET (1 .. Len(AuthSchemes))
    BY <1>1
  <1>3. Max(S) \in S
    BY <1>1, <1>2, MaxInSet
  <1>. QED
    BY <1>1, <1>3

-----------------------------------------------------------------------------
\* A step that opens no dialog leaves its scopes and ticks some of its boxes.
LEMMA BoxesStay ==
  ASSUME IInv, Boxed, DOMAIN dialogs' = DOMAIN dialogs, dialogs' \in Seq(Entries),
         \A d \in DOMAIN dialogs :
           /\ dialogs'[d].scopes = dialogs[d].scopes
           /\ dialogs'[d].ticked \subseteq DOMAIN dialogs[d].scopes
  PROVE  Boxed'
  <1>1. Len(dialogs') = Len(dialogs)
    BY DEF IInv, DialogsInPage
  <1>. QED
    BY <1>1 DEF Boxed

LEMMA LoginBoxed ==
  ASSUME IInv, Boxed, NEW op, HandleLogin(op)
  PROVE  Boxed'
  <1>. DEFINE n == Len(dialogs)
              ds == Unbind(dialogs)
  <1>1. dialogs \in Seq(Entries) /\ n \in Nat
    BY DEF IInv, DialogsInPage
  <1>2. DOMAIN ds = 1 .. n
    BY <1>1 DEF Unbind
  <1>3. \A d \in 1 .. n :
          ds[d].scopes = dialogs[d].scopes /\ ds[d].ticked = dialogs[d].ticked
    <2>1. SUFFICES ASSUME NEW d \in 1 .. n
                   PROVE  ds[d].scopes = dialogs[d].scopes /\ ds[d].ticked = dialogs[d].ticked
      OBVIOUS
    <2>2. d \in DOMAIN dialogs /\ dialogs[d] \in Entries
      BY <1>1
    <2>3. ds[d] = [dialogs[d] EXCEPT !.bound = FALSE]
      BY <2>2 DEF Unbind
    <2>. QED
      BY <2>2, <2>3 DEF Entries
  <1>4. dialogs' = Append(ds, NewDialog) /\ n < MaxLogins /\ NewDialog.ticked = {}
    BY DEF HandleLogin, NewDialog
  <1>5. ds \in Seq(Range(ds) \cup {NewDialog}) /\ Len(ds) = n
    <2>1. ds \in [1 .. n -> Range(ds) \cup {NewDialog}]
      BY <1>2 DEF Range, Unbind
    <2>. HIDE DEF ds
    <2>. QED
      BY <1>1, <2>1
  <1>. HIDE DEF ds, n
  <1>6. /\ Len(dialogs') = n + 1 /\ DOMAIN dialogs' = 1 .. n + 1
        /\ \A d \in 1 .. n : dialogs'[d] = ds[d]
        /\ dialogs'[n + 1] = NewDialog
    BY <1>1, <1>4, <1>5
  <1>7. \A d \in 1 .. n : dialogs[d].ticked \subseteq DOMAIN dialogs[d].scopes
    BY <1>1 DEF Boxed, n
  <1>8. ASSUME NEW d \in 1 .. n + 1 PROVE dialogs'[d].ticked \subseteq DOMAIN dialogs'[d].scopes
    <2>1. CASE d = n + 1
      BY <1>4, <1>6, <2>1
    <2>2. CASE d # n + 1
      <3>1. d \in 1 .. n
        BY <1>1, <2>2
      <3>. QED
        BY <1>3, <1>6, <1>7, <3>1
    <2>. QED
      BY <2>1, <2>2
  <1>. QED
    BY <1>1, <1>4, <1>6, <1>8 DEF Boxed

LEMMA HiddenBoxed ==
  ASSUME IInv, Boxed, NEW S,
         \/ dialogs' = Hidden(dialogs)
         \/ dialogs' = [e \in DOMAIN dialogs |->
                          [Hidden(dialogs)[e] EXCEPT !.emptied = @ \/ e \in S]],
         dialogs' \in Seq(Entries)
  PROVE  Boxed'
  <1>1. dialogs \in Seq(Entries)
    BY DEF IInv, DialogsInPage
  <1>2. DOMAIN dialogs' = DOMAIN dialogs
    BY DEF Hidden
  <1>3. ASSUME NEW d \in DOMAIN dialogs
        PROVE  dialogs'[d].scopes = dialogs[d].scopes /\ dialogs'[d].ticked = dialogs[d].ticked
    <2>. DEFINE h == Hidden(dialogs)[d]
    <2>1. dialogs[d] \in Entries /\ h \in Entries
      BY <1>1, HiddenEntries DEF IInv
    <2>2. h.scopes = dialogs[d].scopes /\ h.ticked = dialogs[d].ticked
      <3>1. h = [dialogs[d] EXCEPT !.shown = @ /\ d \notin popupDialog]
        BY DEF Hidden
      <3>. QED
        BY <2>1, <3>1 DEF Entries
    <2>3. dialogs'[d] = h \/ dialogs'[d] = [h EXCEPT !.emptied = @ \/ d \in S]
      OBVIOUS
    <2>4. dialogs'[d].scopes = h.scopes /\ dialogs'[d].ticked = h.ticked
      <3>. HIDE DEF h
      <3>. QED
        BY <2>1, <2>3 DEF Entries
    <2>. QED
      BY <2>2, <2>4
  <1>. QED
    BY <1>2, <1>3, BoxesStay DEF Boxed

LEMMA TickBoxed ==
  ASSUME IInv, Boxed, NEW e \in DOMAIN dialogs, NEW i \in DOMAIN dialogs[e].scopes,
         Tick(e, i), dialogs' \in Seq(Entries)
  PROVE  Boxed'
  <1>. DEFINE Places0 ==
                {d \in DOMAIN dialogs : ~dialogs[d].emptied /\ i \in DOMAIN dialogs[d].scopes}
  <1>1. dialogs \in Seq(Entries)
    BY DEF IInv, DialogsInPage
  <1>2. Places0 \in SUBSET Nat /\ e \in Places0
    BY <1>1 DEF Tick, Open
  <1>3. BoxOf(i) \in Places0
    <2>1. Min(Places0) \in Places0
      <3>. HIDE DEF Places0
      <3>. QED
        BY <1>2, MinInSet
    <2>. QED
      BY <2>1 DEF BoxOf
  <1>4. PICK box \in {e, BoxOf(i)} :
          dialogs' = [dialogs EXCEPT ![box].ticked = (@ \cup {i}) \ (@ \cap {i})]
    BY DEF Tick
  <1>5. box \in DOMAIN dialogs /\ i \in DOMAIN dialogs[box].scopes
    BY <1>2, <1>3, <1>4
  <1>6. DOMAIN dialogs' = DOMAIN dialogs
    BY <1>4
  <1>7. ASSUME NEW d \in DOMAIN dialogs
        PROVE  /\ dialogs'[d].scopes = dialogs[d].scopes
               /\ dialogs'[d].ticked \subseteq DOMAIN dialogs[d].scopes
    <2>1. dialogs[d] \in Entries /\ dialogs[d].ticked \subseteq DOMAIN dialogs[d].scopes
      BY <1>1 DEF Boxed
    <2>2. CASE d = box
      <3>1. dialogs'[d] = [dialogs[d] EXCEPT !.ticked =
                             (dialogs[d].ticked \cup {i}) \ (dialogs[d].ticked \cap {i})]
        BY <1>4, <1>5, <2>2
      <3>2. dialogs'[d].scopes = dialogs[d].scopes
            /\ dialogs'[d].ticked = (dialogs[d].ticked \cup {i}) \ (dialogs[d].ticked \cap {i})
        BY <2>1, <3>1 DEF Entries
      <3>. QED
        BY <1>5, <2>1, <2>2, <3>2
    <2>3. CASE d # box
      BY <1>4, <1>5, <2>1, <2>3
    <2>. QED
      BY <2>2, <2>3
  <1>. QED
    BY <1>6, <1>7, BoxesStay

LEMMA UntickedBoxed ==
  ASSUME IInv, Boxed, dialogs' \in Seq(Entries),
         dialogs' = [d \in DOMAIN dialogs |-> [dialogs[d] EXCEPT !.ticked = {}]]
  PROVE  Boxed'
  <1>1. ASSUME NEW d \in DOMAIN dialogs
        PROVE  dialogs'[d].scopes = dialogs[d].scopes /\ dialogs'[d].ticked = {}
    <2>1. dialogs[d] \in Entries /\ dialogs'[d] = [dialogs[d] EXCEPT !.ticked = {}]
      BY DEF IInv, DialogsInPage
    <2>. QED
      BY <2>1 DEF Entries
  <1>. QED
    BY <1>1, BoxesStay

LEMMA NextBoxed ==
  ASSUME IInv, Boxed, Next
  PROVE  Boxed'
  <1>. USE DEF Next, page, names
  <1>1. dialogs' \in Seq(Entries)
    BY NextDialogs, SameEntries DEF DialogsInPage
  <1>2. ASSUME NEW op \in Ops, HandleLogin(op) PROVE Boxed'
    BY <1>2, LoginBoxed
  <1>3. ASSUME NEW d \in DOMAIN dialogs, Cancel(d) PROVE Boxed'
    BY <1>1, <1>3, HiddenBoxed DEF Cancel
  <1>4. ASSUME NEW d \in DOMAIN dialogs, Authorize(d) PROVE Boxed'
    BY <1>1, <1>4, HiddenBoxed DEF Authorize
  <1>5. ASSUME NEW d \in DOMAIN dialogs, NEW i \in DOMAIN dialogs[d].scopes, Tick(d, i)
        PROVE  Boxed'
    BY <1>1, <1>5, TickBoxed
  <1>6. ASSUME dialogs' = dialogs PROVE Boxed'
    BY <1>6 DEF Boxed
  <1>7. ASSUME NEW w \in popups, Popup(w) PROVE Boxed'
    BY <1>1, <1>6, <1>7, UntickedBoxed DEF Popup, Granted, Denied, Closed, PostCode
  <1>. QED
    BY <1>2, <1>3, <1>4, <1>5, <1>6, <1>7
       DEF Step, User, HandleLogout, Explore, InitOAuth, Exchanged

\* A window is opened for a scheme of the API that is explored.
LEMMA AuthorizeAsks ==
  ASSUME IInv, TypeInv, NEW d \in DOMAIN dialogs, Authorize(d)
  PROVE  Named' /\ Asked' /\ Held'
  <1>. DEFINE schemes == AuthSchemes
              last == schemes[Max(Deciding(schemes))]
              flow == schemes[Max(Flows(schemes))]
              window == [dialog |-> d, kind |-> KindOf(last), name |-> ServerName(last),
                         endpoint |-> last.tokenUrl, scopes |-> Ticked]
  <1>1. Places /\ dialogs \in Seq(Entries)
    BY DEF IInv, DialogsInPage
  <1>2. Flows(schemes) \subseteq DOMAIN schemes /\ Deciding(schemes) \subseteq DOMAIN schemes
    BY DEF Flows, Deciding
  <1>3. Ticked \subseteq Scopes
    BY TickedTyped DEF TypeInv
  <1>4. Flows(schemes) # {} => TokenUrlOf(flow) \in Endpoints \cup {NoUrl}
    <2>1. Flows(schemes) # {} => flow \in Schemes
      BY <1>1, <1>2, LastScheme
    <2>. QED
      BY <2>1 DEF TokenUrlOf, Schemes
  <1>5. Deciding(schemes) # {} => /\ NameOf(last) \in TokenNames \cup {NoName}
                                  /\ window \in Windows
    <2>1. SUFFICES ASSUME Deciding(schemes) # {}
                   PROVE  NameOf(last) \in TokenNames \cup {NoName} /\ window \in Windows
      OBVIOUS
    <2>2. last \in Schemes
      BY <1>1, <1>2, <2>1, LastScheme
    <2>. HIDE DEF last
    <2>3. /\ ServerName(last) \in TokenNames /\ NameOf(last) \in TokenNames \cup {NoName}
          /\ last.tokenUrl \in Endpoints
      BY <2>2 DEF ServerName, NameOf, Schemes
    <2>4. KindOf(last) \in {"token", "code"}
      BY DEF KindOf
    <2>5. d \in 1 .. MaxLogins
      BY <1>1 DEF TypeInv, Boxed
    <2>. QED
      BY <1>3, <2>3, <2>4, <2>5 DEF Windows
  <1>6. /\ enabledScopes' = Ticked /\ exchanges' = exchanges /\ authz' = authz
        /\ tokenUrl' = IF Flows(schemes) = {} THEN tokenUrl ELSE TokenUrlOf(flow)
        /\ IF Deciding(schemes) = {} THEN tokenName' = tokenName /\ popups' = popups
           ELSE tokenName' = NameOf(last) /\ popups' = popups \cup {window}
    BY DEF Authorize, page
  <1>. HIDE DEF last, flow, window, schemes
  <1>7. Named'
    BY <1>3, <1>4, <1>5, <1>6 DEF TypeInv, Named
  <1>8. Asked' /\ Held'
    BY <1>5, <1>6 DEF TypeInv, Asked, Held
  <1>. QED
    BY <1>7, <1>8

LEMMA CompleteHeld ==
  ASSUME IInv, Held, NEW w \in Windows, Complete(w, w.name)
  PROVE  Held'
  <1>1. [dialog |-> w.dialog, scopes |-> w.scopes] \in Tokens
    BY DEF Windows, Tokens
  <1>2. CASE w.name = tokenName
    <2>1. authz' = [authz EXCEPT ![oauth2KeyName] = {[dialog |-> w.dialog, scopes |-> w.scopes]}]
      BY <1>2 DEF Complete, Add
    <2>. QED
      BY <1>1, <2>1 DEF Held
  <1>3. CASE w.name # tokenName
    BY <1>3 DEF Complete, Held, page
  <1>. QED
    BY <1>2, <1>3

\* A code is posted only when the page has an url for it.
LEMMA AnswerAsks ==
  ASSUME IInv, TypeInv, NEW w \in popups, Popup(w)
  PROVE  Named' /\ Asked' /\ Held'
  <1>1. w \in Windows /\ popups' \subseteq Windows
    BY DEF TypeInv, Asked, Popup, Granted, Denied, Closed, Answered
  <1>2. Named'
    BY DEF TypeInv, Named, names, Popup, Granted, Denied, Closed, Answered
  <1>3. \/ exchanges' = exchanges
        \/ /\ tokenUrl # NoUrl
           /\ \E code \in BOOLEAN :
                exchanges' = exchanges \cup {[window |-> w, url |-> tokenUrl, code |-> code]}
    BY DEF Popup, Granted, Denied, Closed, PostCode
  <1>4. Asked'
    BY <1>1, <1>3 DEF TypeInv, Named, Asked
  <1>5. UNCHANGED page \/ Complete(w, w.name)
    BY DEF Popup, Granted, Denied, Closed, PostCode
  <1>6. Held'
    BY <1>1, <1>5, CompleteHeld DEF TypeInv, Held, page
  <1>. QED
    BY <1>2, <1>4, <1>6

LEMMA ExchangeAsks ==
  ASSUME IInv, TypeInv, NEW x \in exchanges, Exchanged(x)
  PROVE  Named' /\ Asked' /\ Held'
  <1>1. x.window \in Windows
    BY DEF TypeInv, Asked
  <1>2. Named' /\ Asked'
    BY DEF TypeInv, Named, Asked, names, Exchanged
  <1>3. Held'
    BY <1>1, CompleteHeld DEF TypeInv, Held, Exchanged, page
  <1>. QED
    BY <1>2, <1>3

LEMMA NextTypeInv ==
  ASSUME IInv, TypeInv, [Next]_vars
  PROVE  TypeInv'
  <1>. USE DEF page, names
  <1>1. ASSUME UNCHANGED <<tokenName, tokenUrl, popups, exchanges, authz>>,
               enabledScopes' \in {enabledScopes, NoScopes}
        PROVE  Named' /\ Asked' /\ Held'
    BY <1>1 DEF TypeInv, Named, Asked, Held
  <1>2. CASE UNCHANGED vars
    BY <1>1, <1>2 DEF vars, ui, TypeInv, Boxed
  <1>3. CASE Next
    <2>1. Boxed'
      BY <1>3, NextBoxed DEF TypeInv
    <2>2. Named' /\ Asked' /\ Held'
      BY <1>1, <1>3, AuthorizeAsks, AnswerAsks, ExchangeAsks
         DEF Next, Step, User, HandleLogin, HandleLogout, Cancel, Tick, Explore, InitOAuth
    <2>. QED
      BY <2>1, <2>2 DEF TypeInv
  <1>. QED
    BY <1>2, <1>3

\* The page asks only for scopes its dialogs show, posts codes only to endpoints, and
\* what the client holds are tokens of its logins.
THEOREM OAuthTypeCorrect == Spec => []TypeOK
  <1>1. IInv /\ TypeInv => TypeOK
    BY TypeInvTypes
  <1>2. Init => TypeInv
    BY InitTypeInv
  <1>3. IInv /\ TypeInv /\ [Next]_vars => TypeInv'
    BY NextTypeInv
  <1>. QED
    BY <1>1, <1>2, <1>3, InvariantHolds, PTL DEF Spec
=============================================================================
