------------------------------ MODULE Session ------------------------------
(***************************************************************************)
(* The session of the frontend.  A session is kept in two places: the     *)
(* store of the tab (authStore), which decides what is shown, and the      *)
(* localStorage of the browser, from which every request takes its token   *)
(* when it is sent.  Requests are answered late, or not at all, and a tab  *)
(* goes on meanwhile: whoever used it may have logged out, and somebody    *)
(* else may have logged in.                                                *)
(*                                                                         *)
(* An account stands for its credentials and its data.  React renders and  *)
(* redirects before the next event of the browser, so that a redirect      *)
(* belongs to the step that causes it.                                     *)
(***************************************************************************)
EXTENDS Naturals, FiniteSets

CONSTANTS
  Accounts,
  Tabs,       \* tabs of one browser: a store each, one localStorage
  Slots,      \* bound: requests that may be in flight together
  MaxTokens,  \* bound: tokens the server issues
  NoToken, NoProfile, NoRequest

Tokens == [of : Accounts, n : 1..MaxTokens]

ASSUME SessionAssumption ==
  /\ MaxTokens \in Nat
  /\ NoToken \notin Tokens
  /\ NoProfile \notin [of : Accounts, data : Accounts]

VARIABLES
  issued,    \* tokens issued so far
  valid,     \* those that the server accepts
  storage,   \* localStorage, under TOKEN_KEY and PROVIDER_KEY
  tab,       \* authStore and the page of each tab
  request    \* requests in flight

vars == <<issued, valid, storage, tab, request>>

\* A provider as the frontend keeps it: whose it is, and whose data was last merged
\* into it.
Provider == [of : Accounts, data : Accounts]

\* "app" stands for all pages behind ProtectedRoute.  A page that is fresh has not
\* sent the requests of its first render yet; a form is busy while it waits.
AuthState ==
  [token : Tokens \cup {NoToken}, provider : Provider \cup {NoProfile},
   page : {"login", "register", "app"}, fresh : BOOLEAN, busy : BOOLEAN]

\* token and shown: the token the request carries, and the account that its tab showed
\* when it was sent.  live: the form that sent it is still there.
Request ==
  [tab : Tabs, kind : {"login", "register", "load", "save"}, who : Accounts \cup {NoProfile},
   token : Tokens \cup {NoToken}, shown : Accounts \cup {NoProfile}, live : BOOLEAN]

TypeOK ==
  /\ issued \in 0..MaxTokens
  /\ valid \subseteq Tokens
  /\ storage \in [token : Tokens \cup {NoToken}, provider : Provider \cup {NoProfile}]
  /\ tab \in [Tabs -> AuthState]
  /\ request \in [Slots -> Request \cup {NoRequest}]

-----------------------------------------------------------------------------
isAuthenticated(session) == session.token # NoToken /\ session.provider # NoProfile

Nothing == [token |-> NoToken, provider |-> NoProfile]

\* Where a tab ends up that navigates to a page: ProtectedRoute sends those without a
\* session to the form, and the forms send those with one to the application.
Routed(page, session) ==
  IF page = "app" THEN (IF isAuthenticated(session) THEN "app" ELSE "login")
  ELSE (IF isAuthenticated(session) THEN "app" ELSE page)

\* The tab with a session of its store, after navigating to a page, which is mounted
\* anew.
At(page, session) ==
  [token |-> session.token, provider |-> session.provider,
   page |-> Routed(page, session), fresh |-> TRUE, busy |-> FALSE]

\* The forms of a tab that leaves its page no longer hear their answers.
Unheard(t) ==
  [s \in Slots |-> IF request[s] # NoRequest /\ request[s].tab = t
                   THEN [request[s] EXCEPT !.live = FALSE] ELSE request[s]]

ShownIn(t) == IF tab[t].provider = NoProfile THEN NoProfile ELSE tab[t].provider.of

\* apiClient.request: the interceptor takes the token out of localStorage.
Sent(t, kind, who) ==
  [tab |-> t, kind |-> kind, who |-> who, token |-> storage.token,
   shown |-> ShownIn(t), live |-> TRUE]

Accepted(r) == r.token \in valid

-----------------------------------------------------------------------------
(* What the user does in a tab.                                            *)

\* A form is sent once: its fields and its button are disabled while it waits.
SubmitForm(t, s, kind, a) ==
  /\ tab[t].page = kind
  /\ ~tab[t].busy
  /\ request[s] = NoRequest
  /\ request' = [request EXCEPT ![s] = Sent(t, kind, a)]
  /\ tab' = [tab EXCEPT ![t].busy = TRUE]
  /\ UNCHANGED <<issued, valid, storage>>

SubmitLogin(t, s, a)    == SubmitForm(t, s, "login", a)
SubmitRegister(t, s, a) == SubmitForm(t, s, "register", a)

\* The link from one form to the other.
OtherForm(t) ==
  /\ tab[t].page # "app"
  /\ tab' = [tab EXCEPT ![t] = At(IF @.page = "login" THEN "register" ELSE "login", @)]
  /\ request' = Unheard(t)
  /\ UNCHANGED <<issued, valid, storage>>

\* Another page of the application.
Browse(t) ==
  /\ tab[t].page = "app"
  /\ tab' = [tab EXCEPT ![t] = At("app", @)]
  /\ request' = Unheard(t)
  /\ UNCHANGED <<issued, valid, storage>>

\* The profile page sends a change of the name or of the online state.
Save(t, s) ==
  /\ tab[t].page = "app"
  /\ request[s] = NoRequest
  /\ request' = [request EXCEPT ![s] = Sent(t, "save", NoProfile)]
  /\ UNCHANGED <<issued, valid, storage, tab>>

Logout(t) ==
  /\ tab[t].page = "app"
  /\ storage' = Nothing
  /\ tab' = [tab EXCEPT ![t] = At("login", Nothing)]
  /\ request' = Unheard(t)
  /\ UNCHANGED <<issued, valid>>

\* The tab is loaded again: its store is what localStorage holds, and the answers it
\* waited for are lost.
Reload(t) ==
  /\ tab' = [tab EXCEPT ![t] = At(@.page, storage)]
  /\ request' = [s \in Slots |-> IF request[s] # NoRequest /\ request[s].tab = t
                                 THEN NoRequest ELSE request[s]]
  /\ UNCHANGED <<issued, valid, storage>>

-----------------------------------------------------------------------------
(* What the browser and the server do.                                     *)

\* The first render of a page asks for its data.
Load(t, s) ==
  /\ tab[t].page = "app"
  /\ tab[t].fresh
  /\ request[s] = NoRequest
  /\ request' = [request EXCEPT ![s] = Sent(t, "load", NoProfile)]
  /\ tab' = [tab EXCEPT ![t].fresh = FALSE]
  /\ UNCHANGED <<issued, valid, storage>>

\* Mutant: a token that is stored already is kept.
loginKeeping(t, token, provider) ==
  LET session == [token |-> token, provider |-> provider] IN
  /\ storage' = IF storage.token = NoToken THEN session ELSE storage
  /\ tab' = [tab EXCEPT ![t] = At("app", session)]

\* authStore.login, and the navigation that follows it.
login(t, token, provider) ==
  LET session == [token |-> token, provider |-> provider] IN
  /\ storage' = session
  /\ tab' = [tab EXCEPT ![t] = At("app", session)]

\* The server takes the credentials and issues a token.
LoggedIn(s) ==
  LET r == request[s]
      token == [of |-> r.who, n |-> issued + 1]
  IN /\ r # NoRequest /\ r.kind = "login"
     /\ issued < MaxTokens
     /\ issued' = issued + 1
     /\ valid' = valid \cup {token}
     /\ login(r.tab, token, [of |-> r.who, data |-> r.who])
     /\ request' = [Unheard(r.tab) EXCEPT ![s] = NoRequest]

\* handleRegister: an account that was registered is logged in by a second request.
Registered(s) ==
  LET r == request[s] IN
  /\ r # NoRequest /\ r.kind = "register"
  /\ request' = [request EXCEPT ![s] =
                   [Sent(r.tab, "login", r.who) EXCEPT !.live = r.live]]
  /\ UNCHANGED <<issued, valid, storage, tab>>

\* Mutants: the account takes the place of the provider; a whole provider does; the answer
\* is not stored.
updateProviderReplaced(t, a) ==
  IF tab[t].provider = NoProfile THEN UNCHANGED <<storage, tab>>
  ELSE tab' = [tab EXCEPT ![t].provider = a] /\ storage' = [storage EXCEPT !.provider = a]

updateProviderWhole(t, a) ==
  LET updated == [of |-> a, data |-> a] IN
  IF tab[t].provider = NoProfile THEN UNCHANGED <<storage, tab>>
  ELSE /\ tab' = [tab EXCEPT ![t].provider = updated]
       /\ storage' = [storage EXCEPT !.provider = updated]

updateProviderUnstored(t, a) ==
  IF tab[t].provider = NoProfile THEN UNCHANGED <<storage, tab>>
  ELSE tab' = [tab EXCEPT ![t].provider.data = a] /\ UNCHANGED storage

\* authStore.updateProvider merges what the server answered into the provider shown.
updateProvider(t, a) ==
  IF tab[t].provider = NoProfile THEN UNCHANGED <<storage, tab>>
  ELSE LET updated == [tab[t].provider EXCEPT !.data = a] IN
       /\ tab' = [tab EXCEPT ![t].provider = updated]
       /\ storage' = [storage EXCEPT !.provider = updated]

Saved(s) ==
  LET r == request[s] IN
  /\ r # NoRequest /\ r.kind = "save" /\ Accepted(r)
  /\ updateProvider(r.tab, r.token.of)
  /\ request' = [request EXCEPT ![s] = NoRequest]
  /\ UNCHANGED <<issued, valid>>

Loaded(s) ==
  LET r == request[s] IN
  /\ r # NoRequest /\ r.kind = "load" /\ Accepted(r)
  /\ request' = [request EXCEPT ![s] = NoRequest]
  /\ UNCHANGED <<issued, valid, storage, tab>>

\* A request without a token the server accepts, or a login with credentials it does
\* not accept, is answered with a 401: the interceptor empties localStorage and the
\* application navigates to the form.  The store keeps its session.
Rejected(s) ==
  LET r == request[s] IN
  /\ r # NoRequest
  /\ \/ r.kind = "login"
     \/ r.kind \in {"load", "save"} /\ ~Accepted(r)
  /\ storage' = Nothing
  /\ IF tab[r.tab].page = "login"
     THEN /\ tab' = [tab EXCEPT ![r.tab].busy = @ /\ ~r.live]
          /\ request' = [request EXCEPT ![s] = NoRequest]
     ELSE /\ tab' = [tab EXCEPT ![r.tab] = At("login", @)]
          /\ request' = [Unheard(r.tab) EXCEPT ![s] = NoRequest]
  /\ UNCHANGED <<issued, valid>>

\* The request fails otherwise, or times out: its form can be sent again.
Failed(s) ==
  LET r == request[s] IN
  /\ r # NoRequest
  /\ tab' = [tab EXCEPT ![r.tab].busy = @ /\ ~r.live]
  /\ request' = [request EXCEPT ![s] = NoRequest]
  /\ UNCHANGED <<issued, valid, storage>>

\* A token reaches its date of expiry.
Expire(k) ==
  /\ k \in valid
  /\ valid' = valid \ {k}
  /\ UNCHANGED <<issued, storage, tab, request>>

-----------------------------------------------------------------------------
Init ==
  /\ issued = 0
  /\ valid = {}
  /\ storage = Nothing
  /\ tab = [t \in Tabs |-> At("login", Nothing)]
  /\ request = [s \in Slots |-> NoRequest]

User(t) ==
  \/ OtherForm(t) \/ Browse(t) \/ Logout(t) \/ Reload(t)
  \/ \E s \in Slots :
       \/ Save(t, s)
       \/ \E a \in Accounts : SubmitLogin(t, s, a) \/ SubmitRegister(t, s, a)

Served(s) == LoggedIn(s) \/ Registered(s) \/ Saved(s) \/ Loaded(s) \/ Rejected(s)

Answer(s) == Served(s) \/ Failed(s)

Next ==
  \/ \E t \in Tabs : User(t)
  \/ \E t \in Tabs, s \in Slots : Load(t, s)
  \/ \E s \in Slots : Answer(s)
  \/ \E k \in valid : Expire(k)

Spec == Init /\ [][Next]_vars

\* Pages load what they show, every request is answered or times out within its 15
\* seconds, and not all of them time out: the server is reached now and then.
Fairness ==
  /\ \A t \in Tabs : WF_vars(\E s \in Slots : Load(t, s))
  /\ \A s \in Slots : WF_vars(Answer(s)) /\ SF_vars(Served(s))

FairSpec == Spec /\ Fairness

-----------------------------------------------------------------------------
(* Properties.                                                             *)

\* A request that carries a token carries one of the account that its tab shows: what
\* the user does is done by the account the user sees (client.ts:13 reads localStorage,
\* authStore.ts:35 writes it with the store).
ActsAsShown ==
  \A s \in Slots :
    request[s] # NoRequest /\ request[s].token # NoToken
      => request[s].shown = request[s].token.of

\* A token in localStorage is the token of the session shown, with its provider beside
\* it: a tab that is loaded again goes on with the session it showed.
StoredSessionIsShown ==
  storage.token # NoToken =>
    \A t \in Tabs : /\ tab[t].token = storage.token
                    /\ tab[t].provider = storage.provider
                    /\ tab[t].provider # NoProfile
                    /\ tab[t].provider.of = storage.token.of

\* While a tab shows no session, nothing is left in localStorage: no answer, however late,
\* puts back a part of what the logout removed (the guard of updateProvider,
\* authStore.ts:48).  Once somebody else has logged in, a late answer does bring data of
\* the former account: it is merged into the provider shown then.
NothingLeftAfterLogout ==
  \A t \in Tabs : tab[t].provider = NoProfile => storage = Nothing

Keeps(session, a) ==
  \/ session.token # NoToken /\ session.token.of = a
  \/ session.provider # NoProfile /\ session.provider.of = a

\* The accounts whose token or whose identity is kept, in localStorage or in a tab.
Remembered == {a \in Accounts : Keeps(storage, a) \/ \E t \in Tabs : Keeps(tab[t], a)}

\* An account that nobody is logged in with any more comes back by a login of its own
\* only, with a new token: no late answer, reload or tab brings back the token or the
\* identity of a session that ended, whoever is logged in by then (authStore.ts:34-52,
\* client.ts:24-33).
LoggedOutStaysOut ==
  [][\A a \in Remembered' \ Remembered :
       issued' = issued + 1 /\ storage'.token = [of |-> a, n |-> issued']]_vars

=============================================================================
