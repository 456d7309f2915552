---------------------------- MODULE SessionProofs ----------------------------
(***************************************************************************)
(* Proofs about Session, for every number of accounts, tokens and requests *)
(* in flight.  The types are kept, and an account that has logged out      *)
(* stays out, with any number of tabs; that requests act for the account   *)
(* shown, that localStorage is the session shown, and that it is empty     *)
(* where none is shown, needs a browser with one tab, and is stated under  *)
(* that assumption.                                                        *)
(***************************************************************************)
EXTENDS Session, TLAPS

\* A form sends somebody's credentials.
FormsNameAnAccount ==
  \A s \in Slots : request[s] # NoRequest /\ request[s].kind \in {"login", "register"}
                     => request[s].who \in Accounts

TypeInv == TypeOK /\ FormsNameAnAccount

-----------------------------------------------------------------------------
(* Types of what the actions are built from.                               *)

\* A tab that navigates has the type of a tab.
LEMMA AtType ==
  ASSUME NEW page \in {"login", "register", "app"},
         NEW session, session.token \in Tokens \cup {NoToken},
         session.provider \in Provider \cup {NoProfile}
  PROVE  At(page, session) \in AuthState
<1>1. Routed(page, session) \in {"login", "register", "app"}
  BY DEF Routed
<1> QED BY <1>1 DEF At, AuthState

\* What a page sends has the type of a request.
LEMMA SentType ==
  ASSUME TypeOK, NEW t \in Tabs, NEW kind \in {"login", "register", "load", "save"},
         NEW who \in Accounts \cup {NoProfile}
  PROVE  /\ Sent(t, kind, who) \in Request
         /\ Sent(t, kind, who).kind = kind
         /\ Sent(t, kind, who).who = who
<1>1. ShownIn(t) \in Accounts \cup {NoProfile}
  BY DEF ShownIn, TypeOK, AuthState, Provider
<1>2. storage.token \in Tokens \cup {NoToken}
  BY DEF TypeOK
<1> QED BY <1>1, <1>2 DEF Sent, Request

\* A request that nobody hears any more is the same request.
LEMMA UnheardType ==
  ASSUME TypeInv, NEW t \in Tabs
  PROVE  /\ Unheard(t) \in [Slots -> Request \cup {NoRequest}]
         /\ \A s \in Slots :
              Unheard(t)[s] # NoRequest /\ Unheard(t)[s].kind \in {"login", "register"}
                => Unheard(t)[s].who \in Accounts
<1>1. ASSUME NEW s \in Slots
      PROVE  /\ Unheard(t)[s] \in Request \cup {NoRequest}
             /\ Unheard(t)[s] # NoRequest /\ Unheard(t)[s].kind \in {"login", "register"}
                  => Unheard(t)[s].who \in Accounts
  <2>1. CASE request[s] # NoRequest /\ request[s].tab = t
    <3>1. request[s] \in Request
      BY <2>1 DEF TypeInv, TypeOK
    <3>2. Unheard(t)[s] = [request[s] EXCEPT !.live = FALSE]
      BY <2>1 DEF Unheard
    <3>3. /\ [request[s] EXCEPT !.live = FALSE] \in Request
          /\ [request[s] EXCEPT !.live = FALSE].kind = request[s].kind
          /\ [request[s] EXCEPT !.live = FALSE].who = request[s].who
      BY <3>1 DEF Request
    <3> QED BY <2>1, <3>2, <3>3 DEF TypeInv, FormsNameAnAccount
  <2>2. CASE ~(request[s] # NoRequest /\ request[s].tab = t)
    <3>1. Unheard(t)[s] = request[s]
      BY <2>2 DEF Unheard
    <3> QED BY <3>1 DEF TypeInv, TypeOK, FormsNameAnAccount
  <2> QED BY <2>1, <2>2
<1>2. Unheard(t) = [s \in Slots |-> Unheard(t)[s]]
  BY DEF Unheard
<1> QED BY <1>1, <1>2

-----------------------------------------------------------------------------
(* TypeInv is inductive.                                                   *)

\* Requests as TypeInv wants them.
Requests ==
  {r \in [Slots -> Request \cup {NoRequest}] :
     \A s \in Slots : r[s] # NoRequest /\ r[s].kind \in {"login", "register"}
                       => r[s].who \in Accounts}

\* What the requests are now, and what they are with those of a tab no longer heard.
LEMMA RequestsOfTypeInv ==
  ASSUME TypeInv PROVE request \in Requests /\ \A t \in Tabs : Unheard(t) \in Requests
BY UnheardType DEF TypeInv, TypeOK, FormsNameAnAccount, Requests

\* One request is put in the place of another, or taken out.
LEMMA OneRequest ==
  ASSUME NEW q \in Requests, NEW s \in Slots, NEW r \in Request \cup {NoRequest},
         r # NoRequest /\ r.kind \in {"login", "register"} => r.who \in Accounts
  PROVE  [q EXCEPT ![s] = r] \in Requests
BY DEF Requests

\* A tab keeps its type when it navigates.
LEMMA TabNavigates ==
  ASSUME TypeOK, NEW t \in Tabs, NEW page \in {"login", "register", "app"},
         NEW session, session.token \in Tokens \cup {NoToken},
         session.provider \in Provider \cup {NoProfile}
  PROVE  [tab EXCEPT ![t] = At(page, session)] \in [Tabs -> AuthState]
BY AtType DEF TypeOK

\* ... with the session it has.
LEMMA TabStays ==
  ASSUME TypeOK, NEW t \in Tabs, NEW page \in {"login", "register", "app"}
  PROVE  [tab EXCEPT ![t] = At(page, @)] \in [Tabs -> AuthState]
<1>1. tab[t].token \in Tokens \cup {NoToken} /\ tab[t].provider \in Provider \cup {NoProfile}
  BY DEF TypeOK, AuthState
<1>2. At(page, tab[t]) \in AuthState
  BY <1>1, AtType
<1> QED BY <1>2 DEF TypeOK

LEMMA NothingType ==
  Nothing \in [token : Tokens \cup {NoToken}, provider : Provider \cup {NoProfile}]
BY DEF Nothing

LEMMA InitTyped == Init => TypeInv
<1> SUFFICES ASSUME Init PROVE TypeInv
  OBVIOUS
<1>1. \A t \in Tabs : At("login", Nothing) \in AuthState
  BY NothingType, AtType
<1>2. 0 \in 0..MaxTokens
  BY SessionAssumption
<1> QED BY <1>1, <1>2, NothingType DEF Init, TypeInv, TypeOK, FormsNameAnAccount

\* What is left to show of a step, once the new requests are known.
LEMMA TypedStep ==
  ASSUME request' \in Requests,
         issued' \in 0..MaxTokens, valid' \subseteq Tokens,
         storage' \in [token : Tokens \cup {NoToken}, provider : Provider \cup {NoProfile}],
         tab' \in [Tabs -> AuthState]
  PROVE  TypeInv'
BY DEF Requests, TypeInv, TypeOK, FormsNameAnAccount

\* What the user does.
LEMMA UserTyped ==
  ASSUME TypeInv, NEW t \in Tabs, User(t)
  PROVE  TypeInv'
<1> USE DEF TypeInv
<1>r. request \in Requests /\ Unheard(t) \in Requests
  BY RequestsOfTypeInv
<1>1. CASE OtherForm(t)
  <2>1. tab' \in [Tabs -> AuthState]
    <3>1. tab' = [tab EXCEPT ![t] =
                    At(IF tab[t].page = "login" THEN "register" ELSE "login", tab[t])]
      BY <1>1 DEF OtherForm
    <3> DEFINE page == IF tab[t].page = "login" THEN "register" ELSE "login"
    <3>2. page \in {"login", "register", "app"}
      OBVIOUS
    <3> HIDE DEF page
    <3>3. [tab EXCEPT ![t] = At(page, @)] \in [Tabs -> AuthState]
      BY <3>2, TabStays
    <3> QED BY <3>1, <3>3 DEF page
  <2> QED BY <1>1, <1>r, <2>1, TypedStep DEF OtherForm, TypeOK
<1>2. CASE Browse(t)
  <2>1. tab' \in [Tabs -> AuthState]
    BY <1>2, TabStays DEF Browse
  <2> QED BY <1>2, <1>r, <2>1, TypedStep DEF Browse, TypeOK
<1>3. CASE Logout(t)
  <2>1. tab' \in [Tabs -> AuthState]
    BY <1>3, TabNavigates, NothingType DEF Logout
  <2> QED BY <1>3, <1>r, <2>1, NothingType, TypedStep DEF Logout, TypeOK
<1>4. CASE Reload(t)
  <2>1. tab' \in [Tabs -> AuthState]
    <3>1. tab[t].page \in {"login", "register", "app"}
      BY DEF TypeOK, AuthState
    <3>2. storage.token \in Tokens \cup {NoToken} /\ storage.provider \in Provider \cup {NoProfile}
      BY DEF TypeOK
    <3>3. [tab EXCEPT ![t] = At(tab[t].page, storage)] \in [Tabs -> AuthState]
      BY <3>1, <3>2, TabNavigates
    <3> QED BY <1>4, <3>3 DEF Reload
  <2>2. request' \in Requests
    BY <1>4, <1>r DEF Reload, Requests
  <2> QED BY <1>4, <2>1, <2>2, TypedStep DEF Reload, TypeOK
<1>5. ASSUME NEW s \in Slots, Save(t, s) PROVE TypeInv'
  <2>1. Sent(t, "save", NoProfile) \in Request /\ Sent(t, "save", NoProfile).kind = "save"
    BY SentType
  <2>2. request' \in Requests
    BY <1>5, <1>r, <2>1, OneRequest DEF Save
  <2> QED BY <1>5, <2>2, TypedStep DEF Save, TypeOK
<1>6. ASSUME NEW s \in Slots, NEW a \in Accounts, NEW kind \in {"login", "register"},
             SubmitForm(t, s, kind, a)
      PROVE  TypeInv'
  <2>1. Sent(t, kind, a) \in Request /\ Sent(t, kind, a).who = a
    BY SentType
  <2>2. request' \in Requests
    BY <1>6, <1>r, <2>1, OneRequest DEF SubmitForm
  <2>3. tab' \in [Tabs -> AuthState]
    BY <1>6 DEF SubmitForm, TypeOK, AuthState
  <2> QED BY <1>6, <2>2, <2>3, TypedStep DEF SubmitForm, TypeOK
<1> QED BY <1>1, <1>2, <1>3, <1>4, <1>5, <1>6 DEF User, SubmitLogin, SubmitRegister

\* What the server answers.
LEMMA AnswerTyped ==
  ASSUME TypeInv, NEW s \in Slots, Answer(s)
  PROVE  TypeInv'
<1> USE DEF TypeInv
<1> DEFINE r == request[s]
           t == r.tab
<1>r. /\ r # NoRequest
      /\ r \in Request /\ t \in Tabs
      /\ request \in Requests /\ Unheard(t) \in Requests
  <2>1. r # NoRequest
    BY DEF Answer, Served, LoggedIn, Registered, Saved, Loaded, Rejected, Failed
  <2>2. r \in Request /\ t \in Tabs
    BY <2>1 DEF TypeOK, Request
  <2> QED BY <2>1, <2>2, RequestsOfTypeInv
<1>d. [request EXCEPT ![s] = NoRequest] \in Requests /\ [Unheard(t) EXCEPT ![s] = NoRequest] \in Requests
  BY <1>r, OneRequest
<1>1. CASE LoggedIn(s)
  <2> DEFINE token == [of |-> r.who, n |-> issued + 1]
             profile == [of |-> r.who, data |-> r.who]
             session == [token |-> token, provider |-> profile]
  <2>1. r.who \in Accounts
    BY <1>1, <1>r DEF LoggedIn, FormsNameAnAccount
  <2>2. issued + 1 \in 1..MaxTokens /\ issued + 1 \in 0..MaxTokens
    BY <1>1, SessionAssumption DEF LoggedIn, TypeOK
  <2>3. token \in Tokens /\ profile \in Provider
    BY <2>1, <2>2 DEF Tokens, Provider
  <2>4. storage' = session /\ tab' = [tab EXCEPT ![t] = At("app", session)]
    BY <1>1 DEF LoggedIn, login
  <2>5. session \in [token : Tokens \cup {NoToken}, provider : Provider \cup {NoProfile}]
        /\ session.token = token /\ session.provider = profile
    BY <2>3
  <2>6. issued' = issued + 1 /\ valid' = valid \cup {token}
        /\ request' = [Unheard(t) EXCEPT ![s] = NoRequest]
    BY <1>1 DEF LoggedIn
  <2> HIDE DEF session, token, profile
  <2>7. tab' \in [Tabs -> AuthState]
    BY <1>r, <2>3, <2>4, <2>5, TabNavigates
  <2> QED BY <1>d, <2>2, <2>3, <2>4, <2>5, <2>6, <2>7, TypedStep DEF TypeOK
<1>2. CASE Registered(s)
  <2> DEFINE sent == Sent(t, "login", r.who)
  <2>1. r.who \in Accounts
    BY <1>2, <1>r DEF Registered, FormsNameAnAccount
  <2>2. sent \in Request /\ sent.who = r.who
    BY <1>r, <2>1, SentType
  <2>3. r.live \in BOOLEAN
    BY <1>r DEF Request
  <2> HIDE DEF sent
  <2>4. [sent EXCEPT !.live = r.live] \in Request /\ [sent EXCEPT !.live = r.live].who = sent.who
    BY <2>2, <2>3 DEF Request
  <2>5. request' = [request EXCEPT ![s] = [sent EXCEPT !.live = r.live]]
    BY <1>2 DEF Registered, sent
  <2>6. request' \in Requests
    BY <1>r, <2>1, <2>2, <2>4, <2>5, OneRequest
  <2> QED BY <1>2, <2>6, TypedStep DEF Registered, TypeOK
<1>3. CASE Saved(s)
  <2>1. CASE tab[t].provider = NoProfile
    BY <1>3, <1>d, <2>1, TypedStep DEF Saved, updateProvider, TypeOK
  <2>2. CASE tab[t].provider # NoProfile
    <3> DEFINE updated == [tab[t].provider EXCEPT !.data = r.token.of]
    <3>1. r.token \in Tokens
      BY <1>3, <1>r DEF Saved, Accepted, TypeOK
    <3>2. tab[t].provider \in Provider
      BY <1>r, <2>2 DEF TypeOK, AuthState
    <3>3. updated \in Provider
      BY <3>1, <3>2 DEF Tokens, Provider
    <3>4. /\ tab' = [tab EXCEPT ![t].provider = updated]
          /\ storage' = [storage EXCEPT !.provider = updated]
          /\ request' = [request EXCEPT ![s] = NoRequest]
          /\ UNCHANGED <<issued, valid>>
      BY <1>3, <2>2 DEF Saved, updateProvider
    <3> HIDE DEF updated
    <3>5. tab' \in [Tabs -> AuthState]
      BY <3>3, <3>4 DEF TypeOK, AuthState
    <3>6. storage' \in [token : Tokens \cup {NoToken}, provider : Provider \cup {NoProfile}]
      BY <3>3, <3>4 DEF TypeOK
    <3> QED BY <1>d, <3>4, <3>5, <3>6, TypedStep DEF TypeOK
  <2> QED BY <2>1, <2>2
<1>4. CASE Loaded(s)
  BY <1>4, <1>d, TypedStep DEF Loaded, TypeOK
<1>5. CASE Rejected(s)
  <2>1. tab' \in [Tabs -> AuthState] /\ request' \in Requests
    <3>1. CASE tab[t].page = "login"
      <4> DEFINE busy == tab[t].busy /\ ~r.live
      <4>1. busy \in BOOLEAN
        OBVIOUS
      <4>2. tab' = [tab EXCEPT ![t].busy = busy]
            /\ request' = [request EXCEPT ![s] = NoRequest]
        BY <1>5, <3>1 DEF Rejected
      <4> HIDE DEF busy
      <4> QED BY <1>r, <1>d, <4>1, <4>2 DEF TypeOK, AuthState
    <3>2. CASE tab[t].page # "login"
      BY <1>5, <1>r, <1>d, <3>2, TabStays DEF Rejected
    <3> QED BY <3>1, <3>2
  <2> QED BY <1>5, <2>1, NothingType, TypedStep DEF Rejected, TypeOK
<1>6. CASE Failed(s)
  <2>1. tab' \in [Tabs -> AuthState]
    <3> DEFINE busy == tab[t].busy /\ ~r.live
    <3>1. tab' = [tab EXCEPT ![t].busy = busy]
      BY <1>6 DEF Failed
    <3>2. busy \in BOOLEAN
      OBVIOUS
    <3> HIDE DEF busy
    <3> QED BY <1>r, <3>1, <3>2 DEF TypeOK, AuthState
  <2> QED BY <1>6, <1>d, <2>1, TypedStep DEF Failed, TypeOK
<1> QED BY <1>1, <1>2, <1>3, <1>4, <1>5, <1>6 DEF Answer, Served

LEMMA NextTyped == TypeInv /\ [Next]_vars => TypeInv'
<1> SUFFICES ASSUME TypeInv, [Next]_vars PROVE TypeInv'
  OBVIOUS
<1> USE DEF TypeInv
<1>r. request \in Requests
  BY RequestsOfTypeInv
<1>1. ASSUME NEW t \in Tabs, User(t) PROVE TypeInv'
  BY <1>1, UserTyped
<1>2. ASSUME NEW s \in Slots, Answer(s) PROVE TypeInv'
  BY <1>2, AnswerTyped
<1>3. ASSUME NEW t \in Tabs, NEW s \in Slots, Load(t, s) PROVE TypeInv'
  <2>1. Sent(t, "load", NoProfile) \in Request /\ Sent(t, "load", NoProfile).kind = "load"
    BY SentType
  <2>2. request' \in Requests
    BY <1>3, <1>r, <2>1, OneRequest DEF Load
  <2>3. tab' \in [Tabs -> AuthState]
    BY <1>3 DEF Load, TypeOK, AuthState
  <2> QED BY <1>3, <2>2, <2>3, TypedStep DEF Load, TypeOK
<1>4. ASSUME NEW k \in valid, Expire(k) PROVE TypeInv'
  BY <1>4, <1>r, TypedStep DEF Expire, TypeOK
<1>5. CASE UNCHANGED vars
  BY <1>5, <1>r, TypedStep DEF vars, TypeOK
<1> QED BY <1>1, <1>2, <1>3, <1>4, <1>5 DEF Next

\* TypeOK of Session, with any number of tabs.
THEOREM SessionTypeCorrect == Spec => []TypeOK
<1>1. TypeInv => TypeOK
  BY DEF TypeInv
<1> QED BY <1>1, InitTyped, NextTyped, PTL DEF Spec

-----------------------------------------------------------------------------
(* One tab.  What a step does to the session, and to what requests carry.  *)

OneTab == \A t, u \in Tabs : t = u

SafeInv == TypeInv /\ StoredSessionIsShown /\ NothingLeftAfterLogout /\ ActsAsShown

Stays(t) == tab'[t].token = tab[t].token /\ tab'[t].provider = tab[t].provider
Forgets(t) == tab'[t].token = NoToken /\ tab'[t].provider = NoProfile

Kept == storage' = storage /\ \A t \in Tabs : Stays(t)

Emptied == storage' = Nothing /\ \A t \in Tabs : Stays(t) \/ Forgets(t)

LoggedInAs ==
  \E t \in Tabs, k \in Tokens, p \in Provider :
    /\ p.of = k.of /\ k.n = issued + 1 /\ issued' = issued + 1
    /\ storage' = [token |-> k, provider |-> p]
    /\ tab'[t].token = k /\ tab'[t].provider = p
    /\ \A u \in Tabs \ {t} : Stays(u)

Restored ==
  /\ storage' = storage
  /\ \E t \in Tabs : /\ tab'[t].token = storage.token /\ tab'[t].provider = storage.provider
                     /\ \A u \in Tabs \ {t} : Stays(u)

Merged ==
  \E t \in Tabs, p \in Provider :
    /\ tab[t].provider # NoProfile /\ p.of = tab[t].provider.of
    /\ storage' = [storage EXCEPT !.provider = p]
    /\ tab'[t].token = tab[t].token /\ tab'[t].provider = p
    /\ \A u \in Tabs \ {t} : Stays(u)

\* A request that was sent by the step carries what localStorage and a tab held.
Carried ==
  \A s \in Slots : request'[s] # NoRequest =>
    \/ /\ request[s] # NoRequest
       /\ request'[s].token = request[s].token /\ request'[s].shown = request[s].shown
    \/ \E t \in Tabs : request'[s].token = storage.token /\ request'[s].shown = ShownIn(t)

Effect == (Kept \/ Emptied \/ LoggedInAs \/ Restored \/ Merged) /\ Carried

\* Any step with such an effect keeps the session of the one tab in order.
LEMMA EffectIsSafe ==
  ASSUME OneTab, SafeInv, TypeInv', Effect
  PROVE  SafeInv'
<1> USE DEF TypeInv
<1>a. Nothing.token = NoToken /\ NoToken \notin Tokens /\ NoProfile \notin Provider
  BY SessionAssumption DEF Nothing, Provider
<1>1. StoredSessionIsShown' /\ NothingLeftAfterLogout'
  <2>1. CASE Kept
    BY <2>1 DEF Kept, Stays, SafeInv, StoredSessionIsShown, NothingLeftAfterLogout
  <2>2. CASE Emptied
    BY <1>a, <2>2 DEF Emptied, StoredSessionIsShown, NothingLeftAfterLogout
  <2>3. CASE LoggedInAs
    BY <1>a, <2>3 DEF LoggedInAs, OneTab, StoredSessionIsShown, NothingLeftAfterLogout
  <2>4. CASE Restored
    <3>1. PICK t \in Tabs : tab'[t].token = storage.token /\ tab'[t].provider = storage.provider
      BY <2>4 DEF Restored
    <3>2. storage.token # NoToken => storage.provider # NoProfile /\ storage.provider.of = storage.token.of
      BY <3>1 DEF SafeInv, StoredSessionIsShown
    <3>3. storage.token = NoToken /\ storage.provider = NoProfile => storage = Nothing
      BY DEF SafeInv, TypeOK, Nothing
    <3> QED BY <2>4, <3>1, <3>2, <3>3 DEF Restored, OneTab, StoredSessionIsShown, NothingLeftAfterLogout
  <2>5. CASE Merged
    <3>1. PICK t \in Tabs, p \in Provider :
            /\ tab[t].provider # NoProfile /\ p.of = tab[t].provider.of
            /\ storage' = [storage EXCEPT !.provider = p]
            /\ tab'[t].token = tab[t].token /\ tab'[t].provider = p
      BY <2>5 DEF Merged
    <3>2. storage'.token = storage.token /\ storage'.provider = p /\ p # NoProfile
      BY <1>a, <3>1 DEF SafeInv, TypeOK
    <3> QED BY <3>1, <3>2 DEF OneTab, SafeInv, StoredSessionIsShown, NothingLeftAfterLogout
  <2> QED BY <2>1, <2>2, <2>3, <2>4, <2>5 DEF Effect
<1>2. ActsAsShown'
  <2> SUFFICES ASSUME NEW s \in Slots, request'[s] # NoRequest, request'[s].token # NoToken
               PROVE  request'[s].shown = request'[s].token.of
    BY DEF ActsAsShown
  <2>1. CASE /\ request[s] # NoRequest
             /\ request'[s].token = request[s].token /\ request'[s].shown = request[s].shown
    BY <2>1 DEF SafeInv, ActsAsShown
  <2>2. ASSUME NEW t \in Tabs, request'[s].token = storage.token, request'[s].shown = ShownIn(t)
        PROVE  request'[s].shown = request'[s].token.of
    BY <2>2 DEF SafeInv, StoredSessionIsShown, ShownIn
  <2> QED BY <2>1, <2>2 DEF Effect, Carried
<1> QED BY <1>1, <1>2 DEF SafeInv

LEMMA AtFields ==
  ASSUME NEW page, NEW session
  PROVE  At(page, session).token = session.token /\ At(page, session).provider = session.provider
BY DEF At

LEMMA SentFields ==
  ASSUME NEW t, NEW kind, NEW who
  PROVE  Sent(t, kind, who).token = storage.token /\ Sent(t, kind, who).shown = ShownIn(t)
BY DEF Sent

\* The request in s becomes r; the others are as they were, heard or not.
LEMMA CarriedBy ==
  ASSUME TypeInv, NEW t \in Tabs, NEW s \in Slots, NEW r,
         \/ r = NoRequest
         \/ \E u \in Tabs : r.token = storage.token /\ r.shown = ShownIn(u),
         NEW q \in {request, Unheard(t)}, request' = [q EXCEPT ![s] = r]
  PROVE  Carried
<1> SUFFICES ASSUME NEW i \in Slots, request'[i] # NoRequest
             PROVE  \/ /\ request[i] # NoRequest
                       /\ request'[i].token = request[i].token
                       /\ request'[i].shown = request[i].shown
                    \/ \E u \in Tabs : request'[i].token = storage.token
                                        /\ request'[i].shown = ShownIn(u)
  BY DEF Carried
<1>1. q \in [Slots -> Request \cup {NoRequest}]
  BY UnheardType DEF TypeInv, TypeOK
<1>2. q[i] # NoRequest =>
        request[i] # NoRequest /\ q[i].token = request[i].token /\ q[i].shown = request[i].shown
  <2>1. CASE request[i] # NoRequest /\ request[i].tab = t /\ q = Unheard(t)
    <3>1. q[i] = [request[i] EXCEPT !.live = FALSE] /\ request[i] \in Request
      BY <2>1 DEF Unheard, TypeInv, TypeOK
    <3> QED BY <2>1, <3>1 DEF Request
  <2>2. CASE ~(request[i] # NoRequest /\ request[i].tab = t /\ q = Unheard(t))
    BY <2>2 DEF Unheard
  <2> QED BY <2>1, <2>2
<1>3. CASE i = s
  BY <1>1, <1>3
<1>4. CASE i # s
  BY <1>1, <1>2, <1>4
<1> QED BY <1>3, <1>4

\* ... or all are as they were.
LEMMA CarriedAlong ==
  ASSUME TypeInv, NEW t \in Tabs, NEW q \in {request, Unheard(t)}, request' = q
  PROVE  Carried
<1> SUFFICES ASSUME NEW i \in Slots, request'[i] # NoRequest
             PROVE  /\ request[i] # NoRequest
                    /\ request'[i].token = request[i].token
                    /\ request'[i].shown = request[i].shown
  BY DEF Carried
<1>1. CASE request[i] # NoRequest /\ request[i].tab = t /\ q = Unheard(t)
  <2>1. q[i] = [request[i] EXCEPT !.live = FALSE] /\ request[i] \in Request
    BY <1>1 DEF Unheard, TypeInv, TypeOK
  <2> QED BY <1>1, <2>1 DEF Request
<1>2. CASE ~(request[i] # NoRequest /\ request[i].tab = t /\ q = Unheard(t))
  BY <1>2 DEF Unheard
<1> QED BY <1>1, <1>2

\* A tab that navigates keeps its session, unless it is given another.
LEMMA KeptByAt ==
  ASSUME TypeOK, NEW t \in Tabs, NEW page,
         tab' = [tab EXCEPT ![t] = At(page, @)], storage' = storage
  PROVE  Kept
BY AtFields DEF Kept, Stays, TypeOK

LEMMA UserEffect ==
  ASSUME TypeInv, NEW t \in Tabs, User(t)
  PROVE  Effect
<1> USE DEF TypeInv
<1>1. CASE OtherForm(t)
  <2> DEFINE page == IF tab[t].page = "login" THEN "register" ELSE "login"
  <2>1. tab' = [tab EXCEPT ![t] = At(page, @)] /\ storage' = storage /\ request' = Unheard(t)
    BY <1>1 DEF OtherForm
  <2> HIDE DEF page
  <2> QED BY <2>1, KeptByAt, CarriedAlong DEF Effect
<1>2. CASE Browse(t)
  BY <1>2, KeptByAt, CarriedAlong DEF Browse, Effect
<1>3. CASE Logout(t)
  <2>1. Emptied
    <3>1. Forgets(t)
      BY <1>3, AtFields DEF Logout, Forgets, Nothing, TypeOK
    <3>2. \A u \in Tabs \ {t} : Stays(u)
      BY <1>3 DEF Logout, Stays, TypeOK
    <3> QED BY <1>3, <3>1, <3>2 DEF Logout, Emptied
  <2> QED BY <1>3, <2>1, CarriedAlong DEF Logout, Effect
<1>4. CASE Reload(t)
  <2>1. Restored
    BY <1>4, AtFields DEF Reload, Restored, Stays, TypeOK
  <2>2. Carried
    BY <1>4 DEF Reload, Carried
  <2> QED BY <2>1, <2>2 DEF Effect
<1>5. ASSUME NEW s \in Slots, Save(t, s) PROVE Effect
  <2> DEFINE sent == Sent(t, "save", NoProfile)
  <2>1. sent.token = storage.token /\ sent.shown = ShownIn(t)
    BY SentFields
  <2>2. request' = [request EXCEPT ![s] = sent] /\ UNCHANGED <<storage, tab>>
    BY <1>5 DEF Save
  <2> HIDE DEF sent
  <2>3. Carried
    BY <2>1, <2>2, CarriedBy
  <2> QED BY <2>2, <2>3 DEF Effect, Kept, Stays
<1>6. ASSUME NEW s \in Slots, NEW a \in Accounts, NEW kind \in {"login", "register"},
             SubmitForm(t, s, kind, a)
      PROVE  Effect
  <2> DEFINE sent == Sent(t, kind, a)
  <2>3. sent.token = storage.token /\ sent.shown = ShownIn(t)
    BY SentFields
  <2>4. request' = [request EXCEPT ![s] = sent]
    BY <1>6 DEF SubmitForm
  <2> HIDE DEF sent
  <2>1. Carried
    BY <2>3, <2>4, CarriedBy
  <2>2. Kept
    BY <1>6 DEF SubmitForm, Kept, Stays, TypeOK, AuthState
  <2> QED BY <2>1, <2>2 DEF Effect
<1> QED BY <1>1, <1>2, <1>3, <1>4, <1>5, <1>6 DEF User, SubmitLogin, SubmitRegister

LEMMA AnswerEffect ==
  ASSUME TypeInv, NEW s \in Slots, Answer(s)
  PROVE  Effect
<1> USE DEF TypeInv
<1> DEFINE r == request[s]
           t == r.tab
<1>r. r # NoRequest /\ r \in Request /\ t \in Tabs
  <2>1. r # NoRequest
    BY DEF Answer, Served, LoggedIn, Registered, Saved, Loaded, Rejected, Failed
  <2> QED BY <2>1 DEF TypeOK, Request
<1>1. CASE LoggedIn(s)
  <2> DEFINE token == [of |-> r.who, n |-> issued + 1]
             profile == [of |-> r.who, data |-> r.who]
             session == [token |-> token, provider |-> profile]
  <2>1. r.who \in Accounts /\ issued + 1 \in 1..MaxTokens
    BY <1>1, <1>r, SessionAssumption DEF LoggedIn, FormsNameAnAccount, TypeOK
  <2>2. token \in Tokens /\ profile \in Provider /\ profile.of = token.of /\ token.n = issued + 1
    BY <2>1 DEF Tokens, Provider
  <2>3. /\ storage' = session /\ tab' = [tab EXCEPT ![t] = At("app", session)]
        /\ request' = [Unheard(t) EXCEPT ![s] = NoRequest] /\ issued' = issued + 1
    BY <1>1 DEF LoggedIn, login
  <2>4. session.token = token /\ session.provider = profile
    OBVIOUS
  <2>5. /\ tab'[t].token = token /\ tab'[t].provider = profile
        /\ \A u \in Tabs \ {t} : Stays(u)
    BY <1>r, <2>3, <2>4, AtFields DEF TypeOK, Stays
  <2>6. LoggedInAs
    BY <1>r, <2>2, <2>3, <2>5 DEF LoggedInAs
  <2>7. Carried
    BY <1>r, <2>3, CarriedBy
  <2> QED BY <2>6, <2>7 DEF Effect
<1>2. CASE Registered(s)
  <2> DEFINE sent == Sent(t, "login", r.who)
             again == [sent EXCEPT !.live = r.live]
  <2>1. again.token = sent.token /\ again.shown = sent.shown
    BY DEF Sent
  <2>2. sent.token = storage.token /\ sent.shown = ShownIn(t)
    BY SentFields
  <2>3. request' = [request EXCEPT ![s] = again] /\ UNCHANGED <<storage, tab>>
    BY <1>2 DEF Registered
  <2> HIDE DEF again
  <2>4. Carried
    BY <1>r, <2>1, <2>2, <2>3, CarriedBy
  <2> QED BY <2>3, <2>4 DEF Effect, Kept, Stays
<1>3. CASE Saved(s)
  <2>1. Carried
    BY <1>3, <1>r, CarriedBy DEF Saved
  <2>2. CASE tab[t].provider = NoProfile
    BY <1>3, <2>1, <2>2 DEF Saved, updateProvider, Effect, Kept, Stays
  <2>3. CASE tab[t].provider # NoProfile
    <3> DEFINE updated == [tab[t].provider EXCEPT !.data = r.token.of]
    <3>1. r.token \in Tokens
      BY <1>3, <1>r DEF Saved, Accepted, TypeOK
    <3>2. tab[t].provider \in Provider
      BY <1>r, <2>3 DEF TypeOK, AuthState
    <3>3. updated \in Provider /\ updated.of = tab[t].provider.of
      BY <3>1, <3>2 DEF Tokens, Provider
    <3>4. /\ tab' = [tab EXCEPT ![t].provider = updated]
          /\ storage' = [storage EXCEPT !.provider = updated]
      BY <1>3, <2>3 DEF Saved, updateProvider
    <3> HIDE DEF updated
    <3>5. /\ tab'[t].token = tab[t].token /\ tab'[t].provider = updated
          /\ \A u \in Tabs \ {t} : Stays(u)
      BY <1>r, <3>4 DEF TypeOK, AuthState, Stays
    <3> QED BY <1>r, <2>1, <2>3, <3>3, <3>4, <3>5 DEF Effect, Merged
  <2> QED BY <2>2, <2>3
<1>4. CASE Loaded(s)
  BY <1>4, <1>r, CarriedBy DEF Loaded, Effect, Kept, Stays
<1>5. CASE Rejected(s)
  <2>1. Carried
    BY <1>5, <1>r, CarriedBy DEF Rejected
  <2>2. \A u \in Tabs : Stays(u)
    <3>1. CASE tab[t].page = "login"
      <4> DEFINE busy == tab[t].busy /\ ~r.live
      <4>1. tab' = [tab EXCEPT ![t].busy = busy]
        BY <1>5, <3>1 DEF Rejected
      <4> HIDE DEF busy
      <4> QED BY <1>r, <4>1 DEF Stays, TypeOK, AuthState
    <3>2. CASE tab[t].page # "login"
      BY <1>5, <1>r, <3>2, AtFields DEF Rejected, Stays, TypeOK
    <3> QED BY <3>1, <3>2
  <2> QED BY <1>5, <2>1, <2>2 DEF Rejected, Effect, Emptied
<1>6. CASE Failed(s)
  <2>1. Carried
    BY <1>6, <1>r, CarriedBy DEF Failed
  <2> DEFINE busy == tab[t].busy /\ ~r.live
  <2>2. tab' = [tab EXCEPT ![t].busy = busy] /\ storage' = storage
    BY <1>6 DEF Failed
  <2> HIDE DEF busy
  <2>3. Kept
    BY <1>r, <2>2 DEF Kept, Stays, TypeOK, AuthState
  <2> QED BY <2>1, <2>3 DEF Effect
<1> QED BY <1>1, <1>2, <1>3, <1>4, <1>5, <1>6 DEF Answer, Served

LEMMA NextEffect == TypeInv /\ [Next]_vars => Effect
<1> SUFFICES ASSUME TypeInv, [Next]_vars PROVE Effect
  OBVIOUS
<1>1. ASSUME NEW t \in Tabs, User(t) PROVE Effect
  BY <1>1, UserEffect
<1>2. ASSUME NEW s \in Slots, Answer(s) PROVE Effect
  BY <1>2, AnswerEffect
<1>3. ASSUME NEW t \in Tabs, NEW s \in Slots, Load(t, s) PROVE Effect
  <2>1. Carried
    BY <1>3, SentFields, CarriedBy DEF Load
  <2>2. Kept
    BY <1>3 DEF Load, Kept, Stays, TypeInv, TypeOK, AuthState
  <2> QED BY <2>1, <2>2 DEF Effect
<1>4. ASSUME NEW k \in valid, Expire(k) PROVE Effect
  BY <1>4 DEF Expire, Effect, Kept, Stays, Carried
<1>5. CASE UNCHANGED vars
  BY <1>5 DEF vars, Effect, Kept, Stays, Carried
<1> QED BY <1>1, <1>2, <1>3, <1>4, <1>5 DEF Next

\* SafeInv is inductive, as long as there is one tab.
LEMMA InitSafe == OneTab /\ Init => SafeInv
<1> SUFFICES ASSUME OneTab, Init PROVE SafeInv
  OBVIOUS
<1>1. storage = Nothing /\ Nothing.token = NoToken /\ \A s \in Slots : request[s] = NoRequest
  BY DEF Init, Nothing
<1> QED BY <1>1, InitTyped DEF SafeInv, StoredSessionIsShown, NothingLeftAfterLogout, ActsAsShown

LEMMA NextSafe == OneTab /\ SafeInv /\ [Next]_vars => SafeInv'
BY NextTyped, NextEffect, EffectIsSafe DEF SafeInv

\* ActsAsShown of Session: whatever is in flight, and whoever logs in or out meanwhile, a
\* request that carries a token is one of the account that its tab showed.
THEOREM RequestsActAsShown == ASSUME OneTab PROVE Spec => []ActsAsShown
<1>1. SafeInv => ActsAsShown
  BY DEF SafeInv
<1>2. Init => SafeInv
  BY InitSafe
<1>3. SafeInv /\ [Next]_vars => SafeInv'
  BY NextSafe
<1> QED BY <1>1, <1>2, <1>3, PTL DEF Spec

\* StoredSessionIsShown of Session: what localStorage holds is the session shown, so that a
\* tab that is loaded again goes on with it.
THEOREM SessionsAreStored == ASSUME OneTab PROVE Spec => []StoredSessionIsShown
<1>1. SafeInv => StoredSessionIsShown
  BY DEF SafeInv
<1>2. Init => SafeInv
  BY InitSafe
<1>3. SafeInv /\ [Next]_vars => SafeInv'
  BY NextSafe
<1> QED BY <1>1, <1>2, <1>3, PTL DEF Spec

\* What is remembered of an account after a step was remembered before it, unless the
\* step is a login of that account.
LEMMA EffectRemembers ==
  ASSUME TypeInv, Effect
  PROVE  \A a \in Remembered' \ Remembered :
           issued' = issued + 1 /\ storage'.token = [of |-> a, n |-> issued']
<1> SUFFICES ASSUME NEW a \in Accounts, a \notin Remembered,
                    Keeps(storage', a) \/ \E t \in Tabs : Keeps(tab'[t], a)
             PROVE  issued' = issued + 1 /\ storage'.token = [of |-> a, n |-> issued']
  BY DEF Remembered, Keeps
<1>1. ~Keeps(storage, a) /\ \A t \in Tabs : ~Keeps(tab[t], a)
  BY DEF Remembered
<1>2. \A t \in Tabs : Stays(t) => ~Keeps(tab'[t], a)
  BY <1>1 DEF Stays, Keeps
<1>3. CASE Kept
  BY <1>1, <1>2, <1>3 DEF Kept
<1>4. CASE Emptied
  BY <1>1, <1>2, <1>4 DEF Emptied, Forgets, Nothing, Keeps
<1>5. CASE LoggedInAs
  <2>1. PICK t \in Tabs, k \in Tokens, p \in Provider :
          /\ p.of = k.of /\ k.n = issued + 1 /\ issued' = issued + 1
          /\ storage' = [token |-> k, provider |-> p]
          /\ tab'[t].token = k /\ tab'[t].provider = p
          /\ \A u \in Tabs \ {t} : Stays(u)
    BY <1>5 DEF LoggedInAs
  <2>2. k.of = a
    BY <1>2, <2>1 DEF Keeps
  <2>3. k = [of |-> a, n |-> issued + 1]
    BY <2>1, <2>2 DEF Tokens
  <2> QED BY <2>1, <2>3
<1>6. CASE Restored
  BY <1>1, <1>2, <1>6 DEF Restored, Keeps
<1>7. CASE Merged
  <2>1. PICK t \in Tabs, p \in Provider :
          /\ tab[t].provider # NoProfile /\ p.of = tab[t].provider.of
          /\ storage' = [storage EXCEPT !.provider = p]
          /\ tab'[t].token = tab[t].token /\ tab'[t].provider = p
          /\ \A u \in Tabs \ {t} : Stays(u)
    BY <1>7 DEF Merged
  <2>2. p.of # a
    BY <1>1, <2>1 DEF Keeps
  <2>3. ~Keeps(storage', a) /\ ~Keeps(tab'[t], a)
    <3>1. storage'.token = storage.token /\ storage'.provider = p
      BY <2>1 DEF TypeInv, TypeOK
    <3> QED BY <1>1, <2>1, <2>2, <3>1 DEF Keeps
  <2> QED BY <1>2, <2>1, <2>3
<1> QED BY <1>3, <1>4, <1>5, <1>6, <1>7 DEF Effect

\* LoggedOutStaysOut of Session, with any number of tabs: neither the token nor the
\* identity of an account that nobody is logged in with any more comes back, to
\* localStorage or to a tab, other than by a new login of that account; of a late answer
\* only data can come back, merged into the account that is shown (authStore.ts:46).
THEOREM LogoutsAreFinal == Spec => LoggedOutStaysOut
<1>1. TypeInv /\ [Next]_vars =>
        [\A a \in Remembered' \ Remembered :
           issued' = issued + 1 /\ storage'.token = [of |-> a, n |-> issued']]_vars
  BY NextEffect, EffectRemembers
<1> QED BY <1>1, InitTyped, NextTyped, PTL DEF Spec, LoggedOutStaysOut

\* NothingLeftAfterLogout of Session: while no session is shown, no answer puts back to
\* localStorage a part of what the logout removed (authStore.ts:48).
THEOREM LogoutsLeaveNothing == ASSUME OneTab PROVE Spec => []NothingLeftAfterLogout
<1>1. SafeInv => NothingLeftAfterLogout
  BY DEF SafeInv
<1>2. Init => SafeInv
  BY InitSafe
<1>3. SafeInv /\ [Next]_vars => SafeInv'
  BY NextSafe
<1> QED BY <1>1, <1>2, <1>3, PTL DEF Spec

=============================================================================
