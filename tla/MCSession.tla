----------------------------- MODULE MCSession -----------------------------
(* Instances of Session for TLC, and a claim of the documentation that the  *)
(* program does not keep.                                                   *)
EXTENDS Session, TLC

CONSTANTS a, b, t1, t2, s1, s2, s3

Symmetry == Permutations(Accounts) \cup Permutations(Slots) \cup Permutations(Tabs)

\* docs/03-design/00-mapa-navegacion.md:231-232: when the backend answers 401, the store
\* is emptied and the login form is shown.
RejectedSessionsReachTheForm ==
  \A t \in Tabs :
    (isAuthenticated(tab[t]) /\ storage.token = NoToken) ~> (tab[t].page = "login")

\* Not so: what is shown of an account are its own data.  The answer to a save of the
\* account before may come after the login (authStore.ts:49).
ProfileIsOwn ==
  \A t \in Tabs : tab[t].provider # NoProfile => tab[t].provider.data = tab[t].provider.of

\* Not so: a session that the server accepts stays in localStorage while it is shown.  The
\* 401 for a request of the session before may come after the login (client.ts:29).
ValidSessionsAreStored ==
  \A t \in Tabs : isAuthenticated(tab[t]) /\ tab[t].token \in valid
                    => storage.token = tab[t].token
=============================================================================
