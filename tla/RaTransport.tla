---------------------------- MODULE RaTransport ----------------------------
(***************************************************************************)
(* What the HTTP transport of the RetroAchievements client promises to     *)
(* rc_client: a request handed to client_server_call is answered once, by  *)
(* one call of its callback, and the answers come in the order in which    *)
(* the requests were made.  The only answers out of that order are those   *)
(* of the requests whose URL cannot be cracked: they are answered at once, *)
(* from inside client_server_call, with the status 0.                      *)
(***************************************************************************)
EXTENDS Naturals, Sequences

CONSTANTS MaxRequests,  \* bound on the requests of a behaviour
          Statuses      \* what a request can end with; 0 is "no HTTP answer"

VARIABLES made,         \* number of requests made; request n is the n-th of them
          outstanding,  \* requests accepted and not answered yet
          answered      \* history of the callbacks: <<[req, status, queued], ...>>

tvars == <<made, outstanding, answered>>

Reply(r, s, q) == [req |-> r, status |-> s, queued |-> q]

TInit == made = 0 /\ outstanding = {} /\ answered = << >>

\* The request is accepted: it waits for its answer.
Accept ==
  /\ made < MaxRequests
  /\ made' = made + 1
  /\ outstanding' = outstanding \cup {made + 1}
  /\ UNCHANGED answered

\* The URL cannot be cracked: the callback runs before the call returns.
Refuse ==
  /\ made < MaxRequests
  /\ made' = made + 1
  /\ answered' = Append(answered, Reply(made + 1, 0, FALSE))
  /\ UNCHANGED outstanding

\* The oldest request that waits is answered.
Answer ==
  \E r \in outstanding, s \in Statuses :
    /\ \A o \in outstanding : r <= o
    /\ outstanding' = outstanding \ {r}
    /\ answered' = Append(answered, Reply(r, s, TRUE))
    /\ UNCHANGED made

TNext == Accept \/ Refuse \/ Answer

TSpec == TInit /\ [][TNext]_tvars
=============================================================================
