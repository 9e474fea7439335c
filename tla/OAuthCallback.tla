---------------------------- MODULE OAuthCallback ----------------------------
(***************************************************************************)
(* createOAuthCallbackServer: the browser is sent back with a code or an   *)
(* error, the connection that was pending for its state is looked up, the  *)
(* code is exchanged and the connection moved on by the hub's transition.  *)
(* Requests are handled next to each other.  The connections are the       *)
(* embedder's: it looks them up, stores what onConnected and onError bring *)
(* it, starts an authorization and revokes.  Texts and tokens are left out.*)
(***************************************************************************)
EXTENDS Naturals, Sequences, FiniteSets

CONSTANTS
  Connections, \* each with a state parameter of its own
  MaxCallbacks \* bound: requests of browsers

VARIABLES
  stored,     \* the embedder's connections
  callbacks,  \* the requests, with the connection as each of them found it
  overlapped  \* history: connections requested or moved while a request was handled

oauthVars == <<stored, callbacks, overlapped>>

OAuthStates == {"pending", "authorizing", "connected", "errored", "revoked"}

ALLOWED ==
  {<<"pending", "authorizing">>, <<"authorizing", "connected">>, <<"authorizing", "errored">>,
   <<"connected", "revoked">>, <<"connected", "errored">>, <<"errored", "authorizing">>,
   <<"errored", "revoked">>}

isTransitionAllowed(from, to) == <<from, to>> \in ALLOWED

OAuthInit ==
  /\ stored = [c \in Connections |-> "pending"]
  /\ callbacks = <<>>
  /\ overlapped = {}

-----------------------------------------------------------------------------
InFlight(c) == {i \in DOMAIN callbacks : callbacks[i].of = c /\ callbacks[i].phase # "replied"}

(* the embedder *)

\* what it does with a connection of its own goes through the hub
EmbedderMoves(c, to) ==
  /\ to \in {"authorizing", "revoked"}
  /\ isTransitionAllowed(stored[c], to)
  /\ stored' = [stored EXCEPT ![c] = to]
  /\ overlapped' = IF InFlight(c) = {} THEN overlapped ELSE overlapped \cup {c}
  /\ UNCHANGED callbacks

-----------------------------------------------------------------------------
(* requests *)

Reply(i, status) == [callbacks[i] EXCEPT !.phase = "replied", !.status = status]

\* a request for connection c, which the embedder may know of or not any more
Callback(c, brings) ==
  /\ Len(callbacks) < MaxCallbacks
  /\ \E phase \in {"unknown", "found"} :
       callbacks' = Append(callbacks,
         [of |-> c, brings |-> brings, pending |-> stored[c], phase |-> phase, status |-> 0])
  /\ overlapped' = IF InFlight(c) = {} THEN overlapped ELSE overlapped \cup {c}
  /\ UNCHANGED stored

UnknownState(i) ==
  /\ callbacks[i].phase = "unknown"
  /\ callbacks' = [callbacks EXCEPT ![i] = Reply(i, 400)]
  /\ UNCHANGED <<stored, overlapped>>

\* transition to errored: if that is allowed, onError is awaited, which stores it; if it
\* is not, the handler rejects
Errored(i, status) ==
  LET req == callbacks[i]
  IN IF isTransitionAllowed(req.pending, "errored")
     THEN /\ stored' = [stored EXCEPT ![req.of] = "errored"]
          /\ callbacks' = [callbacks EXCEPT ![i] = Reply(i, status)]
     ELSE callbacks' = [callbacks EXCEPT ![i] = Reply(i, 500)] /\ UNCHANGED stored

\* the provider reports an error, or there is no code
Refused(i) ==
  /\ callbacks[i].phase = "found"
  /\ callbacks[i].brings # "code"
  /\ Errored(i, 400)
  /\ UNCHANGED overlapped

\* Mutant of Exchanged: the connection is set to connected without a transition.
ExchangedAnyway(i) ==
  /\ callbacks[i].phase = "found"
  /\ callbacks[i].brings = "code"
  /\ stored' = [stored EXCEPT ![callbacks[i].of] = "connected"]
  /\ callbacks' = [callbacks EXCEPT ![i] = Reply(i, 200)]
  /\ UNCHANGED overlapped

\* the token is there: the connection as it was found is moved, and onConnected awaited,
\* which may fail after or before it has stored the connection
Exchanged(i) ==
  /\ callbacks[i].phase = "found"
  /\ callbacks[i].brings = "code"
  /\ isTransitionAllowed(callbacks[i].pending, "connected")
  /\ \/ /\ stored' = [stored EXCEPT ![callbacks[i].of] = "connected"]
        /\ \E failed \in BOOLEAN :
             callbacks' = [callbacks EXCEPT ![i] =
                             IF failed THEN [@ EXCEPT !.phase = "failed"] ELSE Reply(i, 200)]
     \/ callbacks' = [callbacks EXCEPT ![i].phase = "failed"] /\ UNCHANGED stored
  /\ UNCHANGED overlapped

\* the exchange failed, the transition was not allowed, or onConnected failed
CallbackFails(i) ==
  /\ \/ callbacks[i].phase = "failed"
     \/ callbacks[i].phase = "found" /\ callbacks[i].brings = "code"
  /\ Errored(i, 502)
  /\ UNCHANGED overlapped

OAuthNext ==
  \/ \E c \in Connections, to \in OAuthStates : EmbedderMoves(c, to)
  \/ \E c \in Connections, brings \in {"code", "error", "nothing"} : Callback(c, brings)
  \/ \E i \in DOMAIN callbacks : UnknownState(i) \/ Refused(i) \/ Exchanged(i) \/ CallbackFails(i)

OAuthSpec == OAuthInit /\ [][OAuthNext]_oauthVars

-----------------------------------------------------------------------------
OAuthTypeOK ==
  /\ stored \in [Connections -> OAuthStates]
  /\ callbacks \in Seq([of : Connections, brings : {"code", "error", "nothing"},
                        pending : OAuthStates, phase : {"unknown", "found", "failed", "replied"},
                        status : {0, 200, 400, 500, 502}])
  /\ overlapped \subseteq Connections

\* Replayed, failed or late as a callback may be, the connection the embedder has only
\* moves as the hub allows, unless its requests overlapped or it was moved meanwhile.
MovesAreLegal ==
  [][\A c \in Connections :
       \/ stored'[c] = stored[c]
       \/ <<stored[c], stored'[c]>> \in ALLOWED
       \/ c \in overlapped']_oauthVars
=============================================================================
