--------------------------- MODULE FrontendConfig ---------------------------
(***************************************************************************)
(* FrontendClient (frontend.go): goroutines of one process share a client, *)
(* whose mutex guards a cached copy of the published sign-in configuration.*)
(* Config fetches the document with the mutex held and caches it only when *)
(* the fetch succeeds; Session asks who is signed in, without either.      *)
(*                                                                         *)
(* External: the operator who publishes documents, and the instance, which *)
(* answers a request with what is published at that moment, refuses it,    *)
(* answers something unusable, or is never reached (which is also how the  *)
(* end of the caller's own context and the client's timeout appear).       *)
(***************************************************************************)
EXTENDS Integers

CONSTANTS Callers,   \* goroutines calling Config and Session
          Documents, \* configurations an operator may publish
          Statuses,  \* HTTP statuses the instance may answer
          NoCaller, NoDocument, NoAnswer, NoResult

ASSUME StatusesAssumption == Statuses \subseteq Nat
ASSUME NoneAssumption ==
  /\ NoCaller \notin Callers
  /\ NoDocument \notin Documents

VARIABLES
  published, \* the document the instance serves
  mu,        \* the caller that holds FrontendClient.mu
  config,    \* FrontendClient.config
  pc,        \* per caller: where its call of Config or Session is
  answer,    \* per caller: the response to its request
  result     \* per caller: what its call returned

vars == <<published, mu, config, pc, answer, result>>

Errors == {"ErrTransport", "ErrUnauthorized", "ErrServer"}
Sessions == {"signed in", "signed out"}
Answer == [status : Statuses, body : Documents \cup Sessions \cup {NoDocument}]

ASSUME AnswersAssumption ==
  /\ Documents \cap (Errors \cup Sessions) = {}
  /\ NoAnswer \notin Answer
  /\ NoDocument \notin Sessions
  /\ NoResult \notin Documents \cup Sessions \cup Errors

TypeOK ==
  /\ published \in Documents
  /\ mu \in Callers \cup {NoCaller}
  /\ config \in Documents \cup {NoDocument}
  /\ pc \in [Callers -> {"idle", "locking", "requesting", "answered",
                        "asking", "returned"}]
  /\ answer \in [Callers -> Answer \cup {NoAnswer}]
  /\ result \in [Callers -> Documents \cup Sessions \cup Errors \cup {NoResult}]

Init ==
  /\ published \in Documents
  /\ mu = NoCaller
  /\ config = NoDocument
  /\ pc = [p \in Callers |-> "idle"]
  /\ answer = [p \in Callers |-> NoAnswer]
  /\ result = [p \in Callers |-> NoResult]

-----------------------------------------------------------------------------
Publish ==
  /\ published' \in Documents \ {published}
  /\ UNCHANGED <<mu, config, pc, answer, result>>

Config(p) ==
  /\ pc[p] = "idle"
  /\ pc' = [pc EXCEPT ![p] = "locking"]
  /\ UNCHANGED <<published, mu, config, answer, result>>

Lock(p) == pc[p] = "locking" /\ mu = NoCaller

(* Mutations.                                                              *)
MissWithoutLooking(p) ==
  /\ Lock(p)
  /\ mu' = p
  /\ pc' = [pc EXCEPT ![p] = "requesting"]
  /\ UNCHANGED <<published, config, answer, result>>
MissUnlocked(p) ==
  /\ Lock(p)
  /\ config = NoDocument
  /\ pc' = [pc EXCEPT ![p] = "requesting"]
  /\ UNCHANGED <<published, mu, config, answer, result>>

(* Returns the cached document; the mutex is released before anyone sees   *)
(* it taken.                                                               *)
Hit(p) ==
  /\ Lock(p)
  /\ config # NoDocument
  /\ pc' = [pc EXCEPT ![p] = "returned"]
  /\ result' = [result EXCEPT ![p] = config]
  /\ UNCHANGED <<published, mu, config, answer>>

Miss(p) ==
  /\ Lock(p)
  /\ config = NoDocument
  /\ mu' = p
  /\ pc' = [pc EXCEPT ![p] = "requesting"]
  /\ UNCHANGED <<published, config, answer, result>>

Respond(p) ==
  /\ pc[p] = "requesting"
  /\ \E status \in Statuses, body \in {published, NoDocument} :
       answer' = [answer EXCEPT ![p] = [status |-> status, body |-> body]]
  /\ pc' = [pc EXCEPT ![p] = "answered"]
  /\ UNCHANGED <<published, mu, config, result>>

-----------------------------------------------------------------------------
(* What get makes of a response, in the order it looks.                    *)

Outcome(response) ==
  CASE response.status \in {401, 403} -> "ErrUnauthorized"
    [] response.status \notin {401, 403} /\ response.status \notin 200..299 -> "ErrServer"
    [] response.status \in 200..299 /\ response.body = NoDocument -> "ErrServer"
    [] OTHER -> response.body

(* Mutations.                                                              *)
ReturnCachingFailures(p, outcome) ==
  /\ config' = outcome
  /\ mu' = NoCaller
  /\ pc' = [pc EXCEPT ![p] = "returned"]
  /\ result' = [result EXCEPT ![p] = outcome]
ReturnLockedOnFailure(p, outcome) ==
  /\ config' = IF outcome \in Documents THEN outcome ELSE config
  /\ mu' = IF outcome \in Documents THEN NoCaller ELSE mu
  /\ pc' = [pc EXCEPT ![p] = "returned"]
  /\ result' = [result EXCEPT ![p] = outcome]

(* A fetch ends: cached only on success, and the mutex released either way.*)
Return(p, outcome) ==
  /\ config' = IF outcome \in Documents THEN outcome ELSE config
  /\ mu' = NoCaller
  /\ pc' = [pc EXCEPT ![p] = "returned"]
  /\ result' = [result EXCEPT ![p] = outcome]

Receive(p) ==
  /\ pc[p] = "answered"
  /\ Return(p, Outcome(answer[p]))
  /\ UNCHANGED <<published, answer>>

Unreachable(p) ==
  /\ pc[p] = "requesting"
  /\ Return(p, "ErrTransport")
  /\ UNCHANGED <<published, answer>>

(* Without a token nobody is signed in, and nobody is asked.               *)
Session(p) ==
  /\ pc[p] = "idle"
  /\ \/ /\ pc' = [pc EXCEPT ![p] = "returned"]
        /\ result' = [result EXCEPT ![p] = "signed out"]
     \/ pc' = [pc EXCEPT ![p] = "asking"] /\ UNCHANGED result
  /\ UNCHANGED <<published, mu, config, answer>>

(* Session shares nothing: its answer is had and returned in one step.     *)
SessionReceive(p) ==
  /\ pc[p] = "asking"
  /\ \E status \in Statuses, body \in Sessions \cup {NoDocument} :
       /\ answer' = [answer EXCEPT ![p] = [status |-> status, body |-> body]]
       /\ result' = [result EXCEPT ![p] = Outcome([status |-> status, body |-> body])]
  /\ pc' = [pc EXCEPT ![p] = "returned"]
  /\ UNCHANGED <<published, mu, config>>

SessionUnreachable(p) ==
  /\ pc[p] = "asking"
  /\ pc' = [pc EXCEPT ![p] = "returned"]
  /\ result' = [result EXCEPT ![p] = "ErrTransport"]
  /\ UNCHANGED <<published, mu, config, answer>>

(* The caller takes what its call returned and may call again.             *)
Resume(p) ==
  /\ pc[p] = "returned"
  /\ pc' = [pc EXCEPT ![p] = "idle"]
  /\ answer' = [answer EXCEPT ![p] = NoAnswer]
  /\ result' = [result EXCEPT ![p] = NoResult]
  /\ UNCHANGED <<published, mu, config>>

Next ==
  \/ Publish
  \/ \E p \in Callers : \/ Config(p)
                        \/ Hit(p)
                        \/ Miss(p)
                        \/ Respond(p)
                        \/ Receive(p)
                        \/ Unreachable(p)
                        \/ Session(p)
                        \/ SessionReceive(p)
                        \/ SessionUnreachable(p)
                        \/ Resume(p)

(* A goroutine waiting for a sync.Mutex is never overtaken for ever (the   *)
(* mutex hands itself over to a starving waiter), and the default client's *)
(* timeout of 10 seconds ends every request.                               *)
Fairness ==
  \A p \in Callers : /\ SF_vars(Hit(p) \/ Miss(p))
                     /\ WF_vars(Respond(p) \/ Unreachable(p))
                     /\ WF_vars(Receive(p))
                     /\ WF_vars(SessionReceive(p) \/ SessionUnreachable(p))

Spec == Init /\ [][Next]_vars /\ Fairness

-----------------------------------------------------------------------------
Fetching(p) == pc[p] \in {"requesting", "answered"}

(* frontend.go 119-132: the document is asked for by one caller at a time, *)
(* and by nobody once it is there.                                         *)
OneFetchAtATime ==
  /\ \A p, q \in Callers : Fetching(p) /\ Fetching(q) => p = q
  /\ config # NoDocument => \A p \in Callers : ~ Fetching(p)

(* frontend.go 109-117: whatever is published meanwhile, all the calls of  *)
(* a client that succeed return one document.                              *)
OneDocument ==
  \A p \in Callers : result[p] \in Documents => result[p] = config

(* frontend.go 109-113, 139-140: a failure is the caller's own.  An error  *)
(* is only ever returned by a call that made a request itself, to which the*)
(* instance gave no usable answer; no call inherits the failure, or the    *)
(* cancelled context, of another, nor waits behind one to ask for a session*)
(* and fails with it.                                                      *)
FailureIsOwn ==
  [][\A p \in Callers : result'[p] \in Errors /\ result[p] \notin Errors =>
       /\ Fetching(p) \/ pc[p] = "asking"
       /\ answer'[p] = NoAnswer \/ Outcome(answer'[p]) \in Errors]_vars

(* frontend.go 115-117: a client never changes its mind: the document it   *)
(* cached is there for its lifetime.                                       *)
ConfigIsForLife == [][config # NoDocument => config' = config]_vars

(* frontend.go 119-120: every call returns, although one of Config waits   *)
(* for a mutex held across another caller's request.                       *)
EveryCallReturns ==
  \A p \in Callers : pc[p] \in {"locking", "asking"} ~> pc[p] = "returned"

-----------------------------------------------------------------------------
(* The inductive invariant: the mutex is held exactly during a fetch, there*)
(* is none once a document is cached, and a call has no answer before it   *)
(* made its request.                                                       *)
MutexOK == \A p \in Callers : Fetching(p) <=> mu = p

NoFetchOnceCached == config # NoDocument => mu = NoCaller

AnswersOK ==
  \A p \in Callers :
    /\ pc[p] \in {"idle", "locking", "requesting", "asking"} => answer[p] = NoAnswer
    /\ pc[p] = "answered" => answer[p] # NoAnswer /\ answer[p].body \notin Sessions

ResultsOK == \A p \in Callers : pc[p] # "returned" => result[p] = NoResult

Inv ==
  /\ TypeOK
  /\ MutexOK
  /\ NoFetchOnceCached
  /\ AnswersOK
  /\ ResultsOK
  /\ OneDocument
=============================================================================
