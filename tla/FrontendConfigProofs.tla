------------------------ MODULE FrontendConfigProofs ------------------------
(***************************************************************************)
(* Theorems about FrontendConfig for every set of callers and documents.   *)
(***************************************************************************)
EXTENDS FrontendConfig, TLAPS

LEMMA OutcomeType ==
  ASSUME NEW response \in Answer
  PROVE  /\ Outcome(response) \in Documents \cup Sessions \cup Errors
         /\ response.body \notin Sessions => Outcome(response) \in Documents \cup Errors
         /\ response.body \notin Documents => Outcome(response) \notin Documents
  BY StatusesAssumption, AnswersAssumption DEF Answer, Outcome, Errors

LEMMA InitInv == Init => Inv
  BY NoneAssumption, AnswersAssumption
     DEF Init, Inv, TypeOK, MutexOK, NoFetchOnceCached, AnswersOK, ResultsOK, OneDocument, Fetching

(***************************************************************************)
(* The end of a fetch, whatever came of it (frontend.go 119-134): it is    *)
(* the only step that touches the cache, and it releases the mutex.        *)
(***************************************************************************)
LEMMA ReturnInv ==
  ASSUME Inv, NEW p \in Callers, NEW outcome \in Documents \cup Errors,
         Fetching(p), Return(p, outcome), UNCHANGED <<published, answer>>
  PROVE  Inv'
<1>1. /\ mu = p /\ mu' = NoCaller /\ config = NoDocument
      /\ config' = IF outcome \in Documents THEN outcome ELSE config
      /\ pc' = [pc EXCEPT ![p] = "returned"]
      /\ result' = [result EXCEPT ![p] = outcome]
  BY NoneAssumption DEF Inv, MutexOK, NoFetchOnceCached, Return
<1>2. TypeOK'
  BY <1>1 DEF Inv, TypeOK
<1>3. MutexOK'
  BY <1>1, NoneAssumption DEF Inv, TypeOK, MutexOK, Fetching
<1>4. NoFetchOnceCached'
  BY <1>1 DEF NoFetchOnceCached
<1>5. AnswersOK' /\ ResultsOK'
  BY <1>1 DEF Inv, TypeOK, AnswersOK, ResultsOK
<1>6. OneDocument'
  <2> SUFFICES ASSUME NEW q \in Callers, result'[q] \in Documents
               PROVE  result'[q] = config'
    BY DEF OneDocument
  <2>1. CASE q = p
    BY <1>1, <2>1 DEF Inv, TypeOK
  <2>2. CASE q # p
    <3>1. result'[q] = result[q]
      BY <1>1, <2>2 DEF Inv, TypeOK
    <3>2. result[q] = NoDocument
      BY <1>1, <3>1 DEF Inv, OneDocument
    <3> QED
      BY <3>1, <3>2, NoneAssumption
  <2> QED
    BY <2>1, <2>2
<1> QED
  BY <1>2, <1>3, <1>4, <1>5, <1>6 DEF Inv

LEMMA StepInv ==
  ASSUME Inv, [Next]_vars
  PROVE  Inv'
<1> USE NoneAssumption, AnswersAssumption
<1>1. CASE Publish
  BY <1>1 DEF Publish, Inv, TypeOK, MutexOK, NoFetchOnceCached, AnswersOK, ResultsOK,
              OneDocument, Fetching
<1>2. ASSUME NEW p \in Callers, Config(p) PROVE Inv'
  BY <1>2 DEF Config, Inv, TypeOK, MutexOK, NoFetchOnceCached, AnswersOK, ResultsOK,
              OneDocument, Fetching
<1>3. ASSUME NEW p \in Callers, Hit(p) PROVE Inv'
  BY <1>3 DEF Hit, Lock, Inv, TypeOK, MutexOK, NoFetchOnceCached, AnswersOK, ResultsOK,
              OneDocument, Fetching
<1>4. ASSUME NEW p \in Callers, Miss(p) PROVE Inv'
  BY <1>4 DEF Miss, Lock, Inv, TypeOK, MutexOK, NoFetchOnceCached, AnswersOK, ResultsOK,
              OneDocument, Fetching
<1>5. ASSUME NEW p \in Callers, Respond(p) PROVE Inv'
  <2>1. PICK status \in Statuses, body \in {published, NoDocument} :
          answer' = [answer EXCEPT ![p] = [status |-> status, body |-> body]]
    BY <1>5 DEF Respond
  <2>2. [status |-> status, body |-> body] \in Answer
    BY DEF Inv, TypeOK, Answer
  <2>3. /\ pc[p] = "requesting" /\ pc' = [pc EXCEPT ![p] = "answered"]
        /\ UNCHANGED <<published, mu, config, result>>
    BY <1>5 DEF Respond
  <2>4. TypeOK'
    BY <2>1, <2>2, <2>3 DEF Inv, TypeOK
  <2>5. [status |-> status, body |-> body] # NoAnswer
    BY <2>2, AnswersAssumption
  <2> QED
    BY <2>1, <2>3, <2>4, <2>5 DEF Inv, TypeOK, MutexOK, NoFetchOnceCached, AnswersOK, ResultsOK,
                            OneDocument, Fetching
<1>6. ASSUME NEW p \in Callers, Receive(p) PROVE Inv'
  <2>1. answer[p] \in Answer
    BY <1>6 DEF Receive, Inv, TypeOK, AnswersOK
  <2>2. Outcome(answer[p]) \in Documents \cup Errors
    BY <1>6, <2>1, OutcomeType DEF Receive, Inv, AnswersOK
  <2> QED
    BY <1>6, <2>2, ReturnInv DEF Receive, Fetching
<1>7. ASSUME NEW p \in Callers, Unreachable(p) PROVE Inv'
  BY <1>7, ReturnInv DEF Unreachable, Fetching, Errors
<1>8. ASSUME NEW p \in Callers, Resume(p) PROVE Inv'
  BY <1>8 DEF Resume, Inv, TypeOK, MutexOK, NoFetchOnceCached, AnswersOK, ResultsOK,
              OneDocument, Fetching
<1>9. ASSUME NEW p \in Callers, Session(p) PROVE Inv'
  <2>1. "signed out" \in Sessions /\ "signed out" \notin Documents
    BY DEF Sessions
  <2> QED
    BY <1>9, <2>1 DEF Session, Inv, TypeOK, MutexOK, NoFetchOnceCached, AnswersOK, ResultsOK,
                OneDocument, Fetching
<1>10. ASSUME NEW p \in Callers, SessionReceive(p) PROVE Inv'
  <2>1. PICK status \in Statuses, body \in Sessions \cup {NoDocument} :
          /\ answer' = [answer EXCEPT ![p] = [status |-> status, body |-> body]]
          /\ result' = [result EXCEPT ![p] = Outcome([status |-> status, body |-> body])]
    BY <1>10 DEF SessionReceive
  <2> DEFINE response == [status |-> status, body |-> body]
  <2>2. response \in Answer /\ response.body \notin Documents
    BY DEF Answer
  <2> HIDE DEF response
  <2>3. /\ Outcome(response) \in Sessions \cup Errors
        /\ Outcome(response) \notin Documents
    BY <2>2, OutcomeType
  <2>4. /\ answer' = [answer EXCEPT ![p] = response]
        /\ result' = [result EXCEPT ![p] = Outcome(response)]
        /\ pc[p] = "asking" /\ pc' = [pc EXCEPT ![p] = "returned"]
        /\ UNCHANGED <<published, mu, config>>
    BY <1>10, <2>1 DEF SessionReceive, response
  <2>5. TypeOK'
    BY <2>2, <2>3, <2>4 DEF Inv, TypeOK
  <2>6. MutexOK' /\ NoFetchOnceCached'
    BY <2>4 DEF Inv, TypeOK, MutexOK, NoFetchOnceCached, Fetching
  <2>7. AnswersOK' /\ ResultsOK' /\ OneDocument'
    BY <2>3, <2>4 DEF Inv, TypeOK, AnswersOK, ResultsOK, OneDocument
  <2> QED
    BY <2>5, <2>6, <2>7 DEF Inv
<1>11. ASSUME NEW p \in Callers, SessionUnreachable(p) PROVE Inv'
  <2>1. "ErrTransport" \in Errors /\ "ErrTransport" \notin Documents
    BY DEF Errors
  <2> QED
    BY <1>11, <2>1 DEF SessionUnreachable, Inv, TypeOK, MutexOK, NoFetchOnceCached, AnswersOK,
                 ResultsOK, OneDocument, Fetching
<1>12. CASE UNCHANGED vars
  BY <1>12 DEF vars, Inv, TypeOK, MutexOK, NoFetchOnceCached, AnswersOK, ResultsOK,
              OneDocument, Fetching
<1> QED
  BY <1>1, <1>2, <1>3, <1>4, <1>5, <1>6, <1>7, <1>8, <1>9, <1>10, <1>11, <1>12 DEF Next

(***************************************************************************)
(* The inductive invariant holds in every reachable state.                 *)
(***************************************************************************)
THEOREM Invariance == Spec => []Inv
<1>1. Init => Inv
  BY InitInv
<1>2. Inv /\ [Next]_vars => Inv'
  BY StepInv
<1> QED
  BY <1>1, <1>2, PTL DEF Spec

(***************************************************************************)
(* Every variable keeps its type: nothing but a document is ever cached.   *)
(***************************************************************************)
THEOREM TypeCorrectness == Spec => []TypeOK
<1>1. Inv => TypeOK
  BY DEF Inv
<1> QED
  BY <1>1, Invariance, PTL

(***************************************************************************)
(* One caller at a time asks for the document, nobody once it is cached.   *)
(***************************************************************************)
THEOREM FetchesAreSerial == Spec => []OneFetchAtATime
<1>1. Inv => OneFetchAtATime
  BY NoneAssumption DEF Inv, MutexOK, NoFetchOnceCached, OneFetchAtATime
<1> QED
  BY <1>1, Invariance, PTL

(***************************************************************************)
(* All the calls that succeed return one document.                         *)
(***************************************************************************)
THEOREM DocumentsAgree == Spec => []OneDocument
<1>1. Inv => OneDocument
  BY DEF Inv
<1> QED
  BY <1>1, Invariance, PTL

(***************************************************************************)
(* The cached document is there for the lifetime of the client.            *)
(***************************************************************************)
THEOREM ConfigLasts == Spec => ConfigIsForLife
<1>1. Inv /\ [Next]_vars => [config # NoDocument => config' = config]_vars
  <2> SUFFICES ASSUME Inv, Next, config # NoDocument PROVE config' = config
    BY DEF vars
  <2>1. ASSUME NEW p \in Callers PROVE ~ Fetching(p)
    BY NoneAssumption DEF Inv, MutexOK, NoFetchOnceCached
  <2>2. ASSUME NEW p \in Callers PROVE ~ Receive(p) /\ ~ Unreachable(p)
    BY <2>1 DEF Receive, Unreachable, Fetching
  <2> QED
    BY <2>2 DEF Next, Publish, Config, Hit, Miss, Respond, Resume,
                Session, SessionReceive, SessionUnreachable
<1> QED
  BY <1>1, Invariance, PTL DEF Spec, ConfigIsForLife

(***************************************************************************)
(* A failure is never inherited: who gets an error made a request itself.  *)
(***************************************************************************)
THEOREM FailuresAreOwn == Spec => FailureIsOwn
<1> DEFINE Own(p) == result'[p] \in Errors /\ result[p] \notin Errors =>
                       /\ Fetching(p) \/ pc[p] = "asking"
                       /\ answer'[p] = NoAnswer \/ Outcome(answer'[p]) \in Errors
<1>1. Inv /\ [Next]_vars => [\A p \in Callers : Own(p)]_vars
  <2> SUFFICES ASSUME Inv, Next, NEW p \in Callers PROVE Own(p)
    BY DEF vars
  <2>1. CASE UNCHANGED result
    BY <2>1
  <2>2. ASSUME NEW q \in Callers, Hit(q) PROVE Own(p)
    BY <2>2, AnswersAssumption DEF Hit, Lock, Inv, TypeOK
  <2>3. ASSUME NEW q \in Callers, Receive(q) PROVE Own(p)
    BY <2>3 DEF Receive, Return, Fetching, Inv, TypeOK
  <2>4. ASSUME NEW q \in Callers, Unreachable(q) PROVE Own(p)
    BY <2>4 DEF Unreachable, Return, Fetching, Inv, TypeOK, AnswersOK
  <2>5. ASSUME NEW q \in Callers, Resume(q) PROVE Own(p)
    BY <2>5, AnswersAssumption DEF Resume, Inv, TypeOK
  <2>6. ASSUME NEW q \in Callers, Session(q) PROVE Own(p)
    <3>1. "signed out" \notin Errors
      BY DEF Errors
    <3> QED
      BY <2>6, <3>1 DEF Session, Inv, TypeOK
  <2>7. ASSUME NEW q \in Callers, SessionReceive(q) PROVE Own(p)
    BY <2>7 DEF SessionReceive, Inv, TypeOK
  <2>8. ASSUME NEW q \in Callers, SessionUnreachable(q) PROVE Own(p)
    BY <2>8 DEF SessionUnreachable, Inv, TypeOK, AnswersOK
  <2> QED
    BY <2>1, <2>2, <2>3, <2>4, <2>5, <2>6, <2>7, <2>8 DEF Next, Publish, Config, Miss, Respond
<1> QED
  BY <1>1, Invariance, PTL DEF Spec, FailureIsOwn
=============================================================================
