---------------------- MODULE MCAuthorizationRequest ----------------------
(***************************************************************************)
(* Every request a client can try to build from bounded parameters: one    *)
(* initial state per input, one step per entry point.                      *)
(***************************************************************************)
EXTENDS AuthorizationRequest

CONSTANTS Callback,   \* a configured redirect URI
          Words,      \* the prompt words enumerated
          MaxValues,  \* bound: values in AuthParams.Prompt
          MaxWords    \* bound: words in one value

ASSUME MaxWordsAssumption == MaxValues \in Nat /\ MaxWords \in Nat

VARIABLES redirectURI, organizationID, params,
          entry,  \* the entry point called: "create", "switch" or neither yet
          answer

requestVars == <<redirectURI, organizationID, params, entry, answer>>

Random   == "r"
Pending == [err |-> "pending"]

Prompts == BoundedSeq(BoundedSeq(Words, MaxWords), MaxValues)

ParamSet == [prompt       : Prompts,
             scopes       : {{}, {"profile"}},
             organization : Organizations \cup {Empty},
             hint         : Organizations \cup {Empty}]

RequestInit == /\ redirectURI \in {Callback, Empty}
               /\ organizationID \in Organizations \cup {Empty}
               /\ params \in ParamSet
               /\ entry = "none"
               /\ answer = Pending

Create == /\ entry = "none"
          /\ entry' = "create"
          /\ answer' = CreateAuthorizationRequest(redirectURI, params, Random)
          /\ UNCHANGED <<redirectURI, organizationID, params>>

Switch == /\ entry = "none"
          /\ entry' = "switch"
          /\ answer' = SwitchOrganization(redirectURI, organizationID, params, Random)
          /\ UNCHANGED <<redirectURI, organizationID, params>>

RequestNext == Create \/ Switch
RequestSpec == RequestInit /\ [][RequestNext]_requestVars

Built == answer.err = "nil"

(* The words the caller passed, however they were spread over the values.  *)
WordsOf(prompt) == UNION {ToSet(prompt[i]) : i \in DOMAIN prompt}

(* auth.go 41-43, 210-212: a request that was built never asks for none    *)
(* together with anything else, even when the two words arrive inside one  *)
(* value, and it asks for exactly the words passed, each of them once.     *)
PromptIsExactlyWhatWasAsked ==
  Built =>
    /\ ToSet(answer.url.prompt) = WordsOf(params.prompt)
    /\ IsInjective(answer.url.prompt)
    /\ "none" \in WordsOf(params.prompt) => answer.url.prompt = <<"none">>

(* auth.go 185-187, 202-204, 232-234: a request built by                   *)
(* SwitchOrganization is for the organization switched to and carries no   *)
(* hint of another one; one built by CreateAuthorizationRequest has        *)
(* exactly the caller's binding and hint.  By either entry point, a bound  *)
(* request never also asks the person to choose or to create one, and the  *)
(* binding that is echoed for Authenticate is the one that was sent.       *)
BoundAsTheEntryPointSays ==
  Built =>
    /\ IF entry = "switch"
       THEN /\ answer.url.organization = organizationID
            /\ organizationID # Empty
            /\ answer.url.hint = Empty
       ELSE /\ answer.url.organization = params.organization
            /\ answer.url.hint = params.hint
    /\ answer.organization = answer.url.organization
    /\ answer.url.organization # Empty =>
         WordsOf(params.prompt) \cap {"select_organization", "create_organization"} = {}

(* auth.go 129-135, 202-204: nothing is refused but what the documentation *)
(* names.  A client with a redirect URI is refused only for a              *)
(* contradiction in the parameters or, on SwitchOrganization, for naming   *)
(* the organization anywhere but in its own argument; a hint next to a     *)
(* prompt, or a prompt word given twice, is no contradiction.              *)
RefusedOnlyForAContradiction ==
  answer = ErrConfiguration =>
    \/ redirectURI = Empty
    \/ "none" \in WordsOf(params.prompt) /\ WordsOf(params.prompt) # {"none"}
    \/ /\ WordsOf(params.prompt) \cap {"select_organization", "create_organization"} # {}
       /\ params.organization # Empty \/ entry = "switch"
    \/ /\ entry = "switch"
       /\ organizationID = Empty \/ params.organization # Empty \/ params.hint # Empty
=============================================================================
