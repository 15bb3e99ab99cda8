------------------------------ MODULE SignOut ------------------------------
(***************************************************************************)
(* Ending the session of RefreshRotation from inside the application, and  *)
(* asking about it: Revoke and Introspect (backchannel.go), called by one  *)
(* more goroutine while others refresh, on a client that New has built     *)
(* (cboxid.go).  The application takes the session for over when Revoke    *)
(* returns nil, and on an error keeps what it has and may call again.      *)
(***************************************************************************)
EXTENDS RefreshRotation

VARIABLES
  client,     \* what New returned; it never changes
  backChannel \* the call of Revoke or Introspect

signOutVars == <<current, family, styleKnown, held, calls, mishaps, client, backChannel>>

-----------------------------------------------------------------------------
(* Building a client.                                                      *)

Endpoints == {"introspection_endpoint", "revocation_endpoint"}

Configs == [issuer       : {Empty, "https", "http", "http on loopback", "unparsable"},
            clientID     : BOOLEAN,
            clientSecret : BOOLEAN]

(* The discovery document: the optional endpoints it advertises.           *)
NoDocument == {"unreadable"}
Documents  == (SUBSET Endpoints) \cup {NoDocument}

NoClient(err) == [err |-> err, clientSecret |-> FALSE, endpoints |-> {}]

assertSecureIssuer(issuer) == issuer \in {"https", "http on loopback"}

New(config, document) ==
  IF ~ config.clientID \/ ~ assertSecureIssuer(config.issuer)
  THEN NoClient("ErrConfiguration")
  ELSE IF document = NoDocument
  THEN NoClient("ErrAuthentication")
  ELSE [err |-> "nil", clientSecret |-> config.clientSecret, endpoints |-> document]

NewDeviceClient(config, document) == New([config EXCEPT !.clientSecret = FALSE], document)

Clients ==
  UNION {{New(config, document), NewDeviceClient(config, document)} :
           config \in Configs, document \in Documents}

-----------------------------------------------------------------------------
(* What the calls return.                                                  *)

(* An answer with a success status: of the revocation endpoint, or of the  *)
(* introspection endpoint with what it says of the token, or unreadable.   *)
Success           == [kind |-> "success", status |-> 200]
Verdict(active)   == [kind |-> "verdict", status |-> 200, active |-> active]
Unreadable        == [kind |-> "unreadable", status |-> 200]

(* Mutations: an answer is a success whatever its status; the body of an   *)
(* error is read for the verdict it does not hold.                         *)
RevocationOutcomeUnlessLost(answer) ==
  IF answer.kind = "none" THEN "ErrAuthentication" ELSE "nil"
IntrospectionOutcomeOfAnyBody(answer) ==
  IF answer.kind \in {"none", "unreadable"} THEN "ErrAuthentication" ELSE "nil"

RevocationOutcome(answer) ==
  IF answer.kind = "none" \/ answer.status >= 400 THEN "ErrAuthentication" ELSE "nil"

IntrospectionOutcome(answer) ==
  IF answer.kind \in {"none", "unreadable"} \/ answer.status >= 400
  THEN "ErrAuthentication"
  ELSE "nil"

-----------------------------------------------------------------------------
(* The calls, of the token held when they begin.                           *)

NoCall == [pc |-> "none", op |-> "none", token |-> Empty, err |-> "none", active |-> FALSE]

SignOutInit ==
  /\ Init
  /\ client \in {c \in Clients : c.err = "nil"}
  /\ backChannel = NoCall

Begin(op, allowed) ==
  /\ backChannel.pc = "none" /\ held # Empty
  /\ backChannel' = [NoCall EXCEPT !.pc    = IF allowed THEN "requesting" ELSE "returned",
                            !.op    = op,
                            !.token = held,
                            !.err   = IF allowed THEN "none" ELSE "ErrConfiguration"]
  /\ UNCHANGED <<vars, client>>

(* A public client may revoke, only a confidential one introspect.         *)
Revoke == Begin("revoke", "revocation_endpoint" \in client.endpoints)
Introspect ==
  Begin("introspect", client.clientSecret /\ "introspection_endpoint" \in client.endpoints)

Requested(op) == backChannel.pc = "requesting" /\ backChannel.op = op

ReturnCall(err, active) ==
  backChannel' = [backChannel EXCEPT !.pc = "returned", !.err = err, !.active = active]

(* External: revoking any token of a family ends all of it; one that has   *)
(* ended is answered alike.                                                *)
Revoked ==
  /\ Requested("revoke")
  /\ family' = IF family = "live" THEN "revoked" ELSE family
  /\ \E answer \in Broken \cup {Success} : ReturnCall(RevocationOutcome(answer), FALSE)
  /\ UNCHANGED <<current, styleKnown, held, calls, mishaps, client>>

NotRevoked ==
  /\ Requested("revoke")
  /\ \E answer \in Broken \cup Declined : ReturnCall(RevocationOutcome(answer), FALSE)
  /\ UNCHANGED <<vars, client>>

(* A refresh token is active while its family lives and it is not rotated. *)
Active(token) == family = "live" /\ token = current

Introspected ==
  /\ Requested("introspect")
  /\ \E answer \in Broken \cup Declined \cup {Verdict(Active(backChannel.token)), Unreadable} :
       ReturnCall(IntrospectionOutcome(answer), answer.kind = "verdict" /\ answer.active)
  /\ UNCHANGED <<vars, client>>

(* External: the application acts on the result.                           *)
AppSignsOut ==
  /\ backChannel.pc = "returned"
  /\ held' = IF backChannel.op = "revoke" /\ backChannel.err = "nil" THEN Empty ELSE held
  /\ backChannel' = NoCall
  /\ UNCHANGED <<current, family, styleKnown, calls, mishaps, client>>

SignOutNext ==
  \/ (CallerNext \/ EndedElsewhere) /\ UNCHANGED <<client, backChannel>>
  \/ Revoke \/ Revoked \/ NotRevoked
  \/ Introspect \/ Introspected
  \/ AppSignsOut

(* The fairness of RefreshRotation; nothing need ever revoke or ask.       *)
SignOutSpec == SignOutInit /\ [][SignOutNext]_signOutVars /\ Fairness

-----------------------------------------------------------------------------
(* Properties.                                                             *)

(* backchannel.go 59-60, 85-95: a token that Introspect reports inactive   *)
(* without an error is over, whatever refreshes overlap with the call: an  *)
(* outage, a wrong secret and an unreadable answer are never taken for     *)
(* that verdict.                                                           *)
InactiveMeansOver ==
  /\ backChannel.op = "introspect"
  /\ backChannel.err = "nil" /\ ~ backChannel.active
  => ~ Active(backChannel.token)

BackChannelType ==
  [pc     : {"none", "requesting", "returned"},
   op     : {"none", "revoke", "introspect"},
   token  : Tokens \cup {Empty},
   err    : {"none", "nil", "ErrConfiguration", "ErrAuthentication"},
   active : BOOLEAN]

(* Why the application may believe a sign-out: behind a nil there is an    *)
(* end.                                                                    *)
SignOutInv ==
  /\ Inv
  /\ client \in Clients /\ client.err = "nil"
  /\ backChannel \in BackChannelType
  /\ backChannel.token # Empty => backChannel.token <= current
  /\ backChannel.pc # "none" => backChannel.token # Empty
  /\ backChannel.err = "nil" => backChannel.pc = "returned"
  /\ backChannel.op = "revoke" /\ backChannel.err = "nil" => family # "live"
  /\ InactiveMeansOver

(* The sessions of an application that signs out are sessions of           *)
(* RefreshRotation: what holds of every one of those holds of these.       *)
IsRefreshRotation == Init /\ [][Next]_vars
=============================================================================
