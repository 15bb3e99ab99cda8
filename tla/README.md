# TLA+ verification of cboxid (Go)

This directory is a verification project for the Go SDK of Cbox ID (`package cboxid`). The SDK is a
client library: an application calls it to sign people in with OpenID Connect, to refresh their
sessions, to receive signed requests, and to read what a session may do. The project models the
parts of the SDK that make decisions, checks the models with TLC on small instances, and proves the
main results with TLAPS for every size.

Paths below such as `auth.go` are relative to the root of the repository. `PROJECT.json` maps every
modelled definition to the lines it was translated from, lists the runs, one mutant per checked
property, and the hazards the properties are for.

Contents

1. Inventory of the system
2. Plan, and how far it is
3. The modules
4. The runs: what each shows, under which bounds
5. Fairness
6. Proofs
7. Divergences between code and documentation
8. What is not modelled
9. Running everything

## 1. Inventory of the system

| component | state it keeps | operations | talks to |
|---|---|---|---|
| Authorization request (`auth.go` 38-253) | none; returns values the application stores | `CreateAuthorizationRequest`, `SwitchOrganization`, `promptValue`, `assertOrganizationParams` | the browser, through the URL |
| Sign-in (`auth.go` 255-402) | none; the state is in the application (`Stored`), the browser (the callback URL) and the instance (the code) | `Authenticate`, `userFromToken` | token endpoint, UserInfo, JWKS |
| Refresh and errors (`auth.go` 300-326, `errors.go`) | `oauth2.Config`'s learnt auth style; the refresh token is the application's | `Refresh`, `asOAuthError`, `RateLimited`, `RetryAfter` | token endpoint |
| Frontend client (`frontend.go`) | `mu`, `config` | `Config`, `Session`, `get` | Frontend API |
| Webhook verification (`webhook.go`) | none; reads the clock | `VerifyWebhook` | callers in HTTP handlers |
| Legacy login (`legacy.go`) | none; goroutine per request | `LegacyLoginHandler` | Cbox ID (caller), the application's verifier, `VerifyWebhook` |
| Claim helpers (`claims.go`) | none | `OrganizationOf`, `ActorOf`, `IsSupportSession`, `RolesOf`, `PermissionsOf`, `HasRole`, `HasPermission` | read by `userFromToken` too |
| Device grant (`device.go`) | `DeviceAuth`, held by the caller | `RequestDeviceAuthorization`, `PollDeviceToken` | device and token endpoints, then `userFromToken` |
| Manifest (`manifest.go`) | none | `Manifest`, `canonicalManifestJSON`, `PublishManifest` | token endpoint (through `MachineToken`), manifest API |
| Construction (`cboxid.go`) | `Client`: immutable after `New` | `New`, `NewDeviceClient`, `assertSecureIssuer` | discovery document |
| Back channel (`backchannel.go`) | none | `MachineToken`, `UserInfo`, `Introspect`, `Revoke` | one endpoint each |
| URLs (`profile.go`) | none | `ProfileURL`, `LogoutURL` | the browser |
| Examples (`examples/`) | none | two `main` functions | the SDK |

**How they interact.** The SDK itself runs no background work and, apart from the cache of
`FrontendClient`, keeps nothing between calls. Its concurrency is that of its callers: an HTTP server
calls `Authenticate`, `Refresh` and `Config` from one goroutine per request. What can go wrong is
therefore a relation between several parties: what an application stored when it redirected, which
callback URL comes back, in which browser, what the instance has done with a code or a refresh token
when its answer does not arrive.

**What is hard, and what makes each part correct**

* *Sign-in.* Several tabs and browsers have requests outstanding; callbacks are reloaded, sent to the
  wrong browser, or answer an abandoned request; the token endpoint redeems a code and the answer is
  lost; the unsigned profile arrives after the signed token. Correct means: a code only meets the
  verifier of its own request; an error is believed only if it answers the request stored; a session
  is of one request, of the browser that made it, in the organization it was bound to; what was
  signed is not overwritten by what was not.
* *Refresh.* The instance rotates the token and treats a rotated one as stolen. The rotated token can
  be lost on the wire, dropped because the new id_token does not verify, or raced by a second
  goroutine. Correct means: nobody is signed out while the session lives, a session that is lost was
  lost to one of these mishaps and nothing else, rate limits are safe to retry, and the end of a
  session is noticed.
* *Frontend configuration.* A mutex is held across an HTTP request, and only success may be cached.
  Correct means: one request at a time, one document for the life of a client, no failure inherited,
  every call returns.
* *Signed requests.* Clocks disagree, requests are delayed, repeated or re-encoded, the store fails.
  Correct means: only fresh requests of the secret's holder reach the verifier, and an outage is never
  told as a wrong password.
* *Device grant.* A poll waits on three clocks (the caller's context, the life of the code, the
  interval that `slow_down` lengthens) while a person decides elsewhere and answers get lost. Correct
  means: polls keep the pace they were told, every wait ends, the user is the person who approved, and
  an approval is not spent on a failed call.
* *Manifest.* A deploy fails although its push took effect, or arrives late, and the SDK and the
  instance hash the catalog separately. Correct means: publishing an unchanged catalog is recognised as
  that and a changed one never is; a nil error means the catalog was in place.
* *Signing out.* `Revoke` overtakes refreshes in flight, and an outage answers in place of the endpoint.
  Correct means: who believes to be signed out is; an outage is no verdict on a token.
* *Claims.* Values of any JSON type. Correct means: nothing hides a delegated session, nothing grants
  what is not listed.

The full list, each at its line, is `hazards` in `PROJECT.json`.

## 2. Plan, and how far it is

In order of importance. **Done:**

1. `AuthorizationRequest` (pure), `UserFromToken` (pure), then `SignIn`, which extends both; the abstract
   `SignInContract`; refinement, invariant and proofs (`SignInProofs`).
2. `RefreshRotation` and `SignOut`, which composes it with the back-channel calls and the construction of
   the client (`SignOutProofs` has the proofs of both).
3. `DeviceFlow`, which turns its token into a user with `UserFromToken` (`DeviceFlowProofs`).
4. `Manifest` (pure) and `ManifestPublishing`; the abstract `CatalogContract`; refinement
   (`ManifestProofs`).
5. `FrontendConfig` with its proofs.
6. `Webhook` (pure) and `LegacyLogin`, which composes it with the handler, the network and two clocks
   (`LegacyLoginProofs`).
7. `Claims` (pure).
8. `Ordering`, what sorting and removing repetitions make of a finite set, and its theory
   (`OrderingProofs`). On it rest that versions identify catalogs (`ManifestProofs`) and the proofs about
   the functions without state (`HelperProofs`).

**Next:**

9. The safety facts behind the liveness properties, as theorems: whoever waits for the mutex of
   `FrontendConfig` waits for a request in progress; a waiting poll of `DeviceFlow` has a timer that runs.

## 3. The modules

### AuthorizationRequest (pure)

`CreateAuthorizationRequest` and `SwitchOrganization` (`auth.go` 129-208) as operators from parameters
to a request or `ErrConfiguration`, with `promptValue`, `NoneIsCombined` and `assertOrganizationParams`.
The two loops of `promptValue` over values and their words become the places at which a word is met for
the first time (`FirstMet`), in the order of the loops. The three random values of a request (state, PKCE
verifier, nonce) are represented by the identity `r` of the request they were drawn for: they are
fresh and independent in the code, so a value tells which request it belongs to and nothing else. The
S256 challenge is represented by its verifier. `LoginHint` is passed through and left out.

### SignIn

| variable | in the code or around it |
|---|---|
| `sent` | the authorization URL of each request, with the browser it was handed to |
| `stored` | the `Stored` the application keeps, one per browser: a new request overwrites it, and a successful sign-in does not clear it |
| `callbacks` | callback URLs that exist; opening one does not use it up |
| `redeemed` | codes the token endpoint has redeemed |
| `calls` | the calls of `Authenticate` in progress: a record of its locals, with `pc` at the HTTP call it is waiting for |
| `session` | the user the application has signed in, per browser |

| action | code |
|---|---|
| `StartSignIn`, `StartSwitch` | the two entry points, followed by the application storing what they return |
| `Authenticate` | `auth.go` 261-277: up to the token request, with every early return |
| `TokenAnswered` | 278, 283 and 328-343: an answer arrives; the id_token and its nonce are verified |
| `TokenFailed` | 278-281: refused, or no usable answer, whether or not the code was redeemed |
| `UserInfoReturned` | 345-395 and 284-298: the profile or its failure, the merge, the subject and organization checks |
| `Authorize`, `AppResumes` | external: the instance sends the browser back; the application takes the result |

The steps end where the code waits for the network, so calls interleave as goroutines do. Within a
step nothing else can be observed: `Authenticate` shares no memory between calls. Verification of the
id_token's signature, issuer, audience and expiry is go-oidc's; its outcome is one of `verified` and
`unverifiable`. Claims are a function from a few claim names to strings, `Empty`, `NonString` (null, a
number) and `Absent`, which is all that `stringClaim`, the merge and the comparisons tell apart.

`SignInContract` states what signing in promises without mentioning state, codes or calls: each
request is settled at most once, with no effect or by signing the browser that made it in to the
organization it asked for. `SignIn!Contract` maps `settled` to the redeemed codes that no call can turn
into a user any more.

`UserFromToken` is the part of `userFromToken` that decides (`auth.go` 328-395), as operators over a
token response and a profile: `RefusedToken` (signature, then nonce), `merge`, `SubjectsDiffer`,
`Enriched`. Sign-in and the device grant share it, as the code does. `GoValues` names the zero string.

### RefreshRotation

Variables: `current`, `family` (the instance's view of the token family), `styleKnown`
(`oauth2.Config` has learnt how this instance takes client credentials), `held` (what the application
persisted), `calls`, and the history variable `mishaps`. Tokens are numbered in the order they are
minted. `Refresh` is the entry of `auth.go` 304-309; the answers of the token endpoint are external
actions (`Rotated`, `Refused`, `RefusedUnheard`, `NotProcessed`) that hand an answer to `Answered`,
which is the rest of `Refresh` (`HandBack`, 309-326, with `asOAuthError`, `errors.go` 82-106).
`x/oauth2` repeats a request that failed in the other auth style if it did not know the style when the
call began (`probes`); it is not in the repository, and this behaviour is modelled because it can
present a token twice on its own. The application does what the documentation asks: persist the returned token, end
the session on `invalid_grant`, otherwise keep the token. The instance is modelled as one that rotates
on every refresh, which is the harder case. `EndedElsewhere` and `ToldOfTheEnd` stand for whatever else
can end the session and tell the application so; the module is checked through `SignOut`.

### SignOut

Extends `RefreshRotation` by one goroutine that calls `Revoke` or `Introspect` while others refresh, on
a client that `New` or `NewDeviceClient` has built.

| definition | code |
|---|---|
| `New`, `NewDeviceClient`, `assertSecureIssuer` | `cboxid.go` 49-66, 105-150, 179-197: from a configuration and a discovery document to a client or an error |
| `Revoke`, `Introspect` | `backchannel.go` 121-143, 61-82: which client may call, on which advertised endpoint |
| `Revoked`, `NotRevoked`, `Introspected` | external: the endpoint acted or not, and the answer got through or not; the end of the call is `RevocationOutcome` (145-153) and `IntrospectionOutcome` (83-96) |
| `AppSignsOut` | external: on a nil error of `Revoke` the application empties the session |

`Begin` reads the held token once, as the argument of a Go call is; a refresh may replace it before the
request arrives. Every redirect and every status below 400 counts as a success in the code; the model
takes such an answer for the endpoint's own. `IsRefreshRotation` is the refinement: a sign-out is
`EndedElsewhere` with `ToldOfTheEnd`, so nothing proved of refreshing is lost.

### DeviceFlow

| variable | in the code or around it |
|---|---|
| `auth` | the `DeviceAuth` the application holds: the interval and the scopes |
| `call` | the `PollDeviceToken` in progress: waiting for a tick, in a request, verifying, returned |
| `timer` | time left of the caller's context and until `Expiry`, counting down |
| `ticker` | the `time.Ticker` of the library's loop: its period, the time to the next tick, whether one is due |
| `grant`, `late` | the instance's view of the device code; a request given up that may still arrive |
| `pace`, `mishap` | history: the interval the instance has told the client, what was dropped of it and the time requests may still use up; whether something outside went wrong |

`RequestDeviceAuthorization`, `PollDeviceToken` (the entry, `device.go` 67-73), `GiveUp`, `Receive` and
`Interrupted` (73-79) and `Finish` (81) are the code's; the loop itself is `golang.org/x/oauth2`'s and
not in the repository, so `Send`, `SlowedDown` and the rest are external, modelled from its documented
behaviour. A tick takes a unit off every running timer and nothing is urgent, so everything can be late.

A poll is up to `Attempts` requests with one device code. Until `x/oauth2` has learnt how the instance wants
the client to authenticate, it repeats a failing request at once in the other form (`Repeat`), and it learns
from a success only: every poll of a pending code is then sent twice, and what the first answer says is dropped,
a `slow_down` included. `pace` charges every request a whole interval, of which a tick pays `Attempts`, and
counts dropped `slow_down`s apart. `RequestsTimeOut` says whether `Config.HTTPClient` has a timeout of its own: a
request it ends (`timed_out`) fails with an error that is a `context.DeadlineExceeded` to `errors.Is`, which
`PollDeviceToken` returns as an error of the context (`ErrorOf`).

### Manifest (pure), ManifestPublishing and CatalogContract

`Manifest` has the catalog, its canonical form (`canonicalManifestJSON`), the version, which is that form
itself as the hash is ideal, and both directions of the wire form (`MarshalRole`, `UnmarshalRole`:
`tenant_assignable` is the absence of `StaffOnly`; an empty name or description is left out). Keys are integers, in
the place of strings and in their order. `Parsed` and `Checksum` are the instance's; that it reads a role without
a name as one whose name is empty is assumed, for the version hashes an empty name where the wire has none.

`Ordering`, which `Manifest`, `AuthorizationRequest` and `Claims` extend, says what order a loop or a sort
leaves without recursion: the nth place of `InOrder(S, UpTo)` has the element with n elements up to it.
`Picked` takes from a sequence what stands at some of its indices.

`ManifestPublishing` runs `PublishManifest` from several deploys: `PublishManifest` (the checks of
`manifest.go` 266-274), `MachineToken` (`backchannel.go` 21-41), and `Receive` (276-315). A push is lost,
refused, answered by an intermediary, cut off, or arrives when nobody waits for it any more.
A deploy publishes what its program declares, or what it has read back from a manifest.

`CatalogContract` says what a deploy may rely on, without HTTP or versions: a publish that returns nil put the
declared catalog in place at one moment while it ran; one that returns `ErrManifestRejected` did so, did
not, or may still; any other error means it never does.

### FrontendConfig

`mu`, `config` and one `pc` per goroutine. `Hit` and `Miss` are the critical section from `Lock` on;
`Miss` keeps the mutex, `Receive` and `Unreachable` are the end of the request, where `get` classifies
the answer (`Outcome`, `frontend.go` 182-202), the result is cached or not, and the deferred `Unlock`
runs. `Session` takes neither the mutex nor the cache and shares `get`; without a token it returns at
once. The instance may republish another document at any moment. The caller's cancelled context and
the client's timeout appear as `Unreachable` and `SessionUnreachable`.

### Webhook (pure) and LegacyLogin

`VerifyWebhook` over a header that is a sequence of segments: the last `t` and `v1` stand, unknown
segments are skipped, arithmetic wraps at the ends of `-Half..Half-1` as int64 does, where `Half` is 2^63. A timestamp keeps both its
text (which is signed) and what it parses to (which is compared). The MAC is ideal.

`LegacyLogin` extends it: `Serve` is the handler up to the verifier (`legacy.go` 77-113), `Verify` the
call of the verifier and the answer it leads to (115-140). Cbox ID, the network (which keeps, repeats,
rewrites or loses) and the clock are external. A 200 is a decision, anything else is not.

### Claims (pure)

All helpers of `claims.go`. `stringList` picks the elements that are strings. An act claim is the chain of the subjects nested in it and what the
innermost object holds as its own act; `actorFrom` is a recursive function with the depth bound of the
code.

## 4. The runs

| run | instance | distinct states | what it shows |
|---|---|---|---|
| `authorization_request` | 2 organizations, the 4 prompt words, up to 2 values of up to 2 words | 150,012 | what is built or refused for every input |
| `sign_in` | 2 browsers, 2 requests, 2 concurrent calls, symmetric | 84,038 | no crossing of requests, browsers or organizations; the refinement of the contract |
| `claims` | 1 browser, request and call; 4 claims | 7,426 | which claims a user ends up with |
| `claims_no_id_token`, `claims_no_sub` | as `claims` | | the two divergences of section 7 |
| `refresh_and_sign_out` | 2 refreshing goroutines, 1 that revokes or introspects, 3 tokens, every client | 318,028 | when a session is lost, which sign-outs and verdicts are real, how an end is noticed |
| `device_flow` | 2 people, intervals of 0 and 2, lifetimes and deadlines finite and endless, 2 requests a poll | 176,443 | pacing, the end of the wait, whose user comes back |
| `manifest_publishing` | 2 deploys, 9 catalogs, 1 stray push | 230,076 | versions and catalogs agree; the refinement of the contract |
| `frontend_config` | 3 goroutines, 2 documents, a status of each class | 126,940 | the mutex, the cache, and the session beside them |
| `webhook` | headers of up to 2 segments, and the documented form with a third | 47,176 | the window, the header and the arithmetic |
| `legacy_login` | 1 sign-in, 2 handler goroutines, 4 ticks, 2 requests | 134,987 | decisions over a bad network |
| `claim_helpers` | every kind of value; act chains below, at and beyond the depth bound | 9,690 | grants and delegation |

**Why the bounds are enough.** *sign_in*: a crossing needs two of everything that can cross, and a
third browser or request only repeats one of the two; the proofs cover every number. The instance signs
tokens for the bound organization or for none and there is no profile, because what claims contain is
the question of `claims`, which in turn needs one call only: nothing in the merge depends on another
call. *refresh_and_sign_out*: a reuse needs a presented token that is one rotation old, and the three
tokens of `MaxTokens = 2` (0, 1, 2) let one be two rotations old; the proofs cover any number. Without
the sign-out, four tokens and three goroutines were also run once, without a difference. When the tokens
run out, `Rotated` is disabled while every other answer stays possible, so no call is stuck. Clients that
`New` refuses start nothing; every other combination of secret and advertised endpoints is a starting
state. *device_flow*: a period of 1 (the default, when the instance asks for none) and 2, up to two
`slow_down`s from 1 to 3, a code that outlives the deadline and the other way round, and neither of them
there, two requests in a poll and an HTTP client with a timeout. One request in a poll, and a client without a
timeout, were also run once, with `SlowDownsAreHeard` and `ContextErrorMeansTimeIsUp` as invariants; the proofs
cover all four. *manifest_publishing*: the catalogs differ in one thing each (the order and the repetitions of
their lists only, a flag, a description, a name left out, the permissions of a role, an entry), two deploys overlap, and one
push arrives late. *frontend_config*: three goroutines, since fairness to a waiter only matters when two
others can alternate. *webhook*: `Half = 2048`, 12 bits, keeps both windows (5 and the default 300 seconds), both ends of
int64 and the wrap-around apart. *legacy_login*: with tolerance 1 and 4 ticks a request can be fresh, at
the edge and too old, under both skews. Sign-ins share nothing in the handler, so one is enough.
*claim_helpers*: chain lengths 0, 1, 2, 7, 8, 9 and 24 around the bound 8.

**What each property says** is stated above it in its module. The ones most worth a reader's time:
`CodeAndVerifierPaired`, `DenialIsOfTheStoredRequest`, `SessionInRequestedOrganization` and
`ImplementsContract` (SignIn, ManifestPublishing); `ReuseNeedsAMishap`, `HeldIsCurrent` and `EndIsNoticed`
(RefreshRotation); `InactiveMeansOver` (SignOut); `PollsArePaced`, `SpentInVainNeedsAMishap` and `PollEnds`
(DeviceFlow); `OneDocument`, `FailureIsOwn` and `EveryCallReturns` (FrontendConfig); `DecisionsAreTrue`
(LegacyLogin).
For each property `PROJECT.json` names a mutant: a plausible bug, written next to the definition it
replaces (under the comment "Mutation"), that the run catches through that property.

**Deadlock** is checked for `sign_in`, `claims`, `refresh_and_sign_out`, `manifest_publishing` and
`frontend_config`. It is off where the model really stops: the pure ones after their one step,
`legacy_login` when the clock and the number of requests are used up, and `device_flow`.

## 5. Fairness

* `FrontendConfig`: strong fairness of taking the mutex, because a waiter of `sync.Mutex` that has
  waited for a millisecond is handed the mutex before anyone else; weak fairness of the end of a
  request, of `Config` and of `Session`, because the default client has a timeout of ten seconds (an
  application that passes a client without one gives this up); weak fairness of the goroutine's own steps. None for `Publish` or for callers to call.
* `RefreshRotation`: for `EndIsNoticed` the application has to go on refreshing and to act on results,
  requests have to end, and not every refusal may be lost on its way for ever (strong fairness of `Heard`).
  Without the last an application behind a dead network would never know, and should not. `SignOut`
  adds none: nothing need ever revoke or ask, and a call of `Revoke` may hang.
* `DeviceFlow`: weak fairness of `Tick`, of the loop's own steps and of what an ended context ends. None
  for the instance or the network; `DecisionEndsTheWait` states the part it needs of them as its own
  premise, and `PollEnds` needs none. `Finish` is only fair under an ended deadline: fetching keys and
  profile has no timeout of its own.
* `SignIn` has no fairness and no liveness property: the default HTTP client has no timeout, so the
  code does not justify that a call of `Authenticate` ends.
* `LegacyLogin` and `ManifestPublishing` have none either: the first owes that its answers are true, the
  second that a nil error is, not that they arrive.

## 6. Proofs

All theorems hold for every number of browsers, requests, calls, goroutines, tokens, deploys and
documents, for all intervals and deadlines, for lists and headers of every length, and rest only on the
named `ASSUME`s of the modules; TLC evaluates each on the instances. They say that model values are
distinct from the data they stand next to and that bounds are numbers, with these exceptions:
`ClocksAssumption` (legacy login) and `ClockAssumption` (webhook) say that the clock of the receiver, plus
the tolerance, stays below the end of int64, as seconds since 1970 do by a factor of 10^9 for any
tolerance an application could mean; `SecretsAssumption`, that there is a secret and that what nobody signed is not
signed with one; and `CatalogsAssumption`, that a catalog has no key twice, which is what the instance
accepts. Timestamps are not assumed to be near the clock: they may be anything the header can hold.

* `SignInProofs`: `Inv` is inductive. It adds to the safety properties why they hold. `StoredIsSent`: what is stored is one whole request
  of that browser, never parts of two. `CallbacksAnswerRequests`: a callback with a code is for the
  request its state names. `CallOK`: past the state check, a call's callback and its stored values are
  of one request, and later of one token. `OneCallPerCode`: a code is in the hands of one call.
  The last needs `TokenAnswered` to redeem. From `Inv`: `CodesArePaired`, `DenialsAreOfTheStoredRequest`,
  `SessionsAreOfOneRequest` and `SessionsAreInTheRequestedOrganization`. `SignedClaimsAreKept` and
  `RefusalsHaveReasons` add what the merge of the profile leaves standing and what may fail a redeemed
  sign-in, and `UsersAreOnePerson` that the claims of two people are never mixed: each rests on an
  invariant of its own that says of a user in the hands of a call, or in a session, which answers it was
  made of (`AllExplained`, `AllAnswered`). The run `claims` checks the three properties on a small instance.
  `Refinement`: Spec implies `ImplementsContract`. Each action is shown to map to a contract step or
  a stutter. The interesting cases are `AppResumes`, where a call with a user settles its
  request (`OneCallPerCode` shows that no other call still holds it), and `TokenFailed` with the code
  redeemed and the answer lost, which settles a request without effect.
* `SignOutProofs`, first part: `Inv` of `RefreshRotation` says where the live token is: persisted, or in the hands of exactly one caller whose
  request presented what is persisted (`LiveTokenIsSomewhere`); or it is lost (`LiveTokenIsLost`), and then the
  application is one token behind and no caller brings it another. `PresentedOnce`
  and `RequestsPresentTheLiveToken` add that without an overlap a request in flight presents the live
  token; so a refused token while the family lives implies a mishap. From it: `ReuseIsNeverSpurious`,
  `TheLiveTokenIsKept`, `RateLimitsAreRetryable` and `NobodyIsSignedOutEarly`.
* `SignOutProofs`, second part: `SignOutInv` is `Inv` with what ties the back-channel call to the family: behind a nil
  error of `Revoke` the family has ended, and behind the verdict "inactive" the token is rotated or its
  family over. `SignOutImplementsRefreshRotation` shows each new step to be one of `RefreshRotation`
  or a stutter. From both: `SignOutsAreReal`, `VerdictsAreTrue` and `RefreshingSurvivesSignOut`.
* `DeviceFlowProofs`: `Inv` says that the ticker's period is what the instance has told the client but for
  what was dropped, and that requests have saved up what the ticker, and the poll under way, may still
  spend (`TickerKeepsPace`, `Owed`), and that only the token of an approved code leads past the loop
  (`TokenIsOfTheApproval`). `IInv` strengthens it by what a returned user, an error of the context and a
  spent code come from. From it: `PollsKeepPace`, for every request; `SlowDownsReachTheTicker`, that
  nothing is dropped once a poll is one request; `ContextErrorsAreTrue`, for an HTTP client without a
  timeout; `UsersAreApprovers` and `ApprovalsAreNotWasted`.
* `OrderingProofs`: in a finite set under any order each element has a rank, the number of elements up to
  it. Ranks are different (a larger element has a strictly larger set below it), so they are exactly
  1 to the size of the set (an injection between finite sets of one size is onto). So `InOrder`
  lists every element once (`OrderedAll`), only one sequence is in order (`OrderedOnce`), and a nonempty
  finite set has a first and a last element (`FirstAndLast`). Counting takes the place of induction
  over sequences, which the provers cannot do.
* `ManifestProofs`: `VersionsIdentify` says what a version is for: the version of a catalog is the instance's
  checksum of another exactly when the two declare the same. One direction follows because the
  canonical form and the checksum put corresponding entries, which have the same keys, in
  the same places (`SamePlaces`, `SortedImage`); the other because a checksum shows every
  entry it was made of (`ChecksumIdentifies`). From it `Republishing` and, with `Invariance`,
  `Refinement`: publishing implements `CatalogContract`. `ManifestsAreReadBack`: `UnmarshalJSON` undoes `MarshalJSON`.
* `HelperProofs`, about the functions without state, through the modules that call them on every input.
  *VerifyWebhook*: a header has a last segment with a key, if any (`FirstAndLast`), and a wrapped difference
  between clock and timestamp lies in the window only if the difference itself does (`DeltaIsDistance`):
  `AcceptedWasSignedAndFresh` and `GenuineWebhooksPass`. *Claims*: `SupportSessionsShow` and
  `GrantsAreListed`. `actorFrom` is a recursion of eight levels whatever the chain is, so it is unfolded
  (`ActorRecursion`) and followed upwards in eight steps (`ActorsOneUp`). *AuthorizationRequest*:
  `promptValue` returns exactly the words passed, each once (`PromptWords`, for each word is met first in
  one place), so both checks decide by the words and not by how they were spread over the values
  (`ChecksOfWords`): `PromptsAreAsPassed`, `RequestsAreBoundAsAsked` and `RefusalsAreContradictions`.
* `FrontendConfigProofs`: `Inv` ties the mutex to the fetch (`MutexOK`) and the cache to its absence (`NoFetchOnceCached`);
  from it all safety properties, the action properties `ConfigLasts` and `FailuresAreOwn` included.
* `LegacyLoginProofs`: `Inv` says that what is on its way is what Cbox ID signed, but for a body
  written anew (`WireOK`), and that what a worker is about to answer is true to the password of its
  sign-in (`WorkOK`). The lemma `VerifiedIsFresh` does the arithmetic of the window and shows that a
  rewritten body does not verify. From it: `DecisionsAreTruthful` and `VerifierIsGivenFreshOnly`.

**Only model-checked:** the liveness properties `EveryCallReturns`, `EndIsNoticed`, `PollEnds` and
`DecisionEndsTheWait`: liveness under fairness is out of the prover's reach. Every safety property that
a passing run checks, the refinements included, is also a theorem.

## 7. Divergences between code and documentation

1. `VerifiedIdTokenBehindEveryUser` (run `claims_no_id_token`). `auth.go` 255-257 says `Authenticate`
   verifies the id_token. `userFromToken` does so only when the token response has one (333-334); with
   `AuthParams.Scopes` without `openid` the user is built from UserInfo alone, and neither signature nor
   nonce is checked.
2. `UserInfoUsedOnlyWhenSubMatches` (run `claims_no_sub`). The comment at `auth.go` 351-352 says the
   UserInfo `sub` must match and the response must not be used when it does not. The comparison (357) is
   made only when both have one, so a profile without `sub` is merged.

More were met while modelling and have no run, because they concern wording or the doing of a library
that is not in the repository. The models follow the code in each case:

* `cboxid.go` 38 and 82 say that `AccountPath` defaults to `/settings`; `accountPath` (152-158) uses
  `/account`, with its reason.
* README 258-259 and `cboxid.go` 25-26 say that `Revoke` requires a `ClientSecret`; `backchannel.go` 106-124
  serves public clients, with its reason.
* `device.go` 26 calls `Interval` the minimum between polls, and 62-63 say that it and `slow_down` are honored.
  Neither holds as written. Until `x/oauth2` has learnt how the instance wants the client to authenticate,
  which takes a success, it sends every failing poll twice, at once and with the same device code; so a
  program that starts with the device grant sends two requests for each interval while the code is pending.
  A `slow_down` that answers the first of the two is dropped when the second is answered otherwise. And
  an answer that is late makes the next poll follow sooner, as the ticker does not wait for it.
  `PollsArePaced` states what does hold: at most two requests for each interval and a bounded number saved up,
  the interval being lengthened by every `slow_down` but the dropped ones. `SlowDownsAreHeard` states that
  with one request in a poll none is dropped.
* Not against a sentence of the documentation, but of the same kind: `device.go` 75-77 returns the error of an
  ended context as it is, apart from the answers of the instance. A timeout of `Config.HTTPClient` is such an error too (`net/http` makes it a
  `context.DeadlineExceeded` to `errors.Is`) and is returned so although neither the context nor the code has
  ended: a caller that stops at such an error stops too early. `ContextErrorMeansTimeIsUp` therefore
  has a client without a timeout as its premise.
* `device.go` 62 and README 85 say that polling goes on until the person decides or the code expires; any
  other answer, a 5xx included, ends it (74-79).
* README 324-327 has the caller tell the server's answers apart; `PollDeviceToken` flattens each of them
  into `ErrAuthentication` (78).
* `errors.go` 22-24 says that `ErrManifestRejected` means the instance refused; it is also returned when the answer
  is lost after the push took effect (`manifest.go` 299-314). `CatalogContract` says what it does mean.
* `manifest.go` 81-82 says that a `tenant_assignable` that is not a boolean is refused; a `null`, which
  the SDK never writes, is read as `StaffOnly` (93-98).

## 8. What is not modelled

* Cryptography and its libraries: signatures, PKCE hashing, random values and HMAC are ideal.
* go-oidc and x/oauth2, beyond the outcomes they can have and the polling loop of the device grant.
  Discovery happens once, in `New`, and is an input to it.
* `ProfileURL`, `LogoutURL` and `LogoutURLWithHint` (`profile.go`), and `accountPath`: string building
  without state; whether a logout is global is decided by the instance.
* The two `main` functions under `examples/`: straight-line callers.
* `LoginHint`, `RetryAfter`, error texts, and the escaping of the hashed manifest (`escapeLikePHP`):
  values that are passed on or formatted, on which no decision of the SDK depends.
* `NewFrontendClient`, `IsLive` and the length check of the legacy secret: checks of a string; a client
  or a handler that exists has passed them.
* The wording of HTTP beyond status and decodability of a body.

## 9. Running everything

    tlc -workers 2 -config MCSignIn.cfg MCSignIn.tla       # any run of PROJECT.json, by its cfg and module
    tlapm SignInProofs.tla                                 # any of the *Proofs modules

`manifest_publishing` takes about two minutes, `refresh_and_sign_out` somewhat more than one, `device_flow`
three quarters of one, `authorization_request`, `sign_in` and `frontend_config` about half a minute each,
the other runs a few seconds.
