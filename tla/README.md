# Verification of the i3-MARKET OpenID Connect provider

This directory holds a TLA+ model of the i3-MARKET Node OIDC provider
(`src/app/src`), the TLC configurations that check it on small instances, and
TLAPS proofs of its main safety properties for every value of the constants.

The provider is an Express application around the `oidc-provider` library
(6.31.1). A relying party sends a browser to the authorization endpoint; the
provider's own policy opens an interaction; the login page asks the user's wallet
for a selective disclosure; the login handler sorts the disclosed verifiable
credentials into trusted and untrusted, and stores them in the user's session; the
id_token carries them to the relying party under `verified_claims`.

Paths below are relative to `src/app/src` unless they begin with `src/`.

## 1. Inventory

| Component | State it keeps | Operations | Interacts with | What makes it hard | What makes it correct |
|---|---|---|---|---|---|
| Login and consent interaction, `routes/interaction/controller.ts` | none of its own: between awaits, the details, the lists and the previous metadata of each post | `handleInteraction`, `loginAndConsent`, `getVerifyStatusFromVC`, `abort`, `onError` | library (interactions, sessions), credential service (HTTP), wallet | every await lets other requests run; sessions end, change owner or are updated between the read and the result; a throw in the middle of the loop | nothing is listed as trusted that is not; what the session knows is not lost; each post is answered |
| Account lookup, `account/account.ts` | none | `findAccount`, `claims` | library sessions | keyed by the exact scope text | a live code finds its claims, and only those disclosed for it |
| Policy and configuration, `routes/oidc/*` | the provider object | policy checks, interaction URL, lifetimes | library | one prompt that stands for two | no request passes without the user's consent |
| oidc-provider library (external) | sessions, interactions, codes | authorization, resume, token, end session | adapter, handlers above | resume decides by what the session has become | - |
| Web socket registry, `ws/server.ts` | `tags`: socket by tag | connection, message, keep-alive, close, `tag`, `get` | router, login page | close events come late and in another order | the registry leads to the newest live socket |
| Web socket router, `ws/router.ts`, `ws/utils.ts`, `endpoint/utils.ts` | list of routes | `use`, `connect`, `close`, dispatch | registry, interaction endpoint | prefix matching, parameters that all routes of an event share | a socket is tagged with its interaction |
| Login page, `public/js/login.js` | tries, interval, socket | connect, open, close, retry, pair, disclose, post | registry, wallet bundle | timers, several pages of one browser | it stops retrying, keeps one interval, posts once |
| Disclosure request, `routes/interaction/uport-scopes.ts` | none | `disclosureArgs`; `fetchClaims` has no caller | `handleInteraction` | words of a scope that name one credential twice | the wallet is told which credentials are essential |
| Wallet protocol bundle, `public/js/wallet-protocol-utils.umd.js` | the wallet session in local storage | session manager, session and keys to JSON and back, key derivation, base64, bit and byte helpers | login page, wallet | two base64 alphabets, line breaks and padding; keys that differ by direction only | a stored session is read back as it was; only its other end understands what is sent |
| Start-up, keys, identity, `server.ts`, `security/jwks.ts`, `security/did.ts`, `util.ts` | key file, identity file, loaded copies | `main`, `jwks`, `did`, loading, listening | database, ngrok, container, settings | failures and kills between two awaits; files that exist but are incomplete | what is served is what is stored; the identity survives |
| Settings, `config.ts` | tunnel URI and host, set by `main` | `get`, conversions, derived settings | environment, `main`, provider | unset and empty variables are not the same to `??` and to `\|\|` | what listens has an address and an issuer |
| Document adapter, `adapter/mongodb.adapter.ts`, `adapter/adapter-factory.ts` | collections, their indexes, adapters by name | upsert, find*, consume, destroy, revokeByGrantId, index creation | library, developers endpoint, database | upsert of destroyed documents, expiry, unconditional consume, indexes nobody waits for | a session uid finds one document, what is gone stays gone, a code used again takes its tokens with it |
| Developers endpoint, `passport.ts`, `routes/developers` | none | password check, initial access token | adapter, bcrypt, library | rejections nobody handles end the process | a token only for a genuine password; everybody is answered or the process ends |
| Ciphers, randomness, whitelist | none | pure; `Cipher`, `trust.ts` and `retry` have no caller | - | - | not modelled |
| API description, default pages, views, scripts | none | static | - | - | not modelled |

`PROJECT.json` lists the same components with their status, and under `hazards`
each place of the code that is hard to test, with the properties that watch it.

## 2. Modules

| Module | Role |
|---|---|
| `Issuance` | abstract: what an id_token promises a relying party |
| `Login` | interactions, sessions, codes, the login handler between its awaits, account lookup |
| `LoginProperties` | properties of `Login`, and `Issuance` as an instance |
| `MCLogin` | scopes, credentials and presentations for TLC |
| `LoginProofs` | type correctness, claim tracing, sorting, and `Login` implements `Issuance` |
| `LoginSerialProofs` | nothing stored is lost, and codes can be redeemed, with one interaction open per client |
| `WebSocketServer` | the registry of sockets and its close handler |
| `MCWebSocketServer` | instance for TLC |
| `WebSocketServerProofs` | the registry properties for any number of connections |
| `DisclosureRequest` | `disclosureArgs` as a fold, and the same without the order of evaluation |
| `Router` | the web socket router as a function from an event to the handlers called |
| `Bytes` | base64, hexadecimal, bit and byte helpers and PBKDF2 of the wallet bundle |
| `BytesProperties` | what these compute, as assumptions TLC evaluates on samples |
| `WalletSession` | a pairing's session and its keys, to JSON and back, and what they seal |
| `LoginPage` | pages, their sockets and their wallet calls, over `WebSocketServer`, `Router` and `WalletSession` |
| `MCLoginPage` | instance for TLC |
| `FoldFacts` | what `FoldLeft` computes, for sequences of any length, and induction over the naturals |
| `WalletSessionProofs` | sessions survive local storage; messages open with their key only; keys of two directions differ |
| `LoginPageProofs` | routing, disclosure requests, the invariant of the pages, who understands what they send |
| `Settings` | the part of `config.ts` that start-up depends on |
| `Boot` | start-up with its files, failures, kills and restarts, over `Settings` |
| `Developers` | the developers endpoint on a provider that starts and ends as `Boot` says |
| `MCDevelopers` | instance for TLC, with the environments |
| `DevelopersProofs` | the safety properties of `Boot` for any number of starts and any environment; `Developers` implements `Boot`, and only genuine passwords get a token |
| `Store` | the MongoDB adapter, its factory and indexes, and the database's own steps |
| `Requests` | requests of the library that interleave their calls of `Store` (external) |
| `CodeExchange` | abstract: what a relying party may rely on when it redeems codes |
| `RequestsProperties` | properties of `Requests`, and `CodeExchange` as an instance |
| `MCRequests` | instance for TLC |
| `RequestsProofs` | types, uids, gone documents, revocation, expiry, and `Requests` implements `CodeExchange` |

### 2.1 Login

State: `session` and `interaction` are the documents of the two library
collections, `cookie` the session uid each browser sends, `code` the codes not yet
redeemed, `token` the last id_token issued. `request[r]` is a POST of
`/:uid/login` that stands at an await: the details it read, the credentials still
to verify, the two lists, and the metadata it read from the session. `spent`,
`disclosed` and `verified` are history.

| Action | Code |
|---|---|
| `Submit` | `controller.ts` 139-162: `interactionDetails`, decoding of the presentation |
| `Verify` | 164-180, one turn of the loop with the answer of `getVerifyStatusFromVC` (258-280): 0, or 1 also when the call throws |
| `RejectMalformed` | 169: `decodeJWT` throws, `nextIfError` passes it to `onError` |
| `ReadSession` | 193-204: `Session.findByUid`, a copy of the client's metadata |
| `Finish` | 207-235: the result is stored in the interaction, or 401 when it is gone |
| `Abort` | 237-243 |
| `StartInteraction`, `IssueSilently` | the policy of `routes/oidc/interactions.ts` at the authorization endpoint |
| `Resume`, `SwitchAccount`, `ResumeDenied` | external: the library resumes the authorization request |
| `Redeem` | token endpoint with `Account.findAccount` (`account.ts` 64-93) and `claims` (25-45) |
| `Visit`, `CloseBrowser` | external: the library's session cookie and the browser |
| `EndSession`, `ExpireInteraction`, `ExpireCode` | logout and expiry (`mongodb.adapter.ts` 120-122, the TTL index of 21-49, `configuration.ts` 95-101) |
| `Restart` | the process ends with the posts it handles; documents stay; cookies stay valid only with configured keys (`configuration.ts` 89-93, `config.ts` 50) |

A scope is an atom with a set of words: `findAccount` compares the text, the
policy compares words, and the difference matters. A credential is an atom with a
subject. Signatures, JWT decoding and base64 are not told apart further.

What the model takes from the library, as the code uses it: `interactionDetails`
and `interactionFinished` throw when the interaction is gone; a session keeps its
uid; an interaction that began in a logged-in session resumes only in that session;
a result for another account logs the session out and is kept for the browser's
next session; the client's metadata is replaced as a whole, granted words are
added up; a code carries the session uid and the scope text; `findAccount`
returning undefined refuses the code; a resumed interaction is destroyed. Each of
these library calls is one step here; the reads and writes of documents inside
`interactionFinished` and inside the resume step are not told apart. A client
may force an interaction at any time (`max_age`), so `StartInteraction` has no
guard on the checks.

### 2.2 WebSocketServer and LoginPage

`WebSocketServer` has one action per event of `ws/server.ts`: `Connect` (37-40 with
the connect handler's `tag`), `CloseUntagged`, `CloseTagged`, `CloseThrows` (52-70)
and the process going down and up. `CloseThrows` is the error of line 60: an
exception in an event listener that nobody catches ends the process.

`LoginPage` puts pages in front of it: `Load` renders a page with its disclosure
request (`controller.ts` 67-137), `Accept`, `OnOpen`, `OnClose`, `Reconnect` are
the socket of `login.js` 46-74, `LoadSession`, `RestoreSession`, `Pair` the session
manager of the wallet bundle (`wallet-protocol-utils.umd.js` 1433-1480), `Disclose`
and `Refuse` the call at `login.js` 105. No code of the server sends a message, so
the page's `onmessage` never runs and `reconnect` stays true; the page socket serves
no purpose after that, and what is checked is that it does no harm.

`Router` follows `ws/router.ts`: a router is a sequence of children, each is offered the
event in turn (`RootTurn` for the root's, `Turn` for those of a router among them), and
every handler whose route matches a prefix of the path is called. Routers nest two deep,
as the application's do. The parameters are one object for the whole event, so each turn
hands on what earlier routes put there. A path is its segments, a route's pattern a
sequence of literals and parameters, as `path-to-regexp` reads those the application
has. `LoginPage` mounts the routes of `routes/interaction/endpoint.ts` with it, and
`TagFor` is the parameter `socketConnect` finds.

`stored` holds what the bundle writes to local storage, `WalletSession!toJSON` of a
session, and a page that loads it works with `fromJSON` of what it read, some steps
later. `WalletSession` derives both keys of a session as `MasterKey.fromSecret` does,
from the two names and the secret, and `encrypt`/`decrypt` frame the sealed message as
the bundle's `Cipher` does. AES-GCM is a record only its key opens, SHA-256 a given
table of distinct values, HMAC a value of its arguments. `Bytes` has the helpers under
it; `BytesProperties` compares them with reference definitions: base64 is read back by
`decode` in all four of its forms, but for arrays whose text the encoder breaks into
lines (past 57 bytes) and for padded text with `+` or `/`, which comes back longer;
`insertBits` sets the bits it should and no other, provided they begin at the same bit
of a byte in both arrays, and `extractBits` takes out what begins at a byte; the blocks of
`pbkdf2` are those of RFC 2898. These are assumptions that TLC evaluates at the start of every run of `MCLoginPage`, and a run
whose assumption is false does not pass. What the bundle
stores is unpadded and shorter than a line, so the two exceptions do not reach it.

### 2.3 Boot

`pc` is the await of `main` at which the process stands. Files are written in
place: `BeginKeys`/`EndKeys` and `BeginIdentity`/`EndIdentity` are the two ends of
`writeFile`, with `Partial` between. `jwks()` throws inside a callback, which ends
the process; `did()` rejects, which `onError` only logs: with the database
connected the process then hangs. `loadJSON` rejects and goes on to parse what it did
not read, which throws in a callback and ends the process (`LoadKeysFails`). `new Provider`
throws when the issuer is no web URI (`RefuseIssuer`, `routes/oidc/provider.ts` 20), and
main rejects. `Crash` may
come at every step.

`Settings` has the values that are URIs (`Uri`), those that will do for an issuer
(`WebUri`), `get` with its three levels (environment, default, empty string) and the
derived values `main` branches on. An environment maps each variable to a string or
`Unset`. `main` sets the tunnel URI and the host in the config object (`config` in
`Boot`), the provider takes the issuer when it is created.

### 2.4 Developers

`GET /developers/login` while the process of `Boot` listens: `Ask` (basic
authentication), `FindUser` (`passport.ts` 11-12), `Compare` and `CompareFails` (13-18),
`SaveToken` (`controller.ts` 15-22). The two awaits whose rejection nobody handles end
the process (`FindUserFails`, `SaveTokenFails`): the Dockerfile has Node 18. Accounts
are changed by an operator at any time, and a stored password may be one bcrypt cannot
compare with. Ending the process is a step of `Boot`, so `Developers` implements it.

### 2.5 Store and Requests

`docs[c][k]` is the document with `_id` `k` in collection `c`, `index[c]` how far its
indexes are, `collections` and `adapters` what the process remembers. Each operation of
`mongodb.adapter.ts` is an operator that gives the documents it leaves (`Upsert`,
`Destroy`, `RevokeByGrantId`, `Consume`) or finds (`FindByParam`, which stands for the
three finds by a field). `Construct` is the constructor with `addAdapter` and
`CollectionSet.add`, whose promise nobody waits for: `FinishIndexes` and `FailIndexes` are
the database's, and `RemoveExpired` is its monitor, which needs the index. `Accepts` is
the unique index of sessions; that of device codes is left out, for the configuration does
not enable the device flow. A save has an `expiresIn` from `Lifetime` of its collection,
which may be zero; a call without one takes the same branch. `Forget` is a restart.

| Action of `Requests` | Calls |
|---|---|
| `Obtain` | `createIfNotExists`, constructors, index creation |
| `StartSession`, `LoadSession`, `SaveSession`, `EndSession` | `upsert`, `find`, `upsert`, `destroy` |
| `BeginRotation`, `EndRotation` | a login's new identifier: `destroy` of the old document, then `upsert` of a new one with the same uid |
| `IssueCode`, `FindCode`, `ConsumeCode`, `SaveToken` | `upsert`, `find`, `consume`, `upsert`, each with other requests in between |
| `Revoke` | `revokeByGrantId` of one collection, after a code was found consumed |
| `End` | the request ends, with an error of the database or an answer |

`CodeExchange` says what is left of single use: a token comes from a request that found
its code offered, open and not yet redeemed, and once a code is not open it never is
again. Two requests that both find it open before either consumes it are both allowed,
as the adapter allows them (`consume` does not ask). A revocation that a crash cuts
short is not taken up again, and `ReuseRevokes` promises only what was answered.

## 3. Runs

All passing runs say `CHECK_DEADLOCK FALSE` where identifiers, sockets or starts are
bounded and the system stops once they are used up (`ws_registry` never stops,
since the process can always be stopped and restarted).

| Run | Instance | Question |
|---|---|---|
| `login_safety` | two users, one client, scopes `{a,b}` and `{a}`, two sessions, two interactions open at once | `TypeOK`, `CredentialsSorted`, `ClaimsTraced` (the chain of evidence from a disclosure to a token), refinement of `Issuance` |
| `login_serial` | two users, one client, scopes `{a}` and `{b}`, one interaction open per client, a credential that does not decode | `CodeRedeemable`, `ClaimsKept`: with neither overlap in time nor in scope, nothing stored is lost; `PostsSorted`, and `RequestAnswered` under fairness |
| `lost_claims` | as `login_serial`, two interactions open | finding 1 |
| `narrower_scope` | overlapping scopes, one interaction open | finding 2 |
| `essential_claim` | a `vce:` word without a trusted credential | finding 3 |
| `switched_account` | two users in one browser | finding 4 |
| `ws_registry` | two tags, five connections | `RegistryLive`, `GetNewest`, `OnlyNewerTakesOver` |
| `login_page` | two pages of one interaction, two sockets, one wallet session of this browser and one of another, two tries, a scope that names two credentials twice, one as essential the second time and one the first | `EssentialAsked`, `RegistrySpec` (the pages drive the registry as `WebSocketServer` says), reachability, one interval, one post, `PairingKept`, `OnlyOtherEndUnderstands`, `LinkSettles` |
| `ws_tagged_twice` | one page, two sockets | finding 5 |
| `start_up` | three starts, nine environments, two developers, one account that changes twice | `ServesItsFiles`, `ServesItsAddress`, `HangExplained`, `IdentityKept`, `ComesUp`; `OnlyGenuine`, `DeveloperAnswered` |
| `keys_lost` | two starts | finding 6 |
| `requests` | two requests; sessions with two identifiers and one uid, saved with one second left or none, or a code and tokens with two identifiers of one grant | `UidUniqueUnlessShared`, `GoneStaysGone`, `LivesItsTime`, `ReuseRevokes`, refinement of `CodeExchange`, `ExpiredRemoved` |

### Bounds

- Two users, two scopes and two sessions are what account switches and overlapping
  scopes need; a third adds no new pair. Two interactions per client are the least
  that overlap. `MaxDisclosed` stops new posts after three recorded disclosures,
  `MaxCode` stops silent authorizations while a code waits.
- Five sockets over two tags hold every order of old and new closes of one tag with
  another tag in between. `login_page` has two sockets only, because its liveness
  check is costly: they may be of one page (a reconnection) or of two; longer
  histories of the registry are covered by `ws_registry` and the proofs.
- `InitialTries` is 20 in the code and 2 in the runs: one close that is retried and
  one that is not.
- `login_page`: one session of the browser, since pages share one pairing; one elsewhere
  that must not understand. `KeyLength` is 32 in the code and 5 in the runs, the bytes
  are such that base64 writes the characters that differ between its alphabets, and the
  three fields have each length modulo three. `SampleArrays` has the longest line base64
  does not break and one byte more.
- The environments are those deployments differ in: nothing set, ngrok, ngrok in
  production, an empty port, URI or issuer (`src/template.env` has such lines), a
  public URI and an issuer without their scheme, and an issuer that is not the tunnel's.
- `requests`: a behaviour draws identifiers of sessions or of codes and tokens (`KeyFor`): the
  two kinds of request share no document. Two sessions let one rotate while it is saved, a
  code and two tokens let a code be redeemed twice and used again. Lifetimes of 1, for
  sessions also 0, and `MaxTime` 2 let a document expire, be saved again and expire later.
  Two requests are the least that interleave; the proofs hold for any number, and for any
  tables and lifetimes.
- Three starts: one that fails, one that meets what the first left, and a last one
  that is not disturbed, which liveness needs. Failures come only while another
  start is left (`MayFail`).

### Fairness

- `Login`: weak fairness of each post (`Handle`). Node runs the continuation of every
  answered await. That the credential service answers at all is an assumption:
  the HTTP call has no timeout.
- `LoginPage`: weak fairness of the reconnect timer and of the end of a connection
  attempt; users, wallets and the server owe nothing.
- `Requests`: weak fairness of the database's own steps on each collection (`Maintain`):
  it ends building indexes in one way or the other and runs its monitor. Requests owe
  nothing.
- `Developers`: weak fairness of serving a request that waits (`Serve`): the database and
  bcrypt answer or fail.
- `Boot`: weak fairness of start-up steps (the container has `restart:
  unless-stopped`, the awaited calls answer) and of an operator's restart of a
  process that hangs (`src/README.md:153`).

## 4. What was found

1. `lost_claims`: two interactions of one client in one session; the later result was
   computed from metadata read before the earlier one was applied and replaces it.
   The first code is refused (`controller.ts:228`). In the trace TLC finds both interactions
   begin before anybody is logged in, so what each read before is the empty metadata of line
   197; in a session of a user the copy of line 202 is stale in the same way.
2. `narrower_scope`: words granted before let a request pass silently, but no claims
   are stored under its text; its code is refused (`account.ts:86`).
3. `essential_claim`: `src/README.md:202` says that a login without a mandatory
   credential is cancelled; `rejectedScopes` is always empty and the token is issued. The request
   to the wallet has a gap of the same kind: of two words for one credential the later one
   counts, so after `vce:x … vc:x` the page asks for `x` as optional. `EssentialAsked` states
   that as the only exception (`Weakened`), and the scope of `login_page` has the case.
4. `switched_account`: the metadata of the session's former user is spread into the
   result of the new one, and a token for the new user carries the old user's claims.
5. `ws_tagged_twice`: a page that reconnects before the server sees its first
   connection end brings the close handler to throw, with nobody to catch it.
6. `keys_lost`: keys are generated at each start, so tokens issued before a restart
   do not verify against the published set, of which
   `routes/api-spec/paths/oidc/jwks.yaml:24` says otherwise.

## 5. Proofs

TLAPS checks `LoginProofs`, `LoginSerialProofs`, `WebSocketServerProofs`, `LoginPageProofs`,
`WalletSessionProofs`, `FoldFacts`, `DevelopersProofs` and `RequestsProofs`. They rest on
the named assumptions on constants: `ConstantsAssumption` and `NoneAssumption` (`None` and
`Denied` are no data, tables have the right domains), `WebSocketAssumption`,
`LoginPageAssumption`, `SettingsAssumption`, `BootAssumption`, `DevelopersAssumption`,
`StoreAssumption`, `RequestsAssumption`, and for `OnlyOtherEndUnderstands`
`PairingAssumption`: SHA-256 tells the names of ends apart, the two ends of a pairing have
different names (`Initiator` and `Responder` unless an application sets them), and no two
pairings end with the same secret, which both derive from fresh keys and nonces. Two
theorems have a hypothesis of their own, `MaxOpen = 1` and `ScopesApart`, named in their
statements. Fairness is not used. Every safety property of a passing run is proved.

**Login.** The inductive invariant is

    IInv == TypeOK /\ ClaimsTraced /\ PostsSorted /\ DisclosedSorted

Presentations of `login_safety` hold one credential, those of `login_serial` a second one that
does not decode; `SortedCorrect` and `PostsSortedCorrect` are for any number of them.

`CredentialsSorted` and the refinement are not inductive: a token's claims come
from a session, which got them from a result, which a post put together from a
copy of a session's metadata and its own lists. `ClaimsTraced` therefore says at
each of these places that the claims stem from a disclosure to that client for that
scope, that granted words were answered by the account that holds the session, and
that a post whose interaction still exists agrees with it on client and scope.
`AnonymousEmpty` is needed because a login in a session without an account adds its
words to what is granted there; the clause on `spent` because a post may find an
interaction of its uid only if no uid is drawn twice. `PostsSorted` is the loop
invariant; it gives the sorting of a disclosure when it is recorded, and
`DisclosedSorted` keeps it; `ClaimsTraced` carries it to every copy. From `IInv`
follow `TypeCorrect`, `TracedCorrect`, `PostsSortedCorrect`, `SortedCorrect`, and,
step by step of `Next`, `Implementation`: `Finish` is `Issuance!Disclose`, `Redeem`
is `Issuance!Issue`, everything else stutters.

`ClaimsKept` and `CodeRedeemable` (`LoginSerialProofs`) hold when a client has one
interaction open at a time, and findings 1 and 2 show that they do not hold otherwise. The
run `login_serial` has that bound with one client and two scopes; the theorems have it
with any number of clients, scopes, sessions and posts. `SerialInv` follows the metadata on
its way: a post's copy and an interaction's result cover what the session has *now*
(`CopyRemembers`, `ResultRemembers`). With one interaction open (`OneOpen`) no other resume
changes the session in between; an interaction that began without a session resumes in one
that has nothing of the client (`AnonymousForgets`), as does one whose account was
switched. `CodeRedeemable` needs two more facts: the words a session granted are words of
scopes it has claims for (`GrantsRemembered`), and a result has claims under its own scope
(`ResultCarries`). An authorization that passes silently then passes on words of scopes
with claims, and `ScopesApart` makes its own scope one of them.

**WebSocketServer.** The invariant joins the type, the three properties and
`Untagged` (sockets to come carry no tag), without which a new socket could not be
shown to be the newest of its tag.

**LoginPage.** `PageInv` says of each page what its socket and its wallet calls are at
(`LinkOK`, `AskOK`), that the server tagged its socket with its interaction and that it
connected with no other since (`HeldBy`), that what it read and asks with is from a pairing
of this browser (`SessionOK`), and of the registry what `WebSocketServerProofs` proves. Each
step of a page changes one half and leaves the other alone (`LinkChanged`,
`SessionChanged`). Three facts about operators carry it:

- `TaggedWithUid`, `NotTagged`: what the router makes of the two kinds of path, both loops
  unrolled over the routes the application mounts.
- `AsksAsSays`: `disclosureArgs` is a fold over the scope, compared with `SaysOf` for scopes of
  any length. `SaysOf` is the rule the code follows, that the last word for a name decides;
  what it has to do with the documentation is `EssentialAskedCorrect`: a `vce:` word is obeyed
  unless a later `vc:` word names the same credential (`SaysEssential`).
- `RoundTrip` of `WalletSessionProofs`: `fromJSON(toJSON(s)) = s`. Base64 is proved for every
  array of one line, 1 to 57 bytes (those of a session have 16 and 32): three bytes make a
  word, a word four digits, digits characters of base64url, and back, with the padding
  left out; past 57 bytes it is false, for the encoder breaks lines. Hexadecimal is proved for
  every array but the empty one, which `hex2U8Arr` refuses.

`OnlyOtherEndCorrect` joins the invariant with `OpensWithItsKey` (framing by `join` and
`split`, sealing as a symbol) and `KeysDiffer`: the input of the derivation is laid out by
`insertBytes` so that secret and both hashes can be read from it in their order. AES-GCM,
SHA-256 and PBKDF2 are symbols without collisions; that is assumed, not proved.
`RegistrySpecCorrect` makes the theorems of `WebSocketServerProofs` hold of the composition.

**Induction over loops.** The provers cannot instantiate an induction theorem that takes
an operator. `FoldFacts` therefore proves, from the definition of `FoldLeft` over sets of
indices and the existence of minima in well-founded sets, that a fold over one element more
is one turn more (`FoldAppend`), with the loop's turn as a constant, and that a set of
naturals closed under successor is `Nat` (`SetInduction`). A module instantiates it for
each of its loops.

**Boot.** `BootInv` says what is done by the time `main` stands at each await: keys
written, keys loaded, identity there. `HangExplained` is kept because the files a
hanging process leaves change no more, and its other reasons are of the environment and of
the tunnel's URI the process still has. `IdentityKept` follows since the only steps
that write the file begin with none or end such a step. For `ServesItsAddress` the
invariant adds that from the keys on the public URI is one and the host is its host, and
that a provider was created with the issuer of the settings, which is a web URI.

**Developers.** `DevelopersImplementsBoot`: each step is one of `Boot` or leaves it alone,
a rejection nobody handles being a `Crash`. With it the theorems about `Boot` hold
while developers are served (`InUse`). `OnlyGenuineCorrect` needs that what
`findByParam` returned was the account's password at some time since the request came,
and that the ghost `genuine` remembers it.

**Requests.** `UidUniqueUnlessShared` does not rest on the unique index, which is not in force
while it is built or when it could not be. The invariant (`UidInv`) says of a uid that no two
requests held at once that it has one document and one holder at most (`Alone`), and while it
has both the holder has loaded that very document: a rotation has destroyed it before it
saves the new one, and a save goes by the identifier loaded.
`GoneStaysGone` follows from each operation by itself: only a save makes a document
appear, a fresh identifier was not drawn before, and the save of a loaded session is one
the property names. `ReuseRevokes` is not inductive: `ReuseInv` says of each revocation
that the tokens it owes still carry its grant as long as they are there (so
`revokeByGrantId` finds them), and are gone once the collection of access tokens is done;
they cannot come back because an identifier is drawn once (`Steady`).
`ExchangeImplemented` maps each step to one of `CodeExchange` (`Simulated`): `IssueCode` to
`Offer`, `FindCode` to `Claim`, `SaveToken` to `Redeem`, a request that ends to `Withdraw`, all
else to `End`, which also allows that nothing ends. It needs `CodesInv`: a claimed code was
drawn, and is not open any more when its token is saved. `LivesItsTimeCorrect` needs that
the date of a document is never before the time its last save promised, unless that time is
over, as with a save that had no second left (`DateInv`).

Model-checked only: liveness (`RequestAnswered`, `LinkSettles`, `ComesUp`,
`DeveloperAnswered`, `ExpiredRemoved`), which is out of the prover's reach; and of the
operators of `Bytes` what `BytesProperties` states beyond the proofs: padded base64, arrays
of more than one line, `insertBits` and `extractBits`, `pbkdf2`.

## 6. Plan

Done: `Login` with `Issuance`, the registry, pages, router and stored sessions, start-up
with its settings, the developers endpoint, and the document adapter under
interleaved requests. Next, in this order:

1. `Login` over `Store`: `interactionFinished` as a read and a later write of the
   interaction, which an expiry, an abort or an account switch in between can cross.
2. Composition of `LoginPage` with `Login`: the post of a page as `Submit`, and page
   lifetime against interaction expiry.
3. Proofs: `insertBits` sets the bits it should and no other; the blocks of `pbkdf2`.

### Not modelled

- `fetchClaims` of `uport-scopes.ts`, `trust.ts`, `Cipher`, `retry` of `util.ts`, `findByLogin`
  and `checkPassword` of `account.ts`: nothing calls them. (`retry` would try once more
  than it is told.) `passport.ts` asks for the adapter `account`, `account.ts` for
  `Account`; with no caller of the latter the two never meet.
- In the wallet bundle: the vendored rxjs `Subject` (its subscribers are one page), the
  transport and the pairing protocol with the wallet, the modal, the browser's
  cryptography behind `Seal` and `HMAC`, the argument checks of PBKDF2, which no call of
  the bundle fails, and the second bundle of the wallet, which is minified.
- The library's internals beyond the calls it makes; that it finds and saves an
  interaction inside one step of `Login` (plan, 1).
- `config.ts` apart from the settings `main` branches on: lists, paths and the text of the
  database URI. A port that is taken fails like any crash (`Crash`).
- Paths with malformed percent-encoding; `agent.ts` and the remaining wiring; API
  description, default pages, views (no state); scripts that run once.

## 7. Running

    tlc -workers 2 -config login_safety.cfg MCLogin.tla
    tlapm LoginProofs.tla

`PROJECT.json` names the module of each configuration, the lines each definition
models, and for each property a variant of the code's step (the definitions marked
as sensitivity variants in the modules) under which TLC reports it violated.
