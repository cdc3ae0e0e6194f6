# TLA+ models of the DSH One Gateway

The gateway is a small Node program that stands between a provider (Tailscale
Serve, Cloudflare Access, or a raw TCP route of a Headscale network) and DSH,
which listens on loopback. It decides for every request whether a trusted
principal sent it, and forwards it without identity or credentials. Around it
are a plugin that runs it as a sidecar of DSH, provider managers that set up
the Serve route, and a CLI that writes the profile and the credential store.

This directory holds specifications of its parts that have state, concurrency
or many interacting conditions, the configurations that TLC checks them with,
and proofs of their main properties. `PROJECT.json` maps every definition to
its lines, and lists the runs, the hazards, the findings and the theorems.

## 1. The system

| Part | State | Operations | Interacts with |
| --- | --- | --- | --- |
| Credential store (`auth/credential-store.mjs`) | the JSON file, `<path>.<pid>.tmp` | `issueCredential`, `revokeCredential`, `listCredentials`, `readCredentialStore` | CLI processes write it, the gateway reads it at every request; no lock |
| Sessions, gateway-credential auth (`auth/sessions.mjs`, `auth/gateway-credential.mjs`) | a map from session id to principal and two times | `authenticate`, `handleReservedRequest` (login), `readiness` | store, limiter, allowlist |
| Login limiter (`auth/abuse-controls.mjs`) | hits per source and overall, failures per source | `admit` (sleeps), `recordFailure`, `recordSuccess` | login |
| Key cache (`auth/jwks.mjs`) | `current`, `inflight` | `get`, `refresh`, `readiness` | key server of the Access team; signed-jwt auth |
| Evidence (`auth/trusted-header.mjs`, `auth/signed-jwt.mjs`, `auth/create.mjs`) | none | `authenticate` | raw headers, key cache |
| Authorization (`core/authorize.mjs`, `core/origin.mjs`) | none | `authorizeRequest` | auth module |
| Headers (`core/headers.mjs`) | none | rewriting, both ways | proxies |
| Readiness (`core/readiness.mjs`) | `ready` of `start()` | `isLocalReadinessRequest`, `writeReadiness` | server |
| Server and proxies (`core/server.mjs`, `core/proxy-*.mjs`) | `inFlight`; per request its handler, response, upstream | request and upgrade listeners, `proxyHttp`, `proxyWebSocket` | DSH, clients |
| Sidecar start (`sidecar.mjs`, `start()` of `core/server.mjs`) | the listener, `ready` | auth readiness, TLS, bind, inspect, apply, verify | providers |
| Plugin (`plugin.mjs`) | `handle`, `disposed` | effect, disposer | DSH's subprocess host |
| Providers (`providers/*.mjs`) | none of their own; the Serve route of the host | `inspect`, `plan`, `apply`, `verify`, `runArgvCommand` | the `tailscale` command |
| Setup (`setup/cli.mjs`, `setup/prompts.mjs`) | its options, the answers it was given, the plan | `setupCommand`: detect, choose, plan, confirm, write | user, `tailscale`, profile |
| Setup commit (`setup/cli.mjs`, `setup/profile.mjs`) | the profile file | `commitHeadscaleSetup`, `writeInitialProfileEntry`, rollback | credential store |
| Detection and plan (`setup/detect.mjs`, `setup/plan.mjs`) | none | `classifyControlPlane`, `detectProviders`, the plans, the choice of a port | `tailscale status`, `tailscale serve status` |
| Configuration (`core/config.mjs`, `core/constants.mjs`) | none | `assertSafeConfig` | setup, plugin, sidecar |
| Operator TLS (`core/tls.mjs`) | the certificate and key read at start | `loadGatewayTls` | sidecar start, whoever renews the certificate |

What makes it hard:

- **Await.** Every handler gives way at an `await` (store, keys, limiter delay)
  and goes on with what it read before.
- **Processes without locks.** CLI commands, setups and the gateway share two
  files; each writer reads the whole file and puts the whole file back.
- **Failure.** Commands die between two calls, key fetches fail or hang, a
  client or DSH leaves at any moment, `tailscale` fails after it took effect.
- **Time.** Two lifetimes of a session, the fresh and stale windows of keys, the
  windows and delays of the limiter, timeouts of fetches and of upstreams.
- **Conditions.** Host, Origin, Sec-Fetch-Site, target, method, number of
  copies of a header: each check is simple, their combination is what protects.

What makes each part correct:

- *Store*: a reader always meets a whole document; the exclusive first create
  keeps the winner; a revocation is final.
- *Authentication*: nobody is let in by a credential that was not live at some
  instant between arrival and answer; sessions end in time and are never
  brought back by a handler that still held them.
- *Limiter*: it bounds attempts and never locks anybody out for good.
- *Key cache*: withdrawn keys stop working when the windows are over, documents
  never go backwards, one failed or hanging fetch does not block later ones.
- *Server*: the slot count is exact, nobody is answered twice, everybody is in the
  end (but a client that withholds the body of its login), an upstream does not
  outlive its client, and a slot is only held by work under way or a client's turn.
- *Sidecar*: one at a time on the port, ready only behind its own exact route,
  and no route of somebody else is changed.
- *Setup*: what it prints works; what it takes back never works again; what it
  writes was agreed to, fits the node it was planned for, and starts.
- *Configuration and TLS*: what is accepted has the auth mode its provider adds
  evidence for, at every edit; a certificate is never used with another one's key.
- *Request path*: only the trusted user at the other end acts in DSH, pages of
  other sites never do, the gateway's own paths stay its own, nothing private
  passes, and the user's own pages work.

## 2. The modules

| Module | Models | Proofs |
| --- | --- | --- |
| `CredentialStore` | the store file and the CLI commands, one action per file system call that others can come between | `CredentialStore_proofs` |
| `RevocableAccess` | abstract: when a principal may be let in; no file, cookie or clock | |
| `GatewayCredential` | extends `CredentialStore`: sessions, logins and requests of the running gateway; implements `RevocableAccess` | `GatewayCredential_proofs` |
| `LoginLimiter` | the throttling of logins | `GatewayCredential_proofs` |
| `JwksCache` | the key cache, its process and the key server | `JwksCache_proofs` |
| `BoundedService` | abstract: whom a service of so many places takes in, answers and turns away; no counter, handler or event | |
| `GatewayServer` | slots, handlers, upstreams and answers of connections; implements `BoundedService` | `GatewayServer_proofs` |
| `ManagedRoute` | abstract: what the gateway promises its host about its port and its route; no plugin, process or command | |
| `SidecarLifecycle` | plugin, processes, port and Serve route; implements `ManagedRoute` | `SidecarLifecycle_proofs` |
| `GatewayConfig` | the configuration document and `assertSafeConfig()`, what the plans propose, what `createAuth()` asks for; operators only | |
| `ServeTable` | extends `GatewayConfig`: the host's Serve configuration, its classification by the two Serve providers, the choice of a port, what `tailscale serve` does to it; operators only | |
| `ControlPlane` | extends `GatewayConfig`: what `tailscale status` says and what setup concludes; operators only | |
| `SetupFlow` | composes the three: setup from its flags to the write, the start of the sidecar from that profile, and everybody else | `SetupFlow_proofs` |
| `SetupCommit` | extends `CredentialStore`: setups that issue, write the profile, print or roll back | `SetupCommit_proofs` |
| `RequestPath` | one request through all checks, in all auth modes, with its headers | `RequestPath_proofs` |

Each `MC_<module>` gives the constants their model values, and
`<module>_<question>.cfg` is one run.

**CredentialStore.** `file` is absent, torn (created and not yet written), or a
document: for every principal the number of its secret and whether it is
revoked. Hashes are secret numbers, fresh at each issue. A CLI process is a
record with the point it has reached and what it has read. `IssueRead`,
`IssueOpen`, `IssueFill`, `IssueReread`, `RevokeRead` and `RenameOver` are the
stretches between the file system calls that other processes can notice;
writing the temporary file is not noticed by anybody and is part of
`RenameOver`. `Stop` is a command that dies or whose call throws, at any point;
`WriteThrows` one that has put its document in place and fails all the same, as when
the `chmod` after the rename throws.
`created` and `settled` are histories, read by no action.

**GatewayCredential.** A request is `loading` from the moment the session was
looked up (or the login admitted) until the store read returns (`StoreRead`),
`loaded` until the handler goes on, then `admitted` or gone. The two halves of
`authenticate` are `AuthenticateStart` and `AuthenticateAdmit` or
`AuthenticateRevoked`; those of a login `LoginStart` and `LoginAdmit`,
`LoginDenied` or `StoreThrew`. The store's own actions run in between, and so
do `Tick` and `Restart`. The limiter's verdict is not part of it: any login may
be refused.

**LoginLimiter.** Timestamps are ages, so that the state is finite without a
bound on time: `hits[s][a]` is the number of attempts counted `a` ticks ago.
An attempt sleeps with the age its timestamp has by then, and counts with it,
as `hits.push(timestamp)` does after the delay.

**JwksCache.** `current` is a document and its age, `fetches` are calls of
`refresh()` under way, `inflight` is the one that `get()` joins. `GetFresh`,
`GetStale` and `GetMissing` are the three ways through `get()`. A fetch first
gets its answer (`FetchAnswered`) and only later lands (`FetchLands`), as the
body is read between them. A rejection nobody awaits ends the process (`FetchFails`
with no waiting request). The document's validity is part of the outcome.

**GatewayServer.** A connection is a record of seven small fields: what it is
(`kind`: a request, an upgrade, one `upgraded` by a 101, a CONNECT or a probe of the
readiness path), whether it took a slot, its handler (`reading` while it awaits the
body of a login), its answer, the heads it was sent, its upstream, and what is known of
its client. `Stage` is all that `BoundedService` sees of it. Clients leave at any time,
an upstream answers, completes, is cut off, or fails. Upgrades and CONNECTs are sockets
that Node hands over half-open (`Raw`): after `socket.end()` their close event, and the
slot with it, takes a client that closes its half as well (`ClientEnds`, `Flush`), and
never comes if the client did so behind bytes that nobody reads. Until a 101 brings an
error listener (`Unheard`), the reset of such a socket ends the process (`ClientResets`).

**SidecarLifecycle.** `pc` is the step of `start()`; `seen` is the
classification its provider's `inspect()` returned. Another program may take or
free the port (`PortTaken`, `PortFreed`) and change the route (`Reroute`) at
any time; a command may fail before or after it took effect, or never end
(`AwaitsCommand`). The configuration
(`config`) is either of the Serve providers with `ensure` or `verify-only`, or
Cloudflare Access, which needs no route and asks for keys. A Serve command that takes
effect only after the process that started it has ended is left out. `Phase` and
`Port` are what `ManagedRoute` sees of all this.

**SetupCommit.** A setup is an issue of `CredentialStore` and then the profile:
`ProfileRead`, `ProfileSaved` or `ProfileFails`, `Tell` or `Rollback`. Other
setups, credential commands and an editor run in between. `quiet` is a history:
no other process has done anything since this setup began.

**SetupFlow.** `setup.at` is the point that `setupCommand()` has reached: `detect`
(which commands exist, the control plane), `choose` (flag, menu or the only one
detected), `weaker` (the confirmation of `maybeConfirmWeakerAuth`), `status` and
`serve` (the two commands a plan runs), `shown` and `write`. Any step may throw
(`SetupEnds`). `gateway.at` is the point of `start()`: the document (`Load`), the auth
module, the three file system calls of `loadGatewayTls()` (`StatKey`, `ReadCert`,
`ReadKey`), the provider's `Inspect`, `Apply`, `Verify`, and for Access
`AccessVerified`. Between any two of these the node changes (`NodeChanges`),
somebody uses `tailscale serve` or `tailscale funnel` (`TableChanges`), edits one key
of the profile (`EditProfile`), or a renewal replaces one of the two TLS files
(`Renew`). A document is a record of what the checks tell apart: a section that is
there with valid contents is TRUE, any key that may not be there makes it `stray`. A Serve
table gives every authority its handler, every port its listener, and the
authorities that Funnel makes public; `ServeResults` leaves open what a
`tailscale serve` does on a port that is in use by then. `fresh` is a history: nobody
else has acted since a plan was begun in a profile without an entry, next to no gateway.
`Overlap` says whether `Setup` may begin where there is an entry, which may be gone by
the time of `Write`, or next to a gateway that still runs.

**RequestPath.** A request has a cause the gateway does not see (`page`,
`user`) and what it sees of it. The operators `OfPage`, `OfNoPage`, `Evidence`
and `Emails` are the environment: what browsers send for a page of DSH, of a
sibling domain or of another site, what a typed address or a program sends, and
what the providers add. They are external: the code relies on them and does not
define them. A local program that forges the provider's header is outside,
as the repository's threat model says of the same host. A header's name is the sequence of
its words, which is what the lists and the patterns of `stripRequestHeader()` tell apart;
which headers the two sides send and which of them `Connection` may name are constants. A
rewritten set of headers says of each whether the gateway wrote it or passed it on. Requests
and upgrades have a rule each, as in the code: the allowlist for upgrades does not read
`Connection`, so an allowed header that is named there (`user-agent`, say) passes, and the
property says so.

## 3. The runs

| Run | Bounds | Shows |
| --- | --- | --- |
| `store_races` | 2 principals, 3 processes, 3 secrets | the exclusive create, durable revocations and whole documents under any overlap and any death; a torn file is touched by its creator alone |
| `gateway_revocation` | 2 principals, 1 CLI process at a time, 2 requests, 2 session ids, 2 secrets, clock 0..2 with both lifetimes 1 | the refinement of `RevocableAccess`, lifetimes, no resurrection |
| `login_recovery` | 3 attempts, 1 source, 2 per source and 3 in all in windows of 3 ticks, delay up to 2 | overshoot at most the attempts in flight less one; recovery |
| `jwks_rotation` | 2 keys, 2 requests, 2 fetches, windows and timeout of 1 tick, 1 rotation | expiry, order, single flight, answers, keys picked up |
| `server_slots` | 3 connections, 2 slots | slots and what holds them, answers, upstreams, the refinement of `BoundedService` |
| `sidecar_reload` | 2 processes, all configurations | port (let go of unless a command never ends), route, disposal, the refinement of `ManagedRoute` |
| `setup_flow` | 3 hosts (under ts.net, own, under trycloudflare.com), 2 ports, 8 states of the node, 3 certificates (one renewed, one expired), 2 acts of others | what is written was agreed to and fits the node; what setup proposes starts and takes nothing from others; mode and key pair of a gateway that starts |
| `setup_race` | 2 setups and a third process, 2 principals, 2 secrets | one entry, working secrets, complete rollback |
| `request_gate` | a trusted and an untrusted user, all modes, every cause, target and evidence of the environment, 33 request and 20 response headers with any of 4 named in `Connection` | the properties of the request path |

Why these bounds suffice: a lost or racing update needs two writers and a third
party that notices; a process that ended is used again, so their number bounds
overlap and not the length of a behaviour. Two requests show one that acts on
what the other changed. One session id per login, two of them, let a session be
lost and another one made. The windows are the shortest in which fresh, stale and
expired differ; three attempts are one more than the source's limit. Three
connections on two slots fill the guard and have one refused. The counters
`MaxSecrets`, `MaxTime` and `MaxVersion` are named bounds; nothing else is cut
off. The proofs (section 5) do without all of these numbers.

`setup_flow` has every classification of the control plane, every provider and every
edit of a document; a second port is needed for a choice between ports, and two acts of
others for a renewal (two files), for an edit that is taken back, and for a table that
changes twice during one start. `Overlap` is FALSE in the run: what setup and a gateway
do at once has more than ten million states, and is left to the proof, which makes no
assumption on `Overlap`.

Deadlock is checked where a run does not say otherwise. The store, the gateway
and `setup_race` do stop, when the secrets or the clock are used up, and so does
`setup_flow`, when the profile has a disabled document and the acts of others are used up.

### Violations: where code and documents differ

- `store_lost_update` / `RevokedStaysRevoked`: two overlapping commands, even
  for different principals, undo each other's change; a revocation that was
  reported as done is gone (`credential-store.mjs:106-164`; README.md:255-256).
- `jwks_crash` / `StaleKeysReused`: a background refresh that fails in the stale
  window is a rejection that nobody handles, which ends the process
  (`jwks.mjs:87`; SECURITY.md:56-58).
- `sidecar_race` / `OnlyAbsentRoutesChange`: the Serve command overwrites a route
  that appeared after the inspection (`tailscale-serve.mjs:117-127`;
  CONTRIBUTING.md:17-18). `RouteIsManaged` is what does hold: the last
  inspection found it absent, and the provider manages routes.

Other places where a text says more than the code does:

- SECURITY.md:69-70 says that login throttling is bounded. The bound is not the limit: attempts
  count only after their delay, so those that arrive together pass together
  (`abuse-controls.mjs:25-29`); `LimiterInv` states the bound that holds, the limit
  and the attempts under way.
- README.md:191-192 says `--yes` skips only the final confirmation; it skips that of the
  weaker path as well (`cli.mjs:202`, `AsksForWeaker`).
- README.md:204-205 has `nbf` among the claims that are checked; a token without one is
  accepted (`requiredClaims`, `signed-jwt.mjs:66`).

## 4. Fairness

Each liveness property is checked under the weakest fairness found to suffice:

- `LoginLimiter`: time passes, and a timer that is due fires. Nothing is assumed
  of clients: they may try for ever.
- `JwksCache`: time passes; a fetch that the server answers is answered in the
  end and lands; one that it does not answer fails, for every fetch carries
  `AbortSignal.timeout`; a request whose promise is settled goes on. The
  strong fairness of answers and failures is needed because the key server
  may change between answering and hanging while a fetch is under way.
- `GatewayServer`: handlers that run come to an end, for what they await has a deadline
  or is a local file, with one exception: `readLoginBody()` has none, so `BodyRead` is
  without fairness and `EveryoneIsAnswered` excuses a login whose body is withheld
  (Node's default `requestTimeout` is not relied on). An upstream request that was asked
  fails in the end (its `timeout`), as does one whose client has left (`aborted`, pipe).
  Clients owe nothing: no `ClientEnds`, `ClientLeaves` or `Flush` has to happen.
- `SidecarLifecycle`: the steps of `start()` come to an end where they wait for local
  files or for what they abort themselves, a process that was told to terminate does
  (`graceMs`, after which the host kills it), and the disposer goes on. A command need
  not end: `runArgvCommand()` sends it one SIGTERM and awaits its close without a limit
  (`command.mjs:28-51`). So `StartStep` is fair only outside `AwaitsCommand`, and
  `PortIsLetGo` has the premise that commands end; `DisposalCompletes` does without it. A
  client need never disconnect: that is why `closeServer` may wait for ever and disposal
  ends it.

## 5. What is proved

The proofs hold for every value of the constants under the named assumptions
(`MaxSecretsAssumption`, `GatewayAssumption`, `LimiterAssumption`, `JwksAssumption`,
`ServerAssumption`, `SidecarAssumption`, `UsersAssumption`, `NamesAssumption`,
`SetupsAssumption`, and the five of `SetupFlow` and the modules it extends): bounds are natural numbers, "nobody"
is no process, connections and login attempts are finitely many, ports are port numbers.

- **CredentialStore.** `StoreInv` is inductive as a whole: types, `CommandsOK`
  (what a command is about to write is a whole document with secrets that were
  issued), `CreationOK` (the creator's entry is in the document, and in every
  document that a command is about to rename over it, for it was read after the
  creation) and `SettledOK` (a secret revoked while nobody else ran is live in no
  document, on disk or about to be written). The last two carry
  `FirstIssueIsKept` and `RevocationIsDurable`; `DocumentIsNeverTorn` follows
  from the actions and `StoreInv`, and so does `TornIsLeftAlone`: who is about to
  rename has read a document, and `CreationOK` says that there still is one.
  `FileIsKeptWhole` is the two together.
- **GatewayCredential.** `GatewayInv` (types; `SessionsGenuine`: a session in the
  table is the one its login made; `OnlyAllowlisted`) is inductive next to
  `StoreInv`. `RevocationTakesEffect` is the refinement: the store read maps to
  the abstract instant `Consult` if the entry it returned is not revoked, going on
  maps to `Grant`, and CLI steps map to `ChangeCredentials`. The invariant is
  needed for the table: dropping sessions only ever shrinks the set of principals
  signed in, and a login adds exactly its own.
- **LoginLimiter.** `LimiterInv` is inductive as it stands: what is counted in a window and
  what is asleep exceed the limit by less than the attempts in flight. The steps are
  arithmetic on cardinalities: `Total` is the number of hits that a window holds at any
  age, so the lemmas say what a tick (`OlderTotal`), a count
  (`HitTotal`) and an attempt that wakes (`AwakeIsOneLess`) do to it. The attempts are
  finitely many, or there is nothing to count.
- **JwksCache.** `JwksInv` adds to the types `SingleFlight` (the fetch under way is
  the one in `inflight`), `WaitersWait` (a request waits if and only if that fetch owes
  it the result, and so does the starting process: the safety half of
  `RequestsAnswered`) and `LagBounded`: what the cache holds lags behind the key
  server by no more than its age and one timeout, and an answer on its way is no
  older than what the cache holds. The single flight is what makes the latter
  inductive. `WithdrawnKeysAreRefused` and `CacheMovesForward` follow at the steps
  that admit and that land.
- **GatewayServer.** `SlotsInv` is not inductive without `Coherent` (in
  `GatewayServer_proofs`), which says where handler, answer and upstream of one
  connection can be at the same time: for instance that a running handler has
  sent no head and has no upstream, and that what was upgraded has an upstream that
  answers or is settled. `HeldForAReason` follows. The count is kept by lemmas on the cardinality
  of the set of holders, one per way that one connection can change.
  `ServerImplementsService` is the refinement: a connection that is waiting or answered
  in `BoundedService` is one that holds a slot (`ServedHold`, from `Coherent` and the
  exact count), so the comparison with the counter is the abstract one of the served
  with `MaxInFlight`; handlers that work for a client who left, and upstreams, are stutters.
- **SidecarLifecycle.** `IInv` adds to the port's ownership that a process runs only
  while the plugin's handle names it (so there is at most one), and that what it
  inspected is still so unless another program moved the route. `PluginManagesRoute` is
  the refinement: `Phase` is the step of the process that the handle names, which by
  `IInv` is all that runs, `Port` is who listens, and the verdict is what `Observed` says
  of the real route. Spawning maps to `Begin`, an inspection to `Look`, the command of
  a plan to `Claim` or, if the process ends meanwhile, to an `End` that may have claimed
  (`CommandClaims`, `EndRefines`), and whatever other programs do to `Touch` and `UsePort`.
- **SetupCommit.** A rollback may put back a store without the creator's entry, so
  `StoreInv` does not hold here, and the invariant `CommitIInv` is one of its own. `RecordsOK`
  says that what a setup has read is older than the secret it drew, so that putting it back
  does not verify that secret; `SerialsOK` that a secret belongs to one setup until it is
  told; `UndoneOK` that no document, on disk, in a command or kept for a rollback,
  verifies a secret that was taken back; `QuietOK` what an undisturbed setup has done up to its
  step. It is only the undisturbed setup that anything is promised to: every step of
  another process ends its `quiet`.
- **SetupFlow.** `FlowInv` says nothing of how the profile came to be, so `FlowIInv`
  adds what setup knows by the answers it has (`SetupKnows`), what a start has established
  (`GatewayHas`: the document it holds is safe at every step, so its mode is its
  provider's; the key was read after the certificate and belongs to it), that while nobody
  else acts nothing is started before there is an entry (`EntryFirst`), and what holds then
  (`FreshPlan`, `FreshStart`: the plan, then the profile, has the node's name and a port
  that is not in conflict, and `Apply` makes the verdict exact). `SelectedIsFree` and
  `ServedIsExact` are the lemmas this turns on: a port that is selected is not in
  conflict for the provider, and serving on one that is absent makes it exact.
  `OthersAreKept` follows from the same invariant: an `Apply` of a fresh start acts on an
  absent route, and then all that the command may leave behind adds to a port that nobody
  uses (`StartOnlyAdds`), and Funnel is as it was (`StartKeepsFunnel`).
- **RequestPath.** `Inv` carries along the way what follows from the cause of a
  request (`RequestOK`: for instance that a page of another site never has the
  gateway's origin) and that whoever asks the auth module has passed the protocol
  checks. `EvidenceIsOwn` is why one copy of the evidence is enough: of several, the
  first may be the client's own. `UsersAssumption` says that "nobody" and an invalid
  piece of evidence name no user. For `HeadersAreClean` three lemmas go through the names:
  every identifying or connection-bound one is caught by a list, a prefix or a word
  (`StrippedNames`), none that DSH needs is (`NeededNames`), and the allowlist for upgrades
  holds all of a handshake and nothing of the former (`AllowedNames`). Of the constants
  only `NamesAssumption` is used: names are sequences of words.

Every leaf is checked by tlapm with SMT, Zenon and, for temporal steps, LS4.

## 6. What is only model-checked

All liveness (`RecoversAutomatically`, `RequestsAnswered`, `KeysPickedUp`,
`EveryoneIsAnswered`, `UpstreamLetGo`, `PortIsLetGo`, `DisposalCompletes`): the
prover does not handle ENABLED and fairness. Every safety property that a passing run
checks is proved as well.

## 7. What is not modelled

- Cryptography and parsing: hashes, JWT verification, JSON, YAML, URL syntax. They
  appear by their verdict, or by the kinds of input they tell apart.
- The syntax of URLs, paths, principals and tokens in the configuration; what makes a
  certificate match a key or cover a host (`node:crypto`, given by `Usable`'s constants);
  a certificate that expires while the gateway runs.
- Shapes of tailscale's JSON that no version writes (Funnel as an array or a boolean),
  and `describeTcpServeStatus`, which words the verdict.
- The route that a renamed node leaves behind: no code removes a route.
- The doctor command, which reads what setup reads and changes nothing, and the reading
  of lines from the terminal.
- In `SetupFlow`: the credential that a Headscale setup issues next to the profile
  (`SetupCommit`), the port and the life of the process (`SidecarLifecycle`).
- The 400 for what Node cannot parse (`clientError`), which reaches neither the guard nor
  a handler; Node's own `requestTimeout`; header values, but for who wrote them.
- A disposal of the plugin that comes while executables are resolved, before the spawn.
- Bytes: bodies, backpressure, limits of size other than the refusal itself.
- Memory growth of the session and source tables.

## 8. Plan

Done, in the order of the importance of what they guard: store, authentication,
limiter, keys, server, sidecar, setup commit, request path; then configuration, Serve
table, control plane and the flow from setup to a start; proofs for all that have a
state, and three of them shown to implement an abstract specification.

What could come next:

1. The claims of an access token (`signed-jwt.mjs`) as sets of claims.
2. `SidecarLifecycle` over `ServeTable`, in place of its one-valued route, to have two
   gateways' ports next to each other.
3. `GatewayServer` composed with the limiter's sleep: slots held by sleeping logins.
4. The doctor command, whose report should name what a start would refuse.
