# A TLA+ model of secrets-dispatcher

secrets-dispatcher stands between programs that want secrets and the keyring
that holds them. Clients reach it over D-Bus (as `org.freedesktop.secrets`),
over an SSH agent socket, or, for commit signatures, through a thin `gpg-sign`
client that talks HTTP and WebSocket to the daemon. Before a secret is read,
written or deleted, or a signature made, a human decides: in a desktop
notification, in the web UI or on the command line. The daemon is a set of
goroutines that share maps behind mutexes and release those mutexes around
every slow call, so most of what can go wrong lies between two critical
sections. That is what the modules here model.

## The system

| Component | State | Operations | Interacts with |
|---|---|---|---|
| Approval manager (`internal/approval`) | pending requests, approval cache, auto-approve rules, history, observers | `RequireApproval`, `CreateGPGSignRequest`, `Approve`, `Deny`, `Cancel`, `ApproveAndAutoApprove`, `ApproveWithSignature`, `ApproveGPGFailed`, `AddAutoApproveRule`, `RemoveAutoApproveRule`, `CacheItemForSender` | called by every front end, calls its observers |
| Resolver (`internal/api/resolver.go`) | none | runs gpg without a lock, then resolves | HTTP, CLI and desktop approvers |
| Client tracker (`internal/proxy/tracker.go`) | the calls in progress per bus name | `contextForSender` and its release, `clientDisconnected`, `close` | D-Bus signals; cancels `RequireApproval` |
| Secret Service handlers (`internal/proxy/service.go`, `collection.go`, `item.go`) | none of their own | one goroutine per method call | tracker, approval manager, sessions, keyring |
| Session manager (`internal/proxy/session.go`) | session table with ciphers | `CreateSession`, `GetLocalSession`, `ForClient`, `ForUpstream`, `CloseAll` | handlers |
| Proxy manager (`internal/proxy/manager.go`, `proxy.go`) | one proxy per socket | directory scan, fsnotify events, start, stop, clean-up | observers (web UI) |
| Login (`internal/api/auth.go`, `jwt.go`) | used nonces, sessions (memory), master token (file) | mint, validate, redeem, restart | browser, CLI |
| Desktop notifications (`internal/notification/desktop.go`) | request and notification maps, grace timers, a bounded channel of clicks | `OnEvent`, `ListenActions` | observes the approval manager, resolves through the resolver |
| WebSocket hub (`internal/api/websocket.go`) | connections with bounded queues | `HandleWS`, `OnEvent`, the pumps, `broadcast` | observes the approval manager |
| gpg-sign thin client (`internal/gpgsign`) | one process per commit | dial, post, wait, cancel on a signal | HTTP handler, WebSocket |
| Trust rules (`internal/approval/manager.go` 550 to 1116) | the configured rules, the slice of auto-approve rules | matching, `AddAutoApproveRule`, `checkAutoApproveRules`, `RemoveAutoApproveRule` | part of the approval manager |
| Prompt forwarding (`internal/proxy/prompter.go`, `prompt.go`, `forward.go`, `signals.go`) | the bridge, its exported callback proxies, the queue of signals | `BeginPrompting`, `PerformPrompt`, `StopPrompting`, the callbacks, `start`, `close`, the forwarder | keyring, desktop shell, client |
| Slow-upstream notices (`internal/proxy/slow_upstream.go`, `internal/notification/slow_upstream.go`) | one notice per slow call | `WithSlowNotify`, `NotifySlowUpstream` | wraps every upstream call and gpg |
| Service installation (`internal/service`) | unit files, the user's files and their backups, the configuration | `Install`, `Uninstall`, `Try`, `Status`, `Plan` | systemd, D-Bus activation, gnome-keyring |
| SSH agent, HTTP API, companion user, configuration, CLI, web UI | | | not modelled, see the end |

What is hard here, and hard to test:

* a decision, a timeout, a leaving client and a second approver meet on one
  request (`select` picks any ready case, `gpg` runs without a lock);
* what is remembered (cache, rules, sessions, nonces, notification IDs) is
  looked up, used later and changed in between;
* events leave the manager after the mutex is released and reach observers
  that drop what does not fit;
* shutdown closes the tracker, the sessions and the connection one after the
  other while calls are under way;
* every request, call, proxy and client has to end without any human;
* an unlock is a conversation of six calls and a signal across two buses, and
  each of its four parties may die in the middle of it;
* the installation moves files of the user's out of the way, step by step, and
  nothing but these files says how far an earlier command came;
* one verdict covers a batch of items, and overlapping rules are tried in
  order.

`hazards` in `PROJECT.json` lists these places line by line with the
properties that watch them.

## Modules

| Module | Models | Proofs |
|---|---|---|
| `ApprovalManager` | manager, gpg_sign requests, resolver | `ApprovalManagerProofs` |
| `ClientTracker` | client tracker | `ProxyProofs` |
| `KeyringGate` | abstract: what the proxy promises | |
| `SecretService` | handlers, sessions and `Proxy.Close`; implements `KeyringGate` | `SecretServiceProofs` |
| `ProxyManager` | proxy manager | `ProxyProofs` |
| `LoginAuth` | login tokens and sessions | `ApiProofs` |
| `DesktopNotifier` | desktop notifications and slow-upstream notices | `DesktopNotifierProofs` |
| `SignFlow` | thin client, HTTP handler, WebSocket hub | `ApiProofs` |
| `TrustRules` | how trust rules, trusted signers and auto-approve rules match: operators without state | `RuleBookProofs` |
| `RuleBook` | the rules a manager holds, on top of `TrustRules` | `RuleBookProofs` |
| `PrompterBridge` | prompt forwarding | `PrompterBridgeProofs` |
| `ServiceInstall` | service installation | `ServiceInstallProofs` |

The modules whose names start with `MC` define the constants and bounds of the
instances that TLC checks; the other modules take theirs directly from the
`.cfg` files. `MCApprovalManager` also composes: TLC evaluates its assumption
`RulesAgree`, that the verdicts of the configuration and the scopes of rules in
the approval runs are what `TrustRules` computes. `map` in `PROJECT.json` gives the source
lines of every definition. Operators whose comment starts with "Mutant" are
not part of a specification: each is a plausible slip in the definition that
follows it, and TLC finds the named property violated when it takes that
definition's place.

One rule decides the grain: a critical section is one action, and so is every
unlocked step between two critical sections. A handler's place is a program
point (`pc`, `rstep`, `handler`, `client`, ...).

### ApprovalManager

`pc[r]` is the place of the goroutine that serves a request: the caller in
`RequireApproval` (`CheckCacheHit`, `CheckCacheMiss`, `CheckAutoApproveRules`,
`CheckTrustRules`, `Create`, `Announce`, then one of `WaitDone`, `WaitTimer`,
`WaitCtx`, then `NotifyGaveUp`, `Cleanup`), or, for `gpg_sign`, the HTTP handler
followed by the timeout goroutine (`SignTimeout`). Approvers act through
`ResolveNow`, or `StartGPG` and later `FinishGPG` or `FinishGPGTooLate`;
`Resolve` is their critical section. What the winner does after the unlock is
`rstep[r]`: event, cache entry, rule. `closed[r]` counts `close(req.done)`,
because a second one panics.

Abstractions: the verdict of the trust rules on a request is `Info[r].trust`;
a rule's collection and attributes are a scope, and `InScope` says which items it
covers. The module takes both as constants; those of `MCApprovalManager` are
what `TrustRules` makes of a configuration of four rules and a trusted signer
(`RulesAgree`). Two rules are equal when their key is. Timers fire at any moment after they are armed. Reading
the clock and taking the lock are one step. Only one approver of a kind runs
gpg for a request at a time. `Resolver.AutoApprove` is one step. Not modelled:
the disabled manager, the events about rules, the order in which one observer's
events arrive, and the search branch of `AddAutoApproveRule`, which no request
that comes through `RequireApproval` reaches.

### ClientTracker

`Register` is the registration under the mutex, `CheckOwner` the question to
the bus after it, `Finish` the release, `ClientDisconnected` the handling of a
`NameOwnerChanged`. `CheckOwner` has the two answers of the bus: the owner is
found (`OwnerFound`), or the question fails (`OwnerError`), and any error cancels
the call, also one that does not mean that the client left (`tracker.go:157`). The bus is external: it may deliver the signals of
different senders in any order, and a unique name never comes back.
`RegisterAfterClose` is the assignment into the nil map.

### KeyringGate and SecretService

`KeyringGate` says what the proxy is: the keyring behind a gate. A gated call is
asked for, granted or refused, performed at one moment if it was granted, and a
read answers with what it read. `SecretService` has a program point for every
early return of the handlers, the two separate lookups of the session table,
the forwarded value and the reply, and the four stages of `Proxy.Close`.
`GateSpec` is `KeyringGate!Spec` under the mapping in `Gate`.

Abstractions: a ciphertext is a value with the key it is sealed with. A client
may seal a value with any session's key, or with none, and name any session.
Decrypting with another key is an error (the padding check) or, about once in
256 times, bytes that nobody meant, `Garbage`; a session without a cipher forwards
what it gets (`session.go:148`), and a ciphertext among it is `Garbage` too. The approval
manager's verdict and the keyring are external, and the keyring may fail any
call. Labels and attributes are not modelled. Lock, the aliases,
`CreateCollection` and properties are one pass-through operation. A call that
reaches the closed tracker stops (the panic is in `ClientTracker`).

### ProxyManager

`loop` is the place of `Run`, `state[i]` that of the goroutine of proxy `i`. The
directory and the fsnotify queue are external; a rename is a remove, as in
`handleEvent`. Deleting the entry and calling `cancel` in `stopProxy` is one
step. `seen` counts what the observers were told. Nothing waits for the proxies'
goroutines: `stopAllProxies` cancels them (`manager.go:335`), `main` returns once the
runners of the downstreams have (`main.go:676`), and the process takes with it what
still runs (`Exit`).

### LoginAuth

Tokens are minted, validated and redeemed in separate steps (`ValidateJWT` runs
before `ConsumeJTI` takes the mutex), the clock counts seconds, and `Restart`
empties the memory while the key on disk stays. Signature, header and cookie
checks are abstracted to well-formed tokens.

### DesktopNotifier

The handling of a request's created event (`shower`), of the resolver's event
and of the waiter's event (`ender`) are three goroutines; the listener is a
fourth. The server assigns IDs and shows prompts, the user clicks or dismisses.
The approval manager is reduced to the creation and the ends of a request.
`slow` is the place of a `WithSlowNotify` (`select`, `notify`, `wait`, `dismiss`),
whose call is answered by a goroutine of its own at any moment; its notices
share the server with the prompts. Without a threshold or a notifier it is the
plain call. Not modelled: reconnecting to the bus, a notification server that
is started again, the time gpg takes inside an approval, and
`cancelledRequests`, which is written and never read. Closing a notification may
fail (`CloseId`): the error is logged or ignored after the entries were deleted,
and the notification stays on the screen (`stuck`). `late` holds the requests whose
prompt was still to come when the handler of their end looked for it.

### SignFlow

Every request has a thin client: it dials (`Accept`), posts (`Post`), reads
(`Read`) and exits with a code. The server's side of its connection goes through
`Register`, `Subscribe` and `SendSnapshot` before the pumps run, while the HTTP
handler may already be serving the request. `send` is the queue of capacity
`Buffer` (256 in the code), `wire` what was written and not read.
`ResolvedElsewhere` and `Broadcast` are the events about other things, at most
`MaxNoise` of them. The manager is reduced to one decision per request, the
event that follows it, and the timeout goroutine. A message carries what
`WaitForResolution` looks at: the result, the request, and whether the exit code
is non-zero. A cancellation that is in flight when the client exits is
processed before the exit; nothing depends on that order.

### TrustRules and RuleBook

`TrustRules` has one operator per matching function of `manager.go`, under its
name, over records with the fields of the Go structs. A string is a value,
`Empty` the empty one, and `Matches` the pairs of pattern and string for which
`path.Match` succeeds; attributes are functions on their keys. `Verdict` is
`CheckTrustRules` in the order of the configuration.

`RuleBook` puts state around them. A behaviour starts with one configuration
and keeps it. The slice of auto-approve rules is modelled with its backing
arrays (`heap`, the last one in use, and `len`): `append` writes in place or
moves to a new array, expired rules are compacted in place during a lookup, a
removal shifts. A request has any number of items; its rule is made from the
first (`RuleFrom`), and `Rulable` says whether that rule speaks for the whole
request. `AddAutoApproveRule` is the critical section; after the unlock the rule is
announced, through a pointer into the array if it was refreshed (`existing`), and
an observer reads it field by field without the lock: `Observe` begins the reading
and `Announce` ends it. If the place is written in between (`garbled`), what was
read is left open (`Mixed`). The history variable `until` says when the permission
that a decision gave ends. `Compact` keeps the places of the rules that are
alive in their order (`ListsLive`), which is what the loop of
`checkAutoApproveRules` does to the array.

### PrompterBridge

`stage` is the place of `ConnectWith` and `Close` (the bridge owns its name,
`ClaimPrompter`, before its object is exported, `StartBridge`, and a call in between
is refused), `conv[u]` that of an unlock as
its keyring sees it, `handler[u]` the bridge's goroutine for the call under way.
`callbacks[p]` is the proxy exported at a path and the life of the keyring it
forwards to, `queue` the signal forwarder's channel. External: the keyring,
which numbers its callback paths from the beginning in each life; the shell,
which keeps one prompt per path; the fallback prompter, which the private bus
starts when the bridge does not own the name; client and user. The bodies of
the calls are passed on unread. Not modelled: the channel's limit of 64 and the
order of dispatch inside godbus.

### ServiceInstall

A command is a program point (`pc`) in `Install`, `Uninstall` or `Try`, and a step
of it is one call on the file system or on systemd. `Fail` ends the command as
its error return does, `Crash` stops it where it is, and both are bounded by
`MaxFaults`. `place` and `backup` hold the two files of the user's that are in the
way (the D-Bus activation file and the autostart entry), `latest` what the user
last put there. `planned` is what `Plan` lists for the same state, `done` what the
command really changed.

A write that fails or is cut short leaves the old file, the new one, or one that
is neither (`Torn`): `os.WriteFile` creates or truncates before it writes, and a torn
file is not recognised as ours. That holds of the mask, the shadow and the
configuration; a drop-in that was cut short is there and shuts nothing. The
owner of the name only gets a signal (`SignalOwner`, `dying`) and exits at any
later time (`OwnerExits`), also after the command returned; until then its unit
counts as active and a start of it does nothing (`overtaken`). Stopping a unit
stops those that require it.

Abstractions: a file's contents are whose it is; `systemctl stop` and `disable`
take effect when they run, and SIGTERM ends its receiver in the end; two commands do not interleave step by step, and the user,
logins and other providers of the name act between commands, or while a trial
waits. Units and configuration files are present or absent, with their
topology. What is printed, and the polls that only report the owner of the
name, are left out.

## What TLC checks

| Run | Instance and bounds | Shows |
|---|---|---|
| `approval` | Four groups of requests: two reads of one client (one of them a batch), two commits to sign (one of a trusted signer), an ignored write and an empty read that is denied, and a trusted write with a read the configuration denies. History of 1, window 1, clock up to 2 | types and the history's limit; every grant and every standing permission goes back to a decision of the user; the life cycle; the history is truthful; no decision is reversed |
| `approval_live` | A read and a commit to sign, no clock | `done` is closed once; every request ends without a human; every decision is announced |
| `rules` | Up to two of 18 rules in every order with every pair of different items, known and unknown executable; three decisions about four requests (a single item with an empty value, a commit without items, a mixed batch, and a batch that a rule for an empty value is taken for), lifetime 1, clock to 2 | no item is approved or escapes in company; a retry of a request for which its rule speaks is granted while the permission lasts; no decision prolongs a rule of another scope; what is announced was made, unless it was written while it was read |
| `tracker` | Two clients with two calls each | no lost disconnect, no cancelled neighbour, no leaked entry; a disconnect ends the call |
| `secrets` | Eleven calls in four groups with encrypted, plain and refused sessions; three of the writes are sealed with the wrong key, or not sealed, or sealed on a plain session | the keyring holds what was meant unless the client sealed it wrongly itself; replies are sealed and are what was read; `KeyringGate` is implemented |
| `unlock` | Two unlocks, two lives of the keyring, from `ConnectWith` to `Close` | the shell's calls reach the keyring that asked; no callback proxy is leaked beyond the two cases the code leaks; an unlock completes |
| `proxies` | One socket, three proxies, two queued events | no entry names a dead proxy; observers' counts add up; shutdown ends every proxy that the process outlives, also one without an entry |
| `login` | Two tokens, three posts, expiry 2, clock to 4, two runs of the daemon | no token is redeemed twice before its expiry in one run of the daemon |
| `desktop` | Two requests, one of which a client may give up, or that one and a slow call; two IDs, handed out in order, a channel of 1; one prompt that comes late and one notification that cannot be closed | the two maps agree; a prompt whose buttons have no effect came late or could not be closed; early cancellations are silent; a notice goes with its call; a click ends its request |
| `sign` | One thin client, a queue of 2, one other event | the queue's limit; git is told the truth; a queued result ends the client |
| `install` | Any sequence of commands in the three topologies, two versions of the user's files, one fault, one edit; after both of them (`FaultAndEdit`) no trial, only one of the two topologies that take over and only gnome-keyring | a file of the user's is destroyed only when one of ours that was cut short is backed up as his; an undisturbed reversal is exact; `Install` and `Uninstall` converge from every state, up to a unit whose old process was still exiting; the dry run lists what is done; a demoted gnome-keyring stays out once it has exited |
| `sign_lost` | as `sign`, no other events | *violated*: a resolution announced before `Subscribe` is lost and the client waits for ever |

Every module has a type invariant `TypeOK` (`TrackerTypeOK`, `LoginTypeOK`). In `approval` it is checked under its
own name, as it also bounds the history; in `proxies`, `desktop`, `sign`, `rules`,
`unlock` and `install` it is the first conjunct of `EntriesLive`, `MapsConsistent`,
`ExitTruthful` (with the queue's limit), `RetryGranted` (with one rule per scope),
`NoLeakedCallback` and `NothingLost`; those of `ClientTracker`, `LoginAuth` and
`SecretService` are parts of the inductive invariants. All of them are proved.

Why the bounds are enough: every property relates at most two requests (or a
request and the standing permission another one left), so two that share a
sender and an item, with a batch that contains the other's item, reach each
kind of interference; the third group of `approval` exists for the verdicts of
the configuration. Requests of different groups never run together
(`OneGroup`); they would only meet in the history, whose bound of 1 is already
exceeded in each group. A window and a lifetime of one or zero ticks put a
cache entry or a rule on either side of its expiry. Three proxies for one
socket give a predecessor, its successor and one more. In `login` the clock
passes the expiry of a token minted at any time before it. A queue of 2 is
filled by one event, as each terminal event sends two messages. Two rules
overlap in every way one rule can shadow another, and a verdict on a batch is
compared with those on its items two at a time; three decisions fill an array
of the slice, move it and compact it under a pointer into the old one, and a
batch of two has a first item and another.
Two lives of the keyring make the second reuse a path of the first. One fault
is enough because commands are repeatable: the property is what the next,
undisturbed command makes of the wreck; the loss that `NothingLost` names takes one
torn write and one more command. The proofs have no such bounds. A slow call meets one request
(`CallsOrRequests`): they share nothing but the server's IDs.

Deadlock is checked in both runs of `approval`, whose module has an explicit
end (`Finished`), in `install` and in `rules`. It is not in the others: calls,
proxies, posts, requests, unlocks and clients are finite, so these systems stop
when all are done.

### Fairness

Weak fairness is assumed of steps that a goroutine takes by itself: Go's
scheduler is fair, timers fire, and mutexes are held only for steps that end.
So: of the goroutine that serves a request and of a winner's remaining steps
(`approval_live`); of a registered call's check and of signal handling
(`tracker`); of `Run` and of each proxy's goroutine as long as the process lives, and
strongly of `Run`'s reaction to its cancelled context, as its `select` picks at random
among the ready cases (`proxies`); of event handling
and the listener (`desktop`); of the connection's set-up, the write pump, the
handler, the announcements and the timeout goroutine, and of the thin client
(`sign`, `sign_lost`); of the keyring's and the shell's next step in a conversation,
the bridge's handlers and the signal forwarder (`unlock`). Nothing is assumed of
users, of clients, of sockets that come and go, of signals or of a failing
network, so no property depends on anyone clicking. A process that exits ends all
of this: `ShutdownEndsAll` says that after the cancellation either every proxy's
goroutine comes to its end or the process is gone before that, with the
disconnections of the rest never announced. The one exception is
`unlock`: a prompt on the screen is answered or cancelled in the end, since
nothing in the code ends it otherwise.

## What is proved

TLAPS proves the following for every value of the constants that meets the
named assumptions: the types of the parameters, as they are stated next to
them. Two of these say a little more. `SliceAssumption` and `RequestAssumption`
of `RuleBook`: a configuration is indexed by positive numbers, a batch is not
empty, attributes are finite maps, and a rule differs from an unwritten place
of the array. `UnlocksAssumption` of `PrompterBridge`: the unlocks of a behaviour
are finitely many. Two proof modules extend two components each; the
specifications of `ClientTracker` and `LoginAuth` are therefore called
`TrackerSpec` and `LoginSpec`, and their parts likewise.

Every safety property of the passing runs has its theorem, and so have the
action properties and the refinement.

`ApprovalManagerProofs`: `TypeCorrect`, `ResolvedOnce`, `LifecycleHolds`,
`PermissionsJustified`, `AccessJustified`, `HistoryIsTrue`, `NeverReversed`. The
inductive invariant `IInv` adds two facts to the properties: `Lifecycle`, which
ties a request's place to `pending`, `winner` and `rstep` (without it nothing
forbids a cache entry written by a winner that denied), and `HistoryWasSent`,
needed because `AutoApprove` takes a cancelled request from the history.
`MonotoneStep` says that what justifies a permission never goes away; a grant
therefore stays justified whatever becomes of the cache entry or rule that gave
it. `AnswersInv` adds what a history entry and a caller's answer say of the
winner (`AnswerFits`); what they say of a request that has ended stays true
(`FinishedStays`), so neither an entry nor an answer is ever contradicted.

`ProxyProofs`, the proxy manager: `EntriesNameLiveProxies`, `EventsAddUp`. The
invariant `ProxyInv` is the two properties and that a proxy in use has a socket;
the argument counts the proxies of a socket that were announced as connected and
not yet as disconnected, a set to which a step adds or from which it takes
exactly one. The client tracker: `DisconnectsReach`, `CallsIndependent`,
`NoLeakedCall`, from `TrackerInv`: a call in progress whose sender left is
cancelled, has a signal on the way, or has not asked the bus yet.

`ApiProofs`, signing: `ExitsAreTrue`. The invariant `SignInv` says that whatever is
queued, on the wire or about to be announced is true of the request it names
(the queues are sequences over `TrueMessages`, a set that depends on the state),
and that a request is created once. A message stays true because a decision and
the end of a timer are final (`Final`, `TruthStays`), so one that was queued long
ago still tells git what happened. Login: `NoReplay`, from `NonceKept`: between a
redemption and the token's expiry the nonce is in the record, so a second
`ConsumeJTI` finds it.

`SecretServiceProofs`: `Invariance`, `StoresWhatIsMeant`, `RepliesSealed`, and
`ImplementsGate`, which is the refinement `Spec => GateSpec`. The calls may be sealed
with any key and name any session. `IInv` says what each place of a call implies
about its verdict, its value and what it read (`Placed`): in particular that a
write on its way carries what its client meant, or `Garbage` if the client sealed
it with another key than its session's. Each step maps to a step of the gate or to a stutter:
`CallRefines` takes the handlers' steps one by one, `PerformRefines` the moment
the keyring acts.

`RuleBookProofs`: `BatchesHideNothing`, `RetriesAreGranted`, `AnnouncementsAreRules`,
and the action property `RefreshesKeepScope`. The first is a fact about `Verdict`
for every configuration, without induction: the rule that decides is the one
with the smallest index among those that match (`FirstPlace`); a restrictive rule
that matches an item matches every batch with it, and a permissive one that
matches the batch matches each item (`BatchAndItem`), so the two smallest indices
can be compared. The others rest on `BookInv`: the slice lies in its array, no two
rules in it have the same scope, a decision whose permission lasts and was not
revoked has a rule in the slice that was taken for its own (`Kept`), everything in
any array was made by a decision (`Made`), and the pointer of a refresh leads to
such a place (`Pointed`). That such a rule also covers the request is a lemma about
the matching functions: a rule without empty values that was taken for that of the
request has its attributes, and a rule with one covers at least the first item.
One lemma for each way of the slice to change (refresh, append in place, move
to a larger array, compaction, removal) says what becomes of the arrays.

`PrompterBridgeProofs`: `CallbacksAreOwned`, `CallbacksDoNotLeak`. `BridgeInv` says
that a keyring numbers its paths from one without repetition (`Numbered`, by
counting the unlocks it has begun), where a conversation is while the bridge
handles a call of it, also when its keyring died (`Handled`), that the shell's
prompts are those of their paths, and that the proxy is there from its export on
and as long as the shell prompts (`ProxyOwned`). That a path is haunted is final
for the keyrings that come after (`HauntedStays`), which is why the property can
except it.

`DesktopNotifierProofs`: `MapsAgree`, `PromptsAreAlive`, `EarlyCancelIsQuiet`,
`NoticesAreTrue`. The parts of `NotifierInv` say to whom an ID belongs (`Owned`),
at which places a goroutine holds one (`Showers`, `Enders`, `SlowOnes`), who has
shown what is on the screen (`Screens`), that a suppressed prompt has the handler
that suppressed it (`Quiet`), that a prompt which is recorded after a handler of
the end looked for it is late (`Latecomers`), and that until a handler has looked
the request's entry is its prompt (`Prompts`), so that it will be found. IDs are never reused in the model, and the
proof needs it: see the restart of the notification server below.

`ServiceInstallProofs`: `NothingIsLost`, `RestoresExactly`, `CommandsConverge`,
`NeverRegrabbed`, `DryRunIsTrue`, for any number of commands, faults and edits.
`InstallInv` says which steps belong to which command (`Route`), where the user's
version is unless a torn file was taken for it (`Safe`), that without a disturbance a file is untouched, taken or
moving (`Orderly`), and how far a command, or the last one that returned, is with
the files, the units and the name (`Files`, `UnitFiles`, `Demoted`; the last two allow
for an owner that is still exiting). For the dry
run `Listing` says that what was done, followed by what the files now lead the
command to do, is what was planned; each step takes the head of the second list
to the end of the first, and only the signal is free. The lists are joined with
`++`, which is `\o` under a name that the provers leave alone.

Two definitions changed because a proof attempt failed for a good reason:
`ExitCode` of `SignFlow` and `resolveBackendExec` of `ServiceInstall` had `CASE`s
whose guards overlapped, so the models left open which branch was taken where
the code does not.

Only model-checked: the liveness properties (`EveryRequestEnds`,
`EveryDecisionAnnounced`, `DisconnectCancels`, `ShutdownEndsAll`, `ClickResolves`,
`DeliveredExits`, `UnlockCompletes`), since the prover has no rules for fairness
and `ENABLED` here, and `RulesAgree` of `MCApprovalManager`, which compares constants.

## Disagreements with comments and documents

The violation run `sign_lost` and its finding in `PROJECT.json` are kept as a run.
Others were found with the same modules while they were written and are
recorded here without one. The properties say where they allow for them.

Requests and signatures:

* `manager.go:436`: when the timer or the client's departure is ready together
  with an approval, `select` may take the error, although the approver was told
  of success (the comment at 332 says approved means no error). In the model
  `WaitTimer` and `WaitCtx` are enabled when `winner[r]` is an approval.
* `approval/gpgsign.go:101`: in the same way a resolved gpg_sign request may be
  announced as expired as well; `SignFlow` shows a client that takes the expiry
  for its answer.
* `sshagent/server.go:142`: SSH clients have no bus name and share the cache
  entries of the empty sender. `SenderOf` allows two callers of one sender, and
  `GrantsJustified` speaks of senders, as the code does.
* `sshagent/server.go:48`: `Run` waits for the open connections, which the end of
  the context does not close, so the daemon does not stop while an ssh client
  is connected (the comment at 38 says it blocks until the context is
  cancelled). `sshagent/proxy.go:89` waits without a context: a client that left
  does not cancel its request.
* `api/gpgsign.go:190`: when gpg fails on the path that asks nobody, the thin
  client exits with 0 and an empty signature (`gpgsign/run.go:27` promises gpg's
  own exit code).
* `docs/REQUIREMENTS.md:146` and `README.md:163` say that concurrent requests are
  batched into one prompt; each request is announced on its own.

Rules:

* `manager.go:817` says that all entries of the rule's attributes must be in the
  request's; a pattern that matches the empty string (`*`, or an empty value)
  also matches an absent key. `manager.go:804` says "same keys and values";
  `attributesEqual` takes an absent key for an empty value, so a decision may
  refresh another, wider rule.
* `manager.go:702`: the event of a refreshed rule is read through a pointer after
  the unlock; after a compaction it shows another rule (`AnnouncedMade` asks only
  that it be one the user made). The observer marshals it field by field without
  the lock (`websocket.go:242`), while `manager.go:748` and 855 copy rules in place: an
  event read during such a copy may mix two rules into one nobody made, and
  `AnnouncedMade` excepts it (`Mixed`).
* `manager.go:681`: the rule of a batch is made from its first item, and
  `autoApproveCoversAll` (785) grants a batch only if every item is covered. Someone
  who auto-approves a batch with items of several collections or attributes is
  asked again at every retry; `RetryGranted` speaks of the requests for which their
  rule speaks (`Rulable`), which excludes such a batch. A batch whose rule was taken
  for one with an empty value may lose its permission in the same way.
* `config.go` calls attribute matching an "exact subset match"; values are globs.
  The comment on process matching asks for at least one field; a rule without
  any matches every process. An executable pattern `*` matches one that is not
  known.
* `manager.go:663`: an item addressed through an alias has the alias's name as its
  collection, so a rule for the collection's own name does not match it.

Proxy, sessions and prompts:

* `tracker.go:131`: a call that arrives after `close()` writes to a nil map and
  panics (the comment at 112 promises every caller a context).
* `session.go:114`: a read under way when `CloseAll` runs finds no cipher and is
  answered in plaintext (compare the comment at 110). `SealedForClient` allows for
  closed sessions.
* `session.go:148`: a value that a client sealed with another session's key and sent
  on a plain session is stored as ciphertext; on an encrypted session a wrong key
  passes the padding check about once in 256 times. `StoredAsMeant` names the
  client's own mistake as the only way.
* `tracker.go:157`: an error of `GetNameOwner` that does not mean that the client left
  (a timeout of the bus) cancels its call as well.
* `proxy/manager.go:335`: nothing waits for the proxies on shutdown, so the process
  may exit before their connections are closed and their ends announced.
* `prompter.go:108`: the bridge owns its name before its object is exported (117);
  a `BeginPrompting` in between is answered with an error and the unlock fails.
* The template of the backend unit (`install.go:59`) has no `Restart=`: a keyring that
  died comes back by D-Bus activation on the private bus, or not at all.
* `prompter.go:96` and 68 say that the fallback prompter is never activated; the
  front name is requested (`proxy.go:147`) before the bridge owns the prompter's
  name (`proxy.go:168`), and an unlock in between starts the fallback.
* `prompter.go:156`: a callback proxy that a dead keyring left is kept for the
  next keyring, which uses the same path, and that unlock hangs. `prompter.go:137`:
  a `BeginPrompting` that fails leaves its proxy exported.
* `proxy/manager.go:307`: the goroutine of a proxy that ended deletes the entry
  of the proxy that replaced it (`RemoveEntry`). That proxy is no longer listed
  or stopped by a remove; `ShutdownEndsAll` shows that shutdown still ends it.
* `api/auth.go:228`: in the second in which a token expires its nonce is pruned
  while the token is still valid, so it can be redeemed again;
  `NoReplayInWindow` therefore speaks of the time before the expiry.
* `notification/desktop.go:539`: a request that ends between the firing of its timer
  and the recording of its prompt's ID leaves the prompt on the screen; its
  buttons answer `ErrNotFound`. `NoDeadButton` allows it for exactly these (`late`).
* `notification/desktop.go:562` and 622: when closing a notification fails, its
  entries are gone already and it stays, with buttons that lead nowhere; a
  notice of a slow upstream likewise (`slow_upstream.go:47`). Both are `stuck`.
* `notification/desktop.go:57` says the notifier reconnects when the connection
  drops; it does so in the next `Notify` or `Close`, and clicks until then are
  lost. A notification server that is started again reuses IDs, and the entries
  of old prompts then lead to new ones.

Installation:

* `install.go:437` and `gnomekeyring.go:108`: a mask or shadow whose write was cut
  short (a full disk, a crash) is not recognised as ours. The next installation
  takes it for the user's and renames it over the backup (`install.go:426`,
  `gnomekeyring.go:103`), which destroys the user's only copy. `NothingLost` names
  this as the one way. A configuration that was cut short is torn as well; an
  installation that cannot read it gives up before it changes anything.
* `install.go:497`: nothing waits for the exit of the signalled owner. When that is
  the dispatcher itself, the start of its unit does nothing while the old process
  is still shutting down (`main.go:651`; it may be held up by an ssh client, see
  above); it then exits with 0, `Restart=on-failure` leaves it down, and the service
  is inactive after an `Install` that returned no error. `StatusConverges` allows
  `inactive` after exactly that.
* `README.md:87` and `docs/REQUIREMENTS.md:264` say that uninstalling restores
  stock behaviour exactly. After an installation whose write failed right after
  the backup there is no mask, `unmask` returns at once (`install.go:454`), and the
  user's file stays in the backup. A backup left this way also comes back after
  the user has made and deleted a file of his own.
* `install.go:197`: a second installation on a stock GNOME system without gopass
  fails after it has stopped the dispatcher, which leaves the name masked and
  without owner.
* `backend.go:22`: a second installation detects the dispatcher as the provider
  and chooses gopass, while gnome-keyring stays demoted with the secrets
  (`plan.go:150` says that they move to the private backend).
* `status.go:84` advises to reinstall; that does not converge when the provider is
  not gnome-keyring.
* `try.go:45`: the end of a trial removes an installation made meanwhile.
* `install.go:161`: the configuration is written first and disagrees with the
  units when a later step fails.
* `plan.go`: no signal to the dispatcher is listed, although
  `stopDBusActivatedService` signals whoever owns the name; `PlanExact` lets the
  signal be missing in either list.

## Not modelled, and the plan

Done, in this order: the approval manager with its resolver and the tracker that
cancels its waits; the Secret Service handlers as an implementation of
`KeyringGate`; proxies, login, desktop, signing from end to end; trust rules and
the slice of auto-approve rules; prompt forwarding; installation;
slow-upstream notices.

All safety and action properties of the runs are proved. What the proofs could
still be carried to:

1. an abstract specification of signing (one decision, one exit) that `SignFlow`
   implements, in place of `ExitTruthful` alone;
2. a specification of the book as a set of scopes with their ends, without
   slices and arrays, that `RuleBook` implements;
3. the parts of the liveness arguments that are safety: a rank that every fair
   step lowers, as an action property.

Left out of the model, and why:

* the SSH agent front end: one gated call per connection, which
  `ApprovalManager` has as a request without sender; its two hazards are above;
* the contents of a prompt: label and attributes are read before the approval
  and the secret after it (`item.go:333`), and nothing compares them again;
* the growth of the session table, from which only `Proxy.Close` removes entries
  (`session.go:92`);
* what the properties leave out by their words: the age of a cache entry and two
  clients that share an item (`GrantsJustified`), which entry the history drops,
  a click that finds the channel full, the second in which a token expires and
  a restart within its lifetime, and a reply on a session that `Proxy.Close` has
  dropped;
* a restart of the notification server and the bus: the handler does not react
  to either, so there is nothing to check beyond the loss recorded above;
* the browser's mirror of requests (`websocket.ts`), which receives snapshot and
  events in any order: TypeScript with a view of its own, a candidate for a
  module;
* request routing and response formats, reads of `/proc` and peer credentials,
  cryptography, configuration parsing, logging, the companion user's
  provisioning commands, and test code. They hold no state that several steps
  share.
