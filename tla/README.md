# radix-web3.js in TLA+

Specifications of the parts of this repository that keep state, meet other
processes, or have to survive a failure, with the TLC runs that check them on
small instances and the TLAPS proofs that hold for every instance.

    tlc -workers 2 -config MCSigning.cfg MCArtifactWorkflow.tla
    tlapm ArtifactWorkflowProofs.tla

## The system

| part | state it keeps | operations | how it meets the others |
|---|---|---|---|
| `packages/cli`, transaction workflow | one artifact directory per transaction: `prepared.json`, `signing-requests/*.json`, `signatures.json`, `notarizedTransaction.hex`, `submitResult.json` | `tx prepare`, `add-signatures`, `notarize`, `submit`, `status`, `list` | processes share only files; the Gateway previews, takes and reports transactions; signers and the notary answer request files by hand |
| `packages/cli`, subintents | a partial transaction's directory | `subintent prepare`, `subintent build` | same files and signers |
| `packages/cli`, account reads | none | `account fungibles`, `account nfts`, at the version of the status | `packages/gateway` |
| `packages/cli`, config, llm | none | parsing, rendering | the commands |
| `packages/transaction-stream` | `Ref` of `ConfigService`: cursor and page limit | one unfold step per pull | Gateway; the application shares the `Ref` and may restart the stream |
| `packages/tx-tool` | none between calls | build, sign, submit, poll, with lifecycle hooks | Gateway, signers, hooks of the application |
| `packages/core` | none between calls | build, sign, submit and poll a transaction; `VerifyTransaction`; paginated token reads | Gateway through a fetch adapter; the application aborts by a signal and decides whether to submit again |
| `packages/connect` | relay session, pending interactions | wallet requests | relay server, wallet |
| `packages/gateway` | none between calls; during a read the version of its first answer, cursors, items | balances, stores, holders and the place of a non-fungible, each by several calls; retry on a rate limit | Gateway, whose ledger moves on between the calls |
| `packages/sbor`, `packages/shared` | none | decoding, schemas | used by the others |
| `packages/agent-toolkit` | none | adapters | gateway, tx-tool |
| `examples/x402` | settlement records and the keys of settled payloads, in memory | HTTP middleware that demands a payment, settles it through a facilitator and serves a resource | Gateway; requests share the records |

What is hard in it:

* the workflow has no lock. Commands of several processes interleave between any
  two file operations, an `await` (a Gateway preview) lies between reading
  signatures and using them, files are truncated before they are rewritten, and
  a process may stop anywhere;
* a status answer may be recorded long after it was given;
* a submission may reach the network although the call failed;
* the stream advances its cursor before it hands out a page, and the cursor
  outlives the run;
* a submission of `tx-tool` races the commit of its transaction with its retries and
  its timeout, may share the intent with another one, and may end by the death of a
  hook after the network was given the transaction;
* relay requests share a session and a timeout that only the polling loop looks
  at; the payment middleware looks its cache up before it awaits a settlement;
* a read of the Gateway takes many calls, several at a time, and the ledger moves on
  between them: only the state version in each call keeps the parts together;
* a poll returns statuses that are not the end, a signal may fire while nothing
  listens to it, and a failed submission may have arrived.

What makes each part correct:

* workflow: nobody is asked to sign what is not fully authorized, nothing
  unauthorized is broadcast, nothing recorded is false, a half-made artifact is
  never taken for a complete one or written over;
* stream: ascending, without repetition, without omission except a page lost
  with a run, and never stuck;
* submission: the application knows of whatever reaches the network, and what it
  is told of the outcome is true, or says that the outcome is open;
* payment middleware: the resource is released for a committed payment only, a
  payment that was served is not submitted again and its payload served again, every
  payment is answered, and nobody is charged for a payment that is not exact;
* wallet requests: a request returns the answer to its own interaction or an error,
  and ends; what an error blames really happened;
* Gateway reads: what is returned was held at one version, or, when no version was
  named and the addresses did not fit in one chunk, at least held while the read was
  under way; nobody who stood still is missed; every read ends;
* core: an application that asks `VerifyTransaction` before it submits again does not
  have its wish carried out twice, and an aborted poll asks no more.

## Modules

### `AuthorizedTransaction` and `ArtifactWorkflow`: the five commands on one directory

`AuthorizedTransaction` is what the people behind an artifact may rely on, whoever runs
which command when: the notary is asked to sign what everybody asked has signed, what is
broadcast has been signed by all of them, the network decides once and on what its notary
signed, and nobody is told of a decision that was not made. Each command of the workflow
is, step by step, one of these actions or none (`KeepsAuthority`); `offered`, `broadcast`,
`decision` and `claimed` are read off `published`, `sent`, `ledger` and the record.

`PROJECT.json` maps each definition to its lines. A process `p` is an operating
system process of `rdx`; `pc[p]` tells where in its command it stands.

| variable | in the code |
|---|---|
| `dir` | the directory `<root>/<transactionId>` exists (`artifacts.ts` 122) |
| `file[f]` | `absent`, `torn` (truncated and not rewritten: does not parse) or `written` |
| `reqFiles` | the request files that prepare has written; a torn request file counts as not written, and nobody reads one before `prepared.json` lists it |
| `notaryListed`, `notaryHash` | `signing-requests/notary.json`: whether `prepared.json` lists it and the hash in it |
| `intentSigs`, `notarySigs` | the entries of `signatures.json` |
| `status`, `attempts` | `networkStatus.status` and `attempts` of `submitResult.json` |
| `known`, `buf`, `bufNotary`, `answer`, `trail` | what a command has read and carries over an `await` or a write |
| `published`, `sent`, `answers`, `ledger` | the outside: hashes offered to the notary, broadcasts, answers of the Gateway, outcome on the network |

Each command is cut where another process can tell the difference:

* `tx prepare`: everything up to the exclusive `mkdir` (`PrepareMkdir`), one
  step per request file, then `prepared.json` truncated and filled, last.
* `tx add-signatures`: read the requests, then (later) read `signatures.json`,
  check all imported entries and merge, then truncate and fill. A refused entry
  refuses the import (`AddRefuse`).
* `tx notarize`: read and check, await the preview, then rewrite the notary
  request and `prepared.json`.
* `tx submit`: look at `submitResult.json`, read and check the rest, write the
  hex, call the Gateway (which may fail and have taken the transaction all the
  same), poll once, write the record.
* `tx status`, and `tx list` with an update for each artifact in turn: ask the
  Gateway, then read and rewrite the record.

Abstractions, each with its reason:

* A signing request stands for scope, account and hash, which prepare fixes
  together; a signed intent's hash stands for the set of entries attached,
  because nothing else in it varies; an entry's signature stands for whether
  Ed25519 accepts it (placeholders are among those it does not).
* Reads that follow one another with no write and no network call between them
  are one step, except where a file is read early and used after another
  process may have replaced it. `RequestsReadable`, `SubmitRead` and
  `NotarizeRead` are such steps. They combine versions of files that may differ
  by one command in an execution; the safety theorems do not use which hash a
  process took for the listed one.
* Files that no command reads back (`signedTransactionIntent.json`, templates,
  manifests, analyses) have no state. Intent and analysis files are written
  before `prepared.json`, like the requests, and share their fate.
* Attempts carry an identity instead of a date, so that a set stands for the
  list. Statuses other than `Unknown`, `Pending`, `Submitted` and the two
  committed ones behave as `Pending` does in every branch of the code.
* A command that fails before its first write is no step.
* The notary file declares a key, as the `prepare` command requires.

Outside the repository's code and marked external: `Crash`, `Commit`,
`WellNotarized` (the network's own check) and `GatewayAnswers`: a commit, once
reported, stays; before it, the Gateway knows nothing or reports it pending.

Two conditions on the use of the commands say when promises hold that the code, which
takes no lock, does not keep in general. Neither restricts the model of the code.

* `SerialSpec`: no two imports are between reading and writing `signatures.json`, no two
  submissions or status queries between reading and writing `submitResult.json`, and none
  is cut off between truncating its file and writing it. Everything else may interleave
  and stop. One user who runs one command after the other meets it (`OneUserIsSerial`).
* `NotarizedLastSpec`: once a `tx notarize` has read the signatures, `signatures.json`
  gains and loses no intent signature any more.

### `OrderedFeed` and `TransactionStream`

`OrderedFeed` is what a consumer may rely on: from where the feed begins, user
transactions arrive in ascending batches, none twice, none passed over unless
a batch is lost as a whole; while something is owed the feed moves.

`TransactionStream` is `streamer.ts`. `Pull` reads the configuration once,
`AskStatus` asks where the ledger stands when no version is configured, `Fetch`
is the Gateway call, `Advance` computes `nextStateVersion` and updates the
`Ref`, then either `Wake` ends the sleep or `Emit` hands out the page. `Stop` is
the end of a run at any point (every error branch ends the stream, and an
application may interrupt it); `Restart` runs the stream again on the same
`Ref`. `Commit`, `Reconfigure` (page limit) and `Restart` are the environment.
It is assumed that the Gateway returns the first user transactions at or above
the version asked for, ascending, at most a page of them, and an empty page for
a version above its ledger. That is how the code uses it. The retry on a rate
limit inside the Gateway client changes nothing here and is left out.
The refinement mapping is the identity on the ledger, `begun`, `delivered` and
`lost`.

### `SubmissionPromise` and `TransactionLifecycle`

`SubmissionPromise` is what an application may rely on: a transaction is announced
before the network has it, "accepted" means that the network has it, and a verdict
is the fate of the intent (`success`, `permanent`) or leaves it open.

`TransactionLifecycle` is `submitTransaction` of `transactionHelper.ts`, with any
number of concurrent calls that share the network only.

| variable | in the code |
|---|---|
| `pc[c]` | where the call is; the labels `onSubmit` to `onSuccess` are the hooks |
| `intent[c]` | `intent`, by what its hash covers: nonce and epochs; none before it is built |
| `polls[c]` | unresolved answers so far, which `Schedule.recurs` limits |
| `told[c]` | the end of the poll: success, `permanent: true`, or `permanent: false` (`open`) |
| `heard[c]` | the hooks called, in order |
| `epoch`, `sent`, `succeeded`, `failed`, `rejected` | the network: what the Gateway was given, and the fate of it |

`Start` is the balance check; `BuildIntent`, `BuildIntentV2` and `UseIntent` are the
three ways to an intent; `Sign` is signer and compilation; then `OnSubmit`, `Send`,
`OnSubmitSuccess`, the poll (`PollSucceeds`, `PollFails`, `PollAgain`, `PollEnds`), and
`OnSuccess` or `OnStatusFailure`. `SendFails` is a failed Gateway call, after which the
network may have the transaction all the same.

Abstractions, each with its reason:

* A version 1 nonce is random, so each call has its own; a version 2 intent has
  the discriminator 0, so that two calls with one manifest in one epoch have the
  same intent (`transactionHeaderV2.ts` 42), and one of them reports success for
  the commit of the other. No document says otherwise.
* All hooks are provided. A hook that is not changes nothing but `heard`.
* A hook cannot fail by its type, but it can die, as a test of the package does;
  then the call ends there.
* `GiveUp` stands for every failure before `onSubmit`, `PollEnds` for the three ends
  of a poll without an answer: retries used up, a Gateway error, the timeout.
* The Gateway may lag behind the ledger: `PollAgain` is possible whatever the fate
  of the intent. A fate it reports is the real one.
* Interruption of the calling fiber is not modelled.

The network (`NextEpoch`, `Commit`, `Reject`) is external: it commits an intent
within its epochs, at most once, and what it has settled stays. The refinement
mapping is the identity but for `stage`, which is read off `heard` and `told`.

### `PaidAccess` and `PaymentMiddleware`

`PaidAccess` is what a payment gate promises: only a presented payment that is in
order is made, and access is granted for a payment that was made.

`PaymentMiddleware` is the Hono middleware of `examples/x402` with
`createSponsoredSettlement` behind it and `createFacilitatorSettlementBackend` behind
that, as the types of the three fit together. (`serverMain.ts` leaves the backend out
and settles by a mock or not at all; that wiring keeps no state.)

| variable | in the code |
|---|---|
| `settlementRecords`, `payloadSettlementKeys` | the two collections of the middleware (`paymentMiddleware.ts` 28, 29) |
| `pc[r]`, `payload[r]`, `reply[r]` | where a request is, the `transaction` text it presented, the answer to it |
| `submitted`, `committed`, `rejected` | the root transactions, by the request that made them |
| `restarts`, `servedNow`, `before` | history: restarts, payloads served since the last one, and those served when a request came |

`AskTerms`, `PresentGarbage` and `Present` are what a request may bring; `Validate`,
`Preview`, `SubmitRoot`, `Observe` (with `Record`) are the settlement; `SubmitFails` and
`SettlementFails` its failures and defects, which the middleware answers; `Serve` is
`next()`. There is an `await` between any two of them, so requests interleave there.
Looking both maps up is one step and writing them is one step, as nothing is awaited
in between.

Abstractions, each with its reason:

* The route has fixed terms, so two cache keys differ in the subintent only.
* A payload is the text a client presents. Several of them may carry one subintent:
  other signatures, other spelling of the bytes.
* The checks of `validateExactPaymentSubintent` read the payload only, so they are
  one set, `Exact`.
* The preview of a root transaction succeeds only while its subintent is unspent;
  the network commits a subintent once at most (external).
* `SettlementFails` stands for a payload that does not decode, one that is not exact,
  a failed preview, giving up the wait for a commit, and a defect. They get one answer.
* A settlement that succeeds without a subintent hash, and a middleware without a
  settlement handler, do not occur in this composition.
* The mapping to `PaidAccess` is the identity on payloads; `paid` is what committed
  requests carry, and `access` is read off the reply.

### `WalletExchange` and `ConnectRelay`

`WalletExchange` is what a dApp may rely on: an answer is the wallet's answer to that
interaction, "refused" means that an error was sent, "mismatched" that an answer to
another interaction was.

`ConnectRelay` is `RadixConnectRelayTransport.ts` with its relay client. The requests of
a transport share its session and its keys.

| variable | in the code |
|---|---|
| `pc[i]`, `result[i]` | where `sendRequest` of interaction `i` is, and how it ended |
| `response[i]` | `response[0]` of the loop: none or one |
| `timers`, `aborted` | the running timeouts and the aborted signals |
| `relay` | the responses the relay holds for the session |
| `shown`, `posted` | deep links handed to the application; what the relay has ever held |

`check` is the head of the polling loop, `asking` the call, `pause` the second of sleep
after it. `Respond` takes any one of the relay's responses, since their order is the
relay's; `HandOut` lets the relay keep what it has handed out or drop it, since the
repository does not say which; `GetFails` is a failed call, which may lose what it
fetched; `RespondGarbage` is a reply that is no list of responses, on which the code
throws. `Receive` is everything after the loop: clear the timer, look for an error,
decrypt, compare the interaction id (`Verdict`).

Abstractions, each with its reason:

* An answer is named by the interaction it answers. A relay error carries no id in the
  code and none here.
* Decryption succeeds when the salt, the dApp definition address, is that of the
  request; keys are those of the transport.
* `Earlier` are interactions answered in an earlier use of a session id and key that the
  application supplies.
* The mapping is the identity on `shown` and `posted`, and `outcome` is read off
  `result`; a failed decryption counts as a mismatch, for only another's answer fails.

### `GatewayLedger`, `AtomicRead`, `LedgerReads` and `HolderReads`

`GatewayLedger` is external: a ledger of state versions on which things (resources,
non-fungibles, entries of a store) are held by accounts (or stores), move, are minted and
are burned for good. A request is answered at the version it names, or at the current one.

`AtomicRead` is what a caller of a read may rely on. A read is *exact* when it names a
version or has one chunk of addresses; then all that it returns was held at one version
within its time. Any other read only promises that each thing it returns was held by
that address at some version within its time.

`LedgerReads` has the reads of what addresses hold, and `HolderReads` the two that ask
where things are.

| variable | in the code |
|---|---|
| `kind`, `asked`, `size`, `at` | which read it is; `input.addresses`; the configured chunk size; `input.at_ledger_state`, 0 when it is undefined |
| `stage` | how far it is: status of the ledger, details of the chunks, further pages, data |
| `seen`, `pin` | `ledger_state` of the answer for each address; `paginationState` |
| `cursor`, `got` | `next_cursor` and items of each address, the items with the version they were answered at |
| `described` | ids or keys whose data was read, with the version of the data |
| `since` | history: the version named, or current when the read began |
| `errand`, `holders`, `rank` | the read of holders: the map by `holder_address`, and the last holder of the page |
| `nonFungible`, `nextVersion`, `address`, `from` | the walk: `nextStateVersion`, `address`, and the version it began at |

`BeginRead` is a call by an application, `BeginAtStatus` with `AccountStatus` or
`TokensStatus` a call of the CLI or of core, which ask for the current version first.
`FungibleDetails` and `NftDetails` answer one chunk, in any order among those that
`Effect.forEach` has started; `FungiblePin`, `NftPin` and `KeysPin` take the version of
the first result; `FungiblePage`, `NftPage`, `KeysPage`, `TokensPage` follow a cursor;
`NftData` and `StoreData` read a chunk of data; `DataEnd` puts the results together.
`CallFails` is every error but a 429, which is waited out and asked again and so changes
nothing. Two calls end in a defect: `GetFungibleBalance` with no address
(`stateEntityDetails.ts` 42) and `GetKeyValueStore` on an empty store
(`getKeyValueStore.ts` 51) read `res[0]` of an empty list (`died`).

Abstractions, each with its reason:

* Page limits are the Gateway's to choose: a page may end after any of its items, so the
  model has every page size at once.
* The pages of resources, of vaults and of ids of one address are one cursor: all are
  asked for at `pin`, and the property does not tell a vault from a resource. The data of
  an address is likewise one set that is read by parts.
* The Gateway gives `total_count` with every list that has a `next_cursor`, above zero when
  there is an item. The schema makes it optional, and without it the code reads no further
  page of resources, vaults or ids of non-fungibles (`getNftResourceManagers.ts` 85, 104 and
  179, `entityNonFungibleIdsPage.ts` 48) and returns what it has; `OneVersion` would not hold.
* A resource that is spent stays listed with the amount zero and is filtered out by the
  code; other amounts are not told apart. Filters by resource address and opt-ins only
  choose what is shown.
* A timestamp in `at_ledger_state` is a version that the Gateway finds, so a version
  stands for it. A cursor that the application supplies is not modelled.
* Holders come in the order of what they hold (external). The Gateway's cursor is a place
  in that order, and a page is of the version current when it is answered, since
  `getResourceHolders` takes no version.

### `CoreClient`

`submitTransaction` of the web3 client, `pollTransactionStatus` and `VerifyTransaction`.

| variable | in the code |
|---|---|
| `coreStage[c]`, `intent[c]` | where a call is; its intent, by what the hash covers |
| `retry[c]`, `aborted` | `retry` of the poll; calls whose `abortSignal` has fired |
| `known`, `advice` | ids the application has been handed, and what it was told of them last |
| `fate` | an intent on the network |

`SignAndNotarize`, `Send` and `SendFails` are the chain of promises of `submitTransaction`;
`GetStatus`, `Wake` and `PollAgain` the poll; `SleepStart` the check of the signal at the
start of a sleep and `Abort` the signal, with the listener that ends a sleep at once.
`Verify` and `VerifyFails` are the answers of `VerifyTransaction`.

Abstractions, each with its reason:

* The nonce is random, so an intent is a call's own unless the application supplies the
  header; `Supplied` is such a header, and all calls that use it have one intent.
* The application is external and wants one thing done: it submits another intent only
  when every intent before was handed to it and found `CommittedFailure` or
  `PermanentlyRejected`. A call that fails before the id is returned leaves it without the
  id, so it may only repeat a supplied intent.
* Handlers of the application's own are not modelled, `VerifyTransaction` has none here.
* The Gateway may lag behind the network, and a final status it reports is the real one.

### `MC...` modules

`MCArtifactWorkflow` adds the symmetry of processes, used in the two runs with
two processes and invariants or a box property over all processes. `MCGatewayClients`
puts `LedgerReads`, `HolderReads` and `CoreClient` on one ledger; a behaviour uses one of
the three, as none of them knows of the others, and core, which does not look at the
ledger, is used on one that does not change.

## Runs

| run | question | bounds |
|---|---|---|
| `artifact_signing` | are files and notary requests always backed by verified signatures? | two processes with crashes, one request, one request of another transaction, two keys |
| `artifact_submit` | is every broadcast authorized and every record true, and does the workflow implement `AuthorizedTransaction`? | two processes with crashes, all commands, three Gateway answers |
| `artifact_serial` | when neither imports nor recordings overlap and none is cut off in its write, is anything recorded lost, or a success submitted again? | two processes with crashes, two requests, one key, four answers |
| `artifact_stale_notary` | violation, see below | one process |
| `artifact_resubmit` | violation, see below | two processes, five answers |
| `transaction_lifecycle` | is every verdict true and heard, and everything sent announced, in time? | two calls, one version 2 manifest, one intent that may be supplied twice, three epochs, one retry |
| `payment_middleware` | is the resource released for payments only, is a served payment never submitted again and its payload served again, and every payment answered? | three requests, two payloads of one subintent, one that is not exact, one restart |
| `connect_relay` | does a request only return its own answer, end, and blame what happened? | two interactions of one dApp, one of another dApp from an earlier use, all responses |
| `connect_timeout` | violation, see below | the same |
| `gateway_clients` | is an exact read of one version, data of what is held, no steady holder missed, a burned thing traced, nothing submitted twice, and does all that is begun end? | two accounts, two things, three versions, chunks of one or two, two calls at a time; two calls of core with two polls each |
| `gateway_split_read` | violation, see below | the same ledger, chunks of one |
| `transaction_stream` | order, completeness, bounded loss, progress, refinement | ledger of 5 versions, page limits 1 and 2, one ended run |

Why these are enough to meet the hard cases: two processes give every pairwise race
between two commands; three answers give a failed call, a submission with its poll and a
late status answer. In `artifact_signing` and `artifact_stale_notary` one request and two
keys give three sets of intent signatures, hence a stale and a fresh notary hash.
`artifact_submit` and `artifact_serial` have one key and so one such hash: with a second
one all five commands of two processes are beyond the time a run may take, and that a
broadcast is authorized under several hashes rests on `BroadcastCorrect` and
`WorkflowKeepsAuthority`, which hold for any keys. Five versions give full,
partial and empty pages, a page on either side of a restart, and ledger growth
while a page is under way. Two calls and a shared manifest or supplied intent give
a commit that answers both calls, or comes after one has given up; three epochs let
an intent expire while the signer is asked. A foreign request is what an import must refuse.
Three requests give two concurrent settlements of one payment and a retry after it, in
the same and in another payload, with a restart between any two steps.
Two interactions of one dApp give an answer taken by the wrong request, a third from
an earlier use one that does not decrypt; the relay run has no bound but these sets.
Two accounts in chunks of one and three versions give a first chunk before a transfer and a
second one after it; two things give a further page, and pages of every length, after a
transfer, a mint or a burn between any two calls. Two calls of core, one of which may
repeat the intent of the other, give a submission after a lost answer and a poll beside it.
`MaxAnswers`, `MaxVersion`, `MaxStops`, `MaxEpoch` and `MaxRestarts` are the only bounds
in guards.

The workflow runs do not check for deadlock: a `prepare` that stops half-way
leaves a directory on which no command is enabled, and that is what the code
does. In the lifecycle run all calls, and in the payment run all
requests, may be done; so may all clients of the Gateway in its runs. The stream and
relay runs check for deadlock.

Each property of a passing run also fails when a definition is replaced by the
faulty variant named in `PROJECT.json`.

### What the violations show

* `BroadcastIsWhatNotarySigned`: `tx submit` takes the first notary entry and the
  intent signatures of the moment, and never compares the hash of the one with
  the other (`submit.ts` 262). `CONTEXT.md` 561 expects a wrong hash to be caught
  before broadcast. Reached by one user: notarize, add the notary's entry, add
  one more intent signature, submit. The network refuses the transaction. When notarizing
  comes last the property holds, for any processes (`NotarizedLastIsWhatIsSent`).
* `RefusesAfterSuccess`, with two processes: `tx status` replaces the recorded
  status by an answer obtained earlier (`status.ts` 127), and `tx submit` looks
  only at that status (`submit.ts` 172), so a submission starts although a
  success is among the attempts. `CONTEXT.md` 373 says it is refused. When recordings
  do not overlap the property holds (`artifact_serial`, `SerialRefusesAfterSuccess`).
* `TimeoutEndsRequest`: the timeout sets a flag that only the polling loop looks at, and
  the loop starts after `handleRequest` has returned (`RadixConnectRelayTransport.ts`
  107). `connect.mdx` 80 says that the transport times out after five minutes; with a
  handler that stays pending it does not. From the loop on it does (`PollEnds`).

* `BalanceWasReal`: without a version every chunk of `StateEntityDetails` is answered at a
  version of its own, and only that of the first is kept (`stateEntityDetails.ts` 42), at
  which `getFungibleBalance.ts` 81 to 88 follows the cursors of all addresses. The balance
  of an address in a later chunk is then put together from two versions and may be one that
  it never had. `gateway.mdx` 93 speaks of the balances of one or more entities, and the
  test of the package (`getFungibleBalance.test.ts` 68) expects pages to be asked for at the
  version of the details they continue. With one chunk, or a version, the property holds
  (`OneVersion`); in any case nothing is returned that was not held at all (`KeepsPromise`).

More differences that no run states:

* an entry for the notary is verified with the key that it carries itself
  (`signatureImport.ts` 134) and never compared with `prepared.notaryPublicKey`, though the
  CLI's `CONTEXT.md` 144 speaks of expected public keys; the network refuses it
  (`WellNotarized`);
* a served subintent in another payload text is not found in the records
  (`paymentMiddleware.ts` 54), and is refused by the settlement. The example's
  `CONTEXT.md` 187 and 188 say that a retry can serve the resource without resubmitting
  the same signed subintent, from records indexed by the settlement cache key, which does
  not contain the text. `RetryIsServed` says what the code keeps of it: not resubmitted in
  any text, served in the same one;
* `tx submit` whose poll fails writes no `submitResult.json` (`submit.ts` 313), so that
  the attempt is not recorded, though the CLI's `CONTEXT.md` 373 says that attempts are;
* core's poll returns `Unknown` and `LikelyButNotCertainRejection` at once
  (`pollTransactionStatus.ts` 74), on which its own `verifyTransaction.ts` 15 to 22 asks
  for another poll.

`CONTEXT.md` 366 of the CLI also says that `tx notarize` does not mutate the prepared
transaction file; it appends the notary request and template to it
(`notarize.ts` 472), and the model does the same.

## Fairness

The workflow has none: a user may never run the next command, so nothing must
happen. The stream has weak fairness on its own steps (a fiber that can run
does, a sleep ends, the Gateway answers or its failure ends the run) and on
`Restart` (otherwise nothing is promised after an ended run). `Stop`, `Commit`
and `Reconfigure` have none. A submission has weak fairness from the poll on: the
timeout ends every poll (`transactionStatus.ts` 102), and a hook is assumed to
return. A signer may never answer, so nothing is promised before.
A payment request has weak fairness on its settlement and on serving: the server's calls
return, if only with a failure. Clients, the network and restarts have none.
A relay request has weak fairness on the steps of its loop (relay calls return, sleeps
end) and on its timer; `handleRequest` belongs to the application and has none, and a
wallet may never answer.
The clients of the Gateway have weak fairness on the steps they take of themselves: a call
is answered, if only with an error, a fiber that can run does, and a timer fires. A Gateway
that answered 429 for ever would keep a read waiting, and is not promised anything. The
signer, the application and the ledger have none. `AllEnds` needs no more, because cursors
only move on, each round of holders goes below the last one, versions only go down and
retries only up.

## Proofs

TLAPS checks, for any sets of processes, requests and keys and any bounds:

| theorem | of |
|---|---|
| `TypeCorrect` | `TypeOK` |
| `FreshPreparation` | `PrepareStartsFresh` (action property) |
| `PreparedCorrect` | `PreparedIsComplete` |
| `NotaryCorrect` | `NotaryOnlySeesAnsweredIntents` |
| `StoreCorrect` | `StoredSignaturesAnswerRequests` |
| `BroadcastCorrect` | `BroadcastIsAuthorized` |
| `RecordCorrect` | `RecordIsTrue` |
| `WorkflowKeepsAuthority` | `KeepsAuthority`: the five commands implement `AuthorizedTransaction` |
| `SerialKeepsSignatures`, `SerialKeepsAttempts`, `SerialRefusesAfterSuccess` | `SignaturesKept`, `AttemptsKept` (action properties) and `RefusesAfterSuccess`, of `SerialSpec` |
| `OneUserIsSerial` | one process that is not cut off meets `SerialSpec` |
| `NotarizedLastIsWhatIsSent` | `BroadcastIsWhatNotarySigned`, of `NotarizedLastSpec` |
| `StreamTypeCorrect`, `StreamInOrderOnce`, `StreamSkipsNothing` | the stream's type invariant and its two safety invariants |
| `TypeCorrect`, `VerdictsCorrect`, `SentAfterAnnounced`, `SentInTime` of `TransactionLifecycleProofs` | the four invariants of the submission |
| `LifecycleKeepsPromise` | `KeepsPromise`: the submission implements `SubmissionPromise` |
| `TypeCorrect`, `ReleaseCorrect`, `RetryCorrect` of `PaymentMiddlewareProofs` | the three invariants of the payment middleware |
| `MiddlewareKeepsGate` | `KeepsGate`: the middleware implements `PaidAccess` |
| `TypeCorrect`, `AnswerCorrect` of `ConnectRelayProofs` | the two invariants of the relay transport |
| `RelayKeepsExchange` | `KeepsExchange`: the transport implements `WalletExchange` |
| `StreamLosesLittle` | `LossIsBounded`: a run that ends takes one page at most |
| `TypeCorrect`, `OneVersionCorrect`, `DataCorrect` of `LedgerReadsProofs` | `TypeOK`, `OneVersion`, `DataOfHeld` |
| `ReadsKeepPromise` | `KeepsPromise`: the reads implement `AtomicRead` |
| `HolderTypeCorrect`, `HoldersCorrect`, `TraceCorrect` of `HolderReadsProofs` | `HolderTypeOK`, `SteadyHoldersFound`, `TraceIsLastHolder` |
| `CoreTypeCorrect`, `OnceCorrect`, `AbortCorrect` of `GatewayClientsProofs` | `CoreTypeOK`, `AtMostOneSuccess`, `AbortStopsAsking` (action property) |
| `WaitIsTimed`, `AbortedGoesToItsEnd` | the relay request waits under a timer or is aborted, and once aborted only moves to its end |
| `NoVerdictIsDropped` | a submission that was told a verdict is at the hook for it or has called it |
| `ReadsComeToAnEnd`, `HoldersComeToAnEnd`, `CallsComeToAnEnd` | every answered call brings a read, a walk or a poll nearer to its end, and nothing sets it back |
| `EachAsAlone` | beside the others, each client of the Gateway takes the steps of its own specification |
| `ClientsTypeCorrect`, `ClientsCorrect` | `TypesOK`, and every safety property above of the three clients on one ledger |
| `StreamRefinesFeed` | every stream step is a feed step or leaves the feed unchanged |

Only the named assumptions on the constants of each module are assumed.

The workflow's invariant is built in layers, because none of the properties is
inductive alone. `DirectoryInv` says that before the exclusive `mkdir` nothing
exists and that at most one process prepares. `PreparedInv` adds what each
process inside `prepare` and `notarize` has already written, from which the
order of the writes gives `PreparedIsComplete`. `SignaturesInv` says that what is
in the files and in the hands of every process between a read and a write
(`buf`, `bufNotary`) is verified and published: this is what an interleaving
could break and what the property about the files alone does not say.
`RecordInv` says the same of `answer` and `trail` against the ledger, which
never changes once it holds an outcome.

That the workflow implements `AuthorizedTransaction` follows from these layers with a
lemma per visible step: a hash that `tx notarize` publishes is of signatures it has
verified, and the step says which pair of intent and notary signature a broadcast is.

What holds of serial use only has invariants of its own. `KeptInv` says that whoever is
about to write a file back carries at least what the file holds. It fails in other use:
that is the lost update of two imports. `SuccessInv` says that a success among the attempts
is the recorded status, that whoever has passed the check of `tx submit` knows of no
success and there is none, and that whoever holds an answer beside a success holds the
answer `CommittedSuccess`. `OneIntentInv` says that at most one hash is published for the
notary, that of the signatures stored, and that a process inside `tx notarize` or with a
transaction to send carries just these.

The stream's invariant relates the
cursor, the version the pull read, and the page of each step of a run. The
submission's invariant ties the place of a call to the hooks it has called and the
verdict it carries, and says that whatever was accepted was sent and that no fate is
settled twice: without it a verdict could be true when given and untrue later. The
proof that it implements the promise has a lemma per kind of step, each naming the
step of the promise it is.

The middleware's invariant (`GateInv`) says that a recorded key is a paid subintent and
the key of its payload, that what was served since the last restart is recorded, and
that a request whose payload had been served when it came is past the settlement. That
gives the half of `RetryIsServed` about the same payload: another request that settles the
same payment at the same time writes the same record and takes none away. The other half,
that a served payment is not submitted in any payload, needs `OnceInv`: what had been served
when a request came was paid by then, so a preview of it fails, and a request that is about
to submit or has submitted has passed one.

The relay's invariant (`RelayInv`) says that a request has been shown before it polls,
holds only what the relay has held, and has a result exactly when it is over; a lemma
(`VerdictIs`) says what each verdict tells of the response, and the refinement rests on
it.

That a stream loses a page at most with each run (`LossInv`) rests on a bound of every
beginning of a page; `Advance` finds a last item, so the whole page is such a beginning.

The reads' invariant (`ReadInv`) says what `OneVersion` cannot: in the midst of a read,
what has been got of an address is all that was listed up to its cursor, at the version of
the pages (`Read`), every item lies between `since` and the present (`Span`), and in an
exact read all answered chunks are of one version. A lemma per action keeps it. The ledger
only grows, so what was true at a version stays true. The refinement maps a read that has
its version to the atomic read, and its last step to the step that returns.

The holders' invariant (`HolderInv`) says that whoever stood still since the start is in the
list or lies after the cursor at every version since; the order of the pages is that of an
amount and a number, and so total. The walk's says that the thing was burned at every version
above the one asked for next.

The core's invariant (`CoreInv`) says that of any two intents in use one is dead, never to
succeed, and that an advice to submit is given for dead intents only. `AtMostOneSuccess`
alone is not inductive: a pending intent beside a success would break it.

`MCGatewayClients` puts the three on one ledger, and the runs check that composition.
`EachAsAlone` shows that every step of it is, for each client, a step of its own
specification or of the ledger, so that what was proved of a client alone carries over.

Liveness is out of the prover's reach, so `VerdictIsHeard`, `PaymentAnswered`, `PollEnds`,
`AllEnds` and the fairness of `ImplementsFeed` are model-checked only. What they rest on is
proved where it is not plain from the actions: that there is a timer (`WaitIsTimed`), that a
verdict keeps its hook (`NoVerdictIsDropped`), and that what goes on by itself goes forward:

* a read goes to a later stage, or has fewer first pages, further pages or data to ask for;
* a page of holders goes further down an order that is one for all versions, so that it does
  not matter that the pages are of different versions;
* the walk asks for ever earlier versions. Version 0 would mean the current one again, and
  it is never reached, because nothing begins burned (`HistoryInv`);
* a poll of core has `2 * MaxRetries + 1` steps at most.

Left to TLC is that fair steps are in fact taken, which is about `ENABLED`.

## Not modelled

* `packages/gateway`: reads of one call (component state, vault aggregates, validators,
  ledger state, preview) and schemas. There is nothing between their steps.
* `packages/core`: the batches that look up divisibility, `getBalances`, which pairs two
  token reads each pinned to a version of its own, and the transformation of manifests.
* CLI: preparation of requests and templates, subintents, configuration and help.
* `packages/sbor` and `packages/shared` (conversions and schemas), `agent-toolkit`
  (adapters), the docs site: no state.
* Vendored code under `.repos` (the source of the Effect library): it is not this
  project's code. What its `forEach`, `retry` and fibers do is modelled where they are used.
* The cryptography and the compilation of transactions belong to the engine toolkit and
  are external.

## Plan

Done: `ArtifactWorkflow`, `TransactionStream` with `OrderedFeed`,
`TransactionLifecycle` with `SubmissionPromise`, `PaymentMiddleware` with `PaidAccess`,
`ConnectRelay` with `WalletExchange`, `LedgerReads` with `AtomicRead`, `HolderReads` and
`CoreClient`, each checked and proved about. Next, in this order:

1. `TransactionLifecycle`: interruption of the caller, and the callers of
   `submitTransaction` that read the committed details.
2. Pure operators: signing requests of an analysis, assembly of a root manifest, each
   against a reference definition.
3. `cli` subintents as a second producer of artifacts; seeking and a second
   reader on the stream's `Ref`.
4. Proofs: of the stream, that a page below the ledger moves the cursor on; of the
   middleware, that a request moves through its settlement once.
