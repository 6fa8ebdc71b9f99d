# ChainsWallet in TLA+

ChainsWallet is a multi-chain wallet for iOS (Objective-C, `src/ShainChainW`). It
keeps identities and wallets for Bitcoin, Ethereum, Tron, IOST, EOS and ATOM in
local tables, shows their balances, sends transactions and runs EOS DApps in a
browser. This directory holds TLA+ models of its stateful parts, the TLC
configurations that check them, and proofs that TLAPS checks.

What makes the program hard is not any single handler but their order. The main
thread, the queue of the URL session, global queues and two-second timers all
read and write the same singletons, defaults and tables, mostly without saying
which wallet or operation they are working for.

## 1. Inventory

Paths are relative to `src/ShainChainW/Class` unless they start elsewhere.

| Component | State it keeps | Operations | Interacts with |
|---|---|---|---|
| Identity (`Backup/…/SCAffirmBackupController`, `Enter/…/SCRecoverIDController`, `MyID/SCMyIDController`, `Tool/CreateWalletTool`, `AppDelegate`) | tables `walletModel`, `coinModel`, `TWWalletAccountClient`; root controller | create, recover, leave (`exitID`, `reset`), launch | key derivation on another queue calls back to the main queue |
| Imports (`ImportWallet/*`) | the same tables | one screen per chain and kind of secret | EOS and IOST ask the chain first, ETH derives on another queue |
| Detail pages, deletion (`Tool/SCRootTool`, `BTHDetail` and its siblings) | default `CurrentOperationWalletID`, a snapshot of the row | open, delete after two seconds | the password prompt `SCWalletEnterView`, a shared view |
| Current wallet (`Wallet/WalletViewController`, the chain clients, `UserinfoModel`) | default `CurrentWalletID`, `UserinfoModel.wallet`, `AppDelegate.walletClient`, coin rows | switch, load, balance, rate | answers of the network on three queues |
| EOS operations (`Browser/…/TransferService`, `SCTransferController`, the EOS resource pages) | the service's properties, a request object per kind | transfer, pledge, redeem, buy and sell RAM | four requests in a row, the chain |
| EOS accounts and tokens (`EOSClient`, `EOSAttackClient`) | none of its own | create an account, list tokens (retry on 429) | a sponsor account, an index service |
| Bitcoin transfers (`BTCClient`, `SCTransferController`) | none of its own | choose outputs, fee, sign, send | a request that blocks the main thread, the prompt |
| Ethereum, IOST, Tron transfers (`HSEther`, `IOSTClient`, `TRXClient`, `SCTransferController`) | what the blocks of a transfer hold: nonce, gas price, owner, key; one HUD for all | send, freeze, buy resources | the current wallet, `walletClient`, nodes and servers |
| DApp browser (`Browser/…/DAppDetailViewController`, `DappDetailService`, `ExcuteMultipleActionsService`) | the latest message and its models, the sheet, the password view, the prompt, the message view, the actions decoded or encoded so far | read, sign, execute a list, transfer, sign a message, reply to the page | the page, servers, a node, `TransferService` |
| Page script (`Browser/JSResource/scatter_pe2.js`) | one global callback, `window.scatter` with its identity | the calls of the Scatter API | posts messages to the browser, is called back by evaluated scripts |
| Backup (`SCBackupTipController`, `SCAffirmBackupController`) | words shown, words picked | show, pick, confirm | starts the identity |
| Address book (`AddressBook/*`) | table of contacts, one of them the default | add, edit, delete, make default | the transfer page |
| Encodings (`EosByteWriter`, `IOSTByteWriter`, bech32) | none | serialise, check an address | the senders |
| Persistence (`Pods/BGFMDB`, vendored) | SQLite tables, `bg_id` autoincrement | save, update, delete, clear: one commit each | everything above |
| Market, news, messages, feedback | fetched lists | show | read-only |

What makes each correct, and what is hard about it:

- **Store** (identity, imports, deletion). A coin row and a signing client must
  belong to the wallet whose id they carry, no address may ever be overwritten,
  a Tron wallet with an address must be able to sign, leaving an identity must
  leave nothing. Hard because every write is a commit of its own, the process
  can end between any two, deletions leave orphans, rows are found again by a
  counted name, and timers act on what a default names when they fire.
- **Current wallet.** The three copies of "the current wallet" must agree, and a
  late answer must not change another wallet's coin. Hard because answers carry
  no wallet and loads run on two threads.
- **EOS operations.** The chain must execute what was confirmed, once, and the
  page must say what happened to it. Hard because one service object serves all
  the operations of a page and is read and written on two threads.
- **DApp bridge.** A reply must answer its own request, what is confirmed must be
  what was shown, and it must be done once. Hard because each message overwrites the
  one before, every view and service is one object for all requests, and the page
  keeps one callback for all of its promises.
- **Page script.** What a page takes for a signature must be one, and an identity
  that was given up must stay so. Hard because the answers come late, to whatever
  object is there by then.
- **Transfers of Ether, Tron, IOST, Bitcoin.** What a network takes must be paid by the wallet
  it was confirmed for, and the user must be told what became of it. Hard because
  wallets can be switched while servers answer, Tron takes its key late, a nonce is
  read long before it is used, a blocked main thread collects touches, and one HUD
  belongs to all.
- **Bitcoin's selection.** Inputs must cover amount and fee, the fee must be what the user
  chose, in 64 bits. Hard because the fee feeds back into itself from round to round.
- **Backup.** Only the right order of words confirms.
- **Address book.** At most one default contact.

`PROJECT.json` lists these components with what is modelled of each, and under
"hazards" every place in the code where one of these difficulties bites.

## 2. Modules

| Module | What it is |
|---|---|
| `WalletStore` | the tables, the screens that write them, the timers, kills and launches |
| `MCWalletStore` | its instances: keys, import screens, symmetry, a view |
| `WalletStoreProofs` | type correctness; new wallets never meet old coins or clients |
| `WalletTablesProofs` | coins and clients belong to their wallets, addresses stay, leaving leaves nothing, a masked deletion is the confirmed one |
| `WalletSession` | the current wallet: loads, switches, answers |
| `MCWalletSession` | its instances: which brands the wallets have |
| `WalletSessionProofs` | type correctness; nothing crosses from brand to brand; a lone load settles |
| `Settlement` | abstract: what becomes of what the user confirms, and what is told of it |
| `EosPush` | an EOS operation from its confirmation to its result |
| `MCEosPush` | its instances: which actions the operations are |
| `EosPushProofs` | type correctness; only confirmed operations are executed, as many as are reported; lone operations are exact; the masked HUD keeps transfers apart; operations implement `Settlement` |
| `PageRequests` | the page's end of the DApp bridge: promises, the callback, the two directions of the channel |
| `DappBridge` | the app's end, on top of `PageRequests` |
| `RequestBook` | abstract: what the bridge promises a page that waits for each answer |
| `MCDappBridge` | its instances: which request lists two actions |
| `DappBridgeProofs` | overtaken requests stay pending; the types of the bridge |
| `DappBookProofs` | the bridge implements `RequestBook`; lone consents are exact |
| `BtcSelection` | the choice of outputs and the fee of a Bitcoin transfer, as functions |
| `Transfers` | transfers of Ether, Tron, IOST and Bitcoin, from the password to the network |
| `MCTransfers` | its instance: which brands the wallets have, which outputs there are |
| `TransfersProofs` | type correctness; what is taken is paid by its wallet; the masked HUD keeps transfers apart; what was told to succeed was taken; what the selection loop takes and pays; transfers implement the strict `Settlement` |
| `ScatterPage` | the Scatter API of a page, on top of `DappBridge` |
| `MCScatterPage` | its instance |
| `ScatterPageProofs` | signers were named, the forgotten stays forgotten, signatures are real |

A definition that no action uses and whose comment says "faulty" is a
variant of the definition that follows it, as a plausible bug would write it. With it
in place of the right one a property fails, which shows what the property is
sensitive to; `PROJECT.json` says which.

### WalletStore

`wallets`, `nextId`, `coins`, `clients` are the tables and SQLite's sequence,
`opId` is `CurrentOperationWalletID`; these survive `Kill`. The rest is the
process: `screen` (root controller), `page` (the page pushed over the main
screen with the row it loaded), `hud` and `masked`.

A block of the main thread is modelled as the sequence of writes it makes
(`IdentityBlock`, `EthBlock`, `TrxBlock`, `WholeImport`, `LateImport`,
`TronImport`, `ResetBlock`); `task.todo` is what is left of it, and each write
is one step (`SaveIdentityRow`, `FindIdentityRow`, `UpdateRow`, `SaveCoin`,
`SaveClient`, `ClearTable`, …), so a `Kill` comes between any two. Blocks
dispatched to the main queue wait in `queued`, in no order, since they come
from other queues; two-second blocks wait in `delayed`, in the order they were
started. `FireDelete` reads `opId` when it fires, as `SCRootTool.m:89` does.

A key stands for a recovery phrase or private key and its address. Names of
wallets are kept only where an import counts and finds them.

The database is assumed to do what it is told: no write fails. The one place that looks at the
outcome is the ETH callback, which on `result == NO` takes the HUD away, shows a toast and stays on the
screen (`SCAffirmBackupController.m:229-233`, `SCRecoverIDController.m:234-238`); `EthBlock` has the
other branch only. Three facts about timing are assumed as well:

- timers of the same length fire in the order they were started;
- no timer of two seconds outlasts the typing of a password and twelve words
  (`StartIdentity` requires `delayed` empty);
- the TRX block, queued at once by the identity's own block, runs before the
  user's next touch.

`masked` says that the process has created an identity: only that path sets
the HUD's mask type, which then holds for every later HUD of the process and
blocks touches. After a launch with existing wallets no HUD blocks anything.

### WalletSession

`current` is `CurrentWalletID`, `session` is `UserinfoModel.wallet`, `client` is
`AppDelegate.walletClient`, `coins` the coin rows. `task[t]` says where a
thread is: "main", the background loads that `viewDidAppear` starts, and "net",
the queue of the URL session. The steps of a load are one per table access or
shared variable (`CountWallets`, `FindCurrent`, …, `AskBalance`); an answer is
handled in steps as well (`FindCoin`, `WriteCoin`, `AskRate`), because other
threads run in between.

An amount is named by the wallet whose address was asked for it, a row of the
coin table carries its owner because `bg_updateWhere` writes every property:
this is what lets a row be copied over another.

A Bitcoin balance is awaited in `while (retVal == nil) {}`, a data race. With
`Optimised` TRUE the loop may go on for ever after the answer (`AfterLoop`), as
in a build that reads the variable once. The safety run includes such builds;
its deadlock check is off because the application then really hangs.

Wallets of EOS (a list of tokens) and ATOM (asked with an empty address) are not in
this module.

### EosPush

One page with its `TransferService`: `service` holds the properties of the
service, a transaction being told apart by block, action and data; `keyReq` is
the copy in `GetRequiredPublicKeyRequest`, over which the signature is made.
`Confirm` is the password accepted, `AbiAnswer` and `SetArgs` the answer of
`abi_json_to_bin` (the action is written before the binargs), `InfoAnswer` and
`CopyKeys` the answer of `get_info` on the main thread, `KeysAnswer` and `Push`
the signature and the request that is filled from the service a second time,
`Chain` the node, `PushAnswer` the result. `Fail` loses a request or
its answer, also after the chain has executed it. POST answers run one at a time
on the queue of the shared session (`net`), GET answers and touches on the main
thread (`main`).

A page that was left goes on: its blocks hold it weakly, but the password prompt's block holds
the page and the prompt's own tap holds the prompt, so neither goes away. It signs, pushes and tells
as before, toasts being shown over any page. Only the alert by which a resource page reports a
failure cannot be presented by a page that is off the screen (`Silent`).

The chain accepts a transaction whose signature fits and which it has not
executed before. Signing, serialisation and amounts are left out.
An operation here is one confirmation, so `Ops` are confirmed once each; a
user who repeats one confirms another member of `Ops`.

### Settlement

What the wallet owes the user for each confirmation, whatever the chain: `confirmed` is what has
been confirmed, `taken` what a network has taken, `told` the verdict shown of each. Networks take
what was confirmed and nothing else; a verdict is told once and stays; there are no more successes than
takings. That is `Spec`. `StrictSpec` promises it of each by itself: it is taken once at most, and said
to have succeeded only when it was. A failure may be told of what is taken, before or after,
since an answer can be lost.

| `Settlement` | `EosPush` | `Transfers` |
|---|---|---|
| `Ops` | `Ops` | `1..MaxSends` |
| `confirmed` | `confirmed` | the places of `sends` |
| `taken` | the operation and block of each transaction in `executed` | the transfers whose `fate` is pooled, executed or dropped |
| `told` | `told` | `told` of each transfer (`Verdict`) |
| implements | `Spec` (`SettlesAll`), `StrictSpec` until operations overlap (`SettlesLone`) | `StrictSpec` (`SettlesEach`) |

The difference is the service that EOS operations share: the verdict on one may be the other's, and one
may be taken twice, at two blocks (`eos_success`). Transfers of the other chains have their own blocks and
hold their own data.

### BtcSelection and Transfers

`BtcSelection` is the middle of `BTCClient sendToAddress:`. `FeeRound` is one round of
its loop and `Rounds` the loop, a fold over the outputs that comes to the dearest last and
does nothing once `enough` stands for the `break`. The fee is a product of words
as an `NSInteger` (`Wrapped`), with the word's size a constant. `fee` is overwritten
in each round by the size times itself, as in line 161.

`Transfers` has the pages of all wallets and the networks behind them:

| Variable | In the code |
|---|---|
| `session`, `client` | `UserinfoModel.wallet` and `AppDelegate.walletClient`, after `loadWallet` has settled |
| `masked`, `hud`, `dismissals` | the HUD, whether it blocks touches, the `dismissWithDelay:` that are due |
| `prompt` | a confirmed Bitcoin prompt whose removal still waits in the main queue |
| `sends` | what the blocks of each transfer hold: its wallet, where it is, owner, key, nonce, price; what the user was told (`told`), what became of it (`fate`), and whether it met another (`alone`, history) |
| `txs` | the Bitcoin transaction of each |
| `mined`, `pool`, `unspent` | the networks: Ethereum's count of mined transactions and the pending one of an account, Bitcoin's unspent outputs |

`EthTransfer`, `TronTransfer`, `IostTransfer`, `BtcTransfer` are the password accepted;
`TapAgain` is a second touch of the prompt's button, delivered before the block that removes it.
`Unlocked`, `Counted`, `Priced` are the promises of `HSEther` (key store, nonce, gas price and
signature), `Created` and `Signed` the servers of Tron (the second also the chain information
of IOST); `EthFails`, `CreationFails`, `FailsSilently` and `Lost` are the error blocks, in
which the chains differ: Ether and Bitcoin tell, Tron dismisses a HUD that is not its own after a
second, IOST says nothing and keeps the HUD. `Arrives` is the node, also after the
sender has given up (`stray`), `Mine` a block, `Replied` the answer. An Ethereum node has one
transaction per nonce, the one that pays more; a Tron node wants the owner's signature; a
Bitcoin node wants inputs that are unspent and cover the outputs.

Amounts and balances exist for Bitcoin only. An account's transactions come from this
application only.

### PageRequests and DappBridge

`PageRequests` is class `pefun` of the page script. A request is one call with a
serial number of its own; `Ask` posts the message and then takes
`window.callbackResult` over (`callback`), `CallBack` is that function being
called with a serial number and an answer, `Load` a new document in which the script starts
again. `toNative` and `toPage` are the two directions, each in order: WebKit
delivers script messages to the main thread in order and evaluates scripts in order.
An answer is abstracted to whose data it carries (`of`), whether it says that it was done
(`good`), and whether the page can read it (`clear`): the app puts it between
quotes as it is, so a quote in a wallet's name or a server's text breaks the call.

`DappBridge` adds the app. Its variables are the objects of the controller:

| Variable | In the code |
|---|---|
| `models` | `dappPushMessageModel` of the controller, and what the services were last asked for |
| `decoding` | the count shared by all signatures in `DappDetailService` and what each collected |
| `list`, `sheet` | the data source and the sheet of actions, with the pages it keeps from its first list |
| `windows` | the views over everything: password view, prompt, message view |
| `nopass` | the password view: what is typed, and whether it is to be remembered |
| `text` | what the message view shows, built at its first use |
| `transfers`, `execs`, `runs` | `TransferService`, `ExcuteMultipleActionsService` and the lists its blocks hold |
| `jobs` | the requests to servers and nodes that are not answered yet; answered in any order or failed |
| `acts`, `crossed` | history: what was signed or executed and for whom; whether consent was asked for while other consent was open |

`Message` takes one message and dispatches it by its method. The other actions are
the answers of servers (`NetAnswer` to `Report`, `Fail`) and the
user's touches (`LookAtAll` to `ConfirmMessage`).

Messages, touches and what AFNetworking answers run on the main thread, one at a time, and each is one
action: the reads of a balance and of a transaction, the decoding of actions, and all requests of
`ExcuteMultipleActionsService`. What `RequestManager post:` has asked is answered on the queue of the
shared URL session: the read of an account, the transfer's `abi_json_to_bin` and its push. The main thread
runs meanwhile, so these answers take two steps, one per access to what both use: the serial number of the latest
message is read and then the script evaluated (`AccountAnswer`, `AccountReply`; `Transferred`, `Report`), the
contract of the latest transfer is read and then the service gets its data (`AbiAnswer`, `SetArgs`).
That queue runs one handler at a time (`SessionIdle`).

One fact about timing is assumed: a block that a touch puts in the main queue runs before the next touch, and
before a message that brings another view. The prompt of a transfer takes itself away in such a block
(`SCWalletEnterView.m:168`), and the password view leaves its confirmation to one
(`DappWithoutPasswordView.m:135`); both are part of the touch here (`PromptConfirmed`,
`PromptRefused`, `PromptCancelled`, `ConfirmPassword`). "Once" in `KeepsBook` and
`LoneConsentsAreExact` rests on it: a second tap in between would confirm again. The main queue is run between
two touches as long as nothing blocks the main thread. Nothing does here; a Bitcoin
transfer does, waiting for its server in the very touch, so `Transfers` makes no such assumption and
has `TapAgain`.

`acts` names each action by the request its
contract and data come from, so that a mixture of two can be told from either;
keys, encoding and amounts are left out. The four requests of a transfer's
service are `EosPush`'s: here they are two, its data and its push.

`RequestBook` says what a page that waits may rely on: a request that needs
consent is carried out at most once, whole, and not after the page has been told of its end;
it is answered once, with its own answer, and "done" only when it was done.
The refinement mapping of `DappBridge!Book` is:

| `RequestBook` | `DappBridge` |
|---|---|
| `consents` | the requests whose method needs consent |
| `asked` | those whose promise exists |
| `done` | the requests of `acts`, in order; an act that is not the whole of its request maps to none, which the book has no step for |
| `told` | the result a settled promise holds: done, refused, or another's (again no step) |

### ScatterPage

`identity` are the `Index` objects of the page that hold an identity; `made` counts
those the script (`NewIndex` in `LoadPage`) and the app (`Inject`, five seconds after a
navigation) have made, the last being `window.scatter`. Each call names the `Index` it is
made through (`owner`), since an `eos` object keeps the `Index` that made it; after a
navigation no call of the old page has an owner.
`Transact` is the library building a transaction and `SignProvider` its later
callback, which checks the identity; `Then` are the promise blocks after an answer.
The app below is the whole of `DappBridge`: `App` steps are its own.

## 3. Runs

| Run | Configuration | What it shows |
|---|---|---|
| `store_imports` | two keys, four rows, an import of each write order, a timer | `TypeOK`, `CoinsBelongToTheirWallet`, `TronReadyHasClient`, `AddressesNeverChange`, `NewWalletsStartEmpty` with kills at every write, and after deletions, when names are counted again and coins of deleted wallets stay |
| `store_exits` | seven rows (two identities), two timers | `OneClientPerWallet`, `MaskedDeleteIsTheConfirmedOne`, `ExitLeavesNothing` |
| `store_fair` | one identity, main thread fair | `IdentityCompletes` |
| `store_given_id` | four rows, one timer | violated: `DeletesTheGivenWallet` |
| `session_safety` | a BTC, two ETH, a TRX wallet, one background load, two loads or requests open, any build | `TypeOK`, `NothingCrosses`, `BrandsKept`, `LoneLoadSettles` |
| `session_fair` | BTC, ETH, IOST; builds that reread the variable | `LoadsEnd` |
| `eos_safety` | three operations of two actions, two blocks, either page, masked or not | `TypeOK`, `ExecutedWasConfirmed`, `SuccessesAreExecuted`, `LoneOperationsAreExact`, `MaskKeepsApart`, and the refinement of `Settlement`: `SettlesAll`, `SettlesLone` |
| `eos_success` | two operations, two blocks | violated: `SuccessIsOfTheOperation` |
| `transfers` | two transfers of six wallets (two Ethereum, two Tron, IOST, Bitcoin), two gas prices, two amounts, three outputs, masked or not | `TypeOK`, `PaidByItsWallet`, `SuccessesAreTaken`, `MaskKeepsSendsApart`, `AmountsAreSpendable`, `FeesPayForInputs`, `SettlesEach` (the refinement of `Settlement`), `SendsAreTold` |
| `dapp_waiting` | three requests of any of the seven kinds, one of them listing two actions, each after the answer of the one before, no password remembered | `KeepsBook` (the refinement), `ReadsAreAnswered` |
| `dapp_free` | two requests, one of two actions, at any time, passwords remembered or not, navigations | `TypeOK`, `LoneConsentsAreExact`, `OvertakenStayPending` |
| `scatter_page` | three calls of a page with two `Index` objects, navigations, a late `inject()`, the whole app below | `PageTypeOK`, `SignaturesAreReal`, `ForgottenStaysForgotten`, `SignersWereNamed` |

### What the violated runs show

- `store_given_id`: a deletion is confirmed, another wallet's page is opened
  within the two seconds, and that wallet is deleted.
- `eos_success`: a second operation confirmed while the first is under way is
  pushed twice, and the page reports the first as done. It was never executed.

### What the passing runs bound

- A failure is told once and stays, also when the transaction arrives afterwards: no late answer
  turns it into a success, and no error makes a network take a transfer or a lone operation again
  (`SettlesAll`, `SettlesLone`, `SettlesEach`). The user who repeats what was said to have failed confirms
  something new.
- The wrong deletion needs a process without a mask; a copied coin row stays
  within its brand; the chain never executes a mixture of two operations.
- A transfer of Tron whose key has changed under it is refused by the node, and never
  taken from another wallet (`PaidByItsWallet`). Of Ether, a transfer that meets no other
  of its account is neither refused nor replaced; one that does may be replaced after
  it was reported as done (`SuccessesAreTaken` claims only that it was taken).
- Bitcoin's loop refuses an amount only when the outputs do not make it up
  (`AmountsAreSpendable`). The miners get no fee at all or at least what the rate asks for the inputs
  (`FeesPayForInputs`): none when the loop runs out of outputs before it finds enough, as
  `totalAmount` is then still the amount; too much from the second round on.
- In the browser, what is signed or executed is exact as long as consent is
  asked for one thing at a time, however reads, navigations, late answers and touches
  fall (`LoneConsentsAreExact`). When a request for consent arrives while another
  is open, or a list is executed again under a remembered password, nothing is
  claimed: that is what `crossed` records.
- A page that waits never meets any of that (`KeepsBook`), and what the app
  knows by itself is answered to it even while a view of an earlier page is
  open (`ReadsAreAnswered`). A page that does not wait may lose an answer for good:
  the callback of a request that was overtaken is never called again
  (`OvertakenStayPending`).
- The app may mix up whom it answers, but an answer to another call has another
  shape, so a page never takes it for a signature (`SignaturesAreReal`). That needs
  `Remembers` FALSE, as in the configuration and in the theorem: a wrong password ticked to be
  remembered and cancelled answers "signed" with an empty signature
  (`DAppDetailViewController.m:527`, among the hazards).

### Claims that are no runs

Five definitions state what one would expect, and TLC refutes them. No line of
the repository claims the last; the comments behind the others (quoted at the
definitions) are a few words each. They are kept as definitions, without a run. Each
counterexample can be seen by naming the definition under `INVARIANT` in the
configuration given:

- `UnfinishedIdentityIsReset` in `WalletStoreFair.cfg`: a kill during creation
  leaves wallets without address; the check that should reset them is
  commented out at its only call.
- `CoinsKeepTheirOwner` in `WalletSessionMixed.cfg` with `Wallets = {1, 2, 3}`,
  `CoinOf <- TwoEther`, `MaxOpen = 3`: a rate that answers after a switch copies the
  old wallet's coin row, owner included, over the new one's.
- `SessionIsTheChosenWallet` there with `CoinOf <- TwoTron`: a background load
  overtaken by a switch puts the old wallet back into the session.
- `FeesAreAsStated` in `Transfers.cfg`: the comment at `BTCClient.m:160` gives a fee of the
  size times the rate, with the number of inputs in the size. The loop takes the number of all
  outputs there are, and multiplies again in each round.
- `MessageSignedWasShown` in `DappBridgeWaiting.cfg`: the second message to sign
  is shown with the text of the first.

### Bounds, and why they are enough

- `MaxRows` bounds rows ever saved: four are a created identity, a recovered one (three rows) and
  the import that follows, or four imports with deletions between them; seven are two
  identities. A row is
  related to others by its id, its brand and its counted name only, and an
  orphan needs one deleted and one later row of a brand.
- `MaxDelayed` is two where two timers can meet (a deletion and an exit), else
  one, or zero in the run that asks nothing about timers. `MaxQueued` bounds
  imports in flight; the identity's own blocks are not bounded by it.
- Two keys suffice: properties compare an address with one other. They are
  interchangeable (`KeySymmetry`; not used in runs with temporal properties
  under fairness). `StoreView` drops `opId` where no page or timer will read it.
- `MaxOpen` bounds loads and requests that are open when one more starts; two
  or three let an answer of one wallet come during the load of another. One
  background load suffices to overtake the main thread.
- Three requests that wait let what one leaves behind (a view's text, a list, a
  sheet hidden, a count) meet the next two; two that do not wait let each
  overtake, overwrite or cross the other at any point, and the one that lists
  two actions can be seen in part. `MaxRuns` bounds executions started by touches (two: one list twice, or two
  lists), `MaxActs` the signatures of messages, `MaxCalls` the calls into the page
  that touches add to; servers' answers are not bounded by it. `MaxIndexes`
  is two, the script's own `Index` and the app's.
- In `transfers` two sends suffice for each hazard: the second with the nonce of the first, paying
  more or not; a switch of the two Tron wallets between creation and key; a failed
  creation under the HUD of the other; a second touch; a Bitcoin transfer that spends the change
  of the first. Three outputs leave sets of one to three, of which an amount needs one
  or several, or cannot be paid. `Word` is 2^30 as TLC's integers have 32 bits: the
  fee of three rounds stays below it, so nothing wraps. With 2^20 a fee becomes
  negative and `FeesPayForInputs` is violated; in the 64 bits of the program
  that takes about seven outputs.
- In `scatter_page` no lists are executed (the Scatter API has no call for
  them) and transactions have one action.
- Three operations let two share an action and the third interleave; two blocks
  let a repeated push be told from a duplicate one.

### Fairness

`store_fair` assumes weak fairness of the main thread: a block that runs goes on,
queued blocks and due timers are run. That is the run loop's own promise; a
kill may still come at any time, and the user is never obliged to act. That writes succeed
is part of the model: after a failed update of the ETH row the identity is not completed.
`session_fair` assumes that every thread takes its next step, and that a
Bitcoin request is answered or fails in the end, because a URL session times
out by itself. Nothing is assumed of the other requests: their handlers start a new activity
that ends by itself. `LoadsEnd` is about builds that read the variable of
the busy wait again; for the others it is false by the language's rules.
`transfers` assumes that every step of a transfer ends, with its answer or an error: promises
and URL tasks have timeouts. Whether a node ever gets or mines a transaction, and what the user
does, is left open. `SendsAreTold` leaves out Tron and IOST, whose errors are silent.
`dapp_waiting` assumes that the main thread takes the next message and that the
page evaluates the next call. No server, node or user has to answer:
`ReadsAreAnswered` is about the requests that need none of them.

## 4. Proofs

All of them hold for any constants that meet the named assumptions of the module.

**WalletStore, `TypeCorrect`.** `TypeOK` says more than the types: no row, coin,
client, running block, queued block or default names an id that the
autoincrement key has not handed out. It is inductive as it stands, from `BoundsAssumption`,
`NoKeyAssumption` and `ImportsAssumption`: ids only enter
by `InsertRow`, which raises `nextId`, and `LastOf` returns a row of the table or 0.

**WalletStore, `NewWalletsAreFresh`.** `Spec => NewWalletsStartEmpty`, from the
same invariant: a row that joins has the id `nextId`, and every coin and client
carries a smaller one. This is why orphans are harmless although
`delectWalletWithID` never deletes coins or clients.

**WalletStore, `CoinsBelong`, `TronIsReady`, `ClientsAreSingle`** (`WalletTablesProofs`). The
three are no invariants by themselves: in the middle of a block a row has its address and not
yet its coin, or its coin and not yet its address. `Stage` says for each of the seven blocks
what the tables hold of its wallet when it stands at its n-th write, so that a kill at any
place leaves the three true. `Waiting` says the same of what is queued: an ETH block's row is blank
or gone and no other block's; a TRX block finds a blank row because nothing is deleted before
it runs. What a block finds by its count is the row it saved itself (`Newest`), because nothing
else saves in between; what it writes concerns the id of its wallet only (`OnlyOf`), so that
the three have to be shown for that id alone (`TablesKept`, `WriteKeeps`). There is one lemma per block and write.

**WalletStore, `AddressesAreKept`, `ExitIsClean`.** Action properties, from the same invariant: a
block only fills rows that have no address, and `ResetBlock` finds every table empty at its end,
because it is one block of the main thread.

**WalletStore, `MaskedDeletes`, `MaskedDeletesAlone`.** The first shows `MaskedDeleteIsTheConfirmedOne` for
any imports under one hypothesis, `MaskedWhenQuiet`: when an identity sets the mask, no block of
an import is in the queue. The second needs no such hypothesis where there are no import screens
(`Imports = {}`, the constants of `store_exits`), for `QuietInv` shows that only an identity queues
blocks there. The id the deletion reads can only move while touches arrive, that is when the HUD is gone
before the timer fires. `MaskInv` therefore follows what takes the HUD away: as long as the mask is
set there is one such thing at most, a statement of the running block (`Ending`), a queued block
(`Late`) or the timer, and each hands on to the next (`MaskWrite`, `MaskRun`, `MaskFire`). Without the
hypothesis it is false, and so is the invariant: an import whose answer comes after the mask was
set ends under a deletion's HUD and takes it away, and another detail page moves the id (TLC finds
this when the import is made before the identity is left and a new one is recovered in the same
process). TLC has checked `MaskInv` on the instance of `store_exits`.

**WalletSession, `TypeCorrect`.** `TypeOK` is inductive as it stands, given that a set of rows has
a first and a last one (`FirstExists`, `LastExists`), which `CHOOSE` takes.

**WalletSession, `BrandsAreKept`, `NothingCrossesOver`.** What is written has been looked up,
copied, asked for and answered before, on other threads and for wallets that may be gone.
`OneBrand` therefore speaks of everything on its way, too: of the coin a thread
holds, of the coin and the wallet of each request, of the client and its account. `Routed` is
needed beside it: the answer a Bitcoin thread waits for is its own.

**WalletSession, `LoneLoadsSettle`.** The invariant `Alone` says how far a load that is the only
one has come (`InOrder`), or that it has ended with session, client and default in step.

**EosPush, `TypeCorrect`.** `TypeOK` is not inductive: the net thread asks for
`get_info` on behalf of the operation it holds, so while it is in a handler it must
hold one (`Typed`).

**EosPush, `ConfirmedOnly`.** `Spec => []ExecutedWasConfirmed`, although the
service is written in two steps, read on two threads and read twice. The
invariant is `Mixless`: the service is a pair of an action and data that belong
together (`Paired`) except while the net thread is between the two writes, and
then the action is that of the data to come (`ServicePaired`); a push carries a
pair (`RequestsPaired`). A push is built on the net thread, so never in between
the two writes, and what the main thread copies there only reaches the
signature, which then does not fit.

**EosPush, `MaskApart`.** `Spec => []MaskKeepsApart`: under a masked HUD at most
one request or one handler carries the operation (`OneCarrier`), and the HUD
covers it from the confirmation to the last answer (`Covered`).

**EosPush, `SuccessesAreReal`.** `Spec => []SuccessesAreExecuted`. A success told and an accepted
push whose answer is on its way both stand for an execution, so `Counted` compares their sum with what the chain has
executed; every step adds to neither, adds an execution with its answer, or turns an
answer into a success (`StepsOwe`).

**EosPush, `LoneAreExact`.** `Spec => []LoneOperationsAreExact`. As long as nothing overlaps (`Lone`)
one request or handler carries the operation (`OneCarrier`), what the requests and threads hold
and what they will copy is that operation's (`RequestsExact`, `ThreadsExact`), and what
was executed or told to succeed belongs to different, earlier ones (`ResultsExact`).

**EosPush, `OperationsSettle`, `LoneOperationsSettle`.** `Spec => SettlesAll` and `Spec => SettlesLone`, step
by step. That a verdict is the first needs one more invariant, `Carriers`: whether or not operations overlap,
an operation is with one request or one handler of a thread from its confirmation to its verdict, each of
another operation, and it has none yet. So nobody is left to tell a second one; a carrier either hands the
operation on or goes with the verdict (`CarrierGoes`). An entry of the ledger names a transaction, since
the page and the operation give its action (`EntryDetermines`, from `Mixless`): the chain, which does not
execute a transaction twice, makes no entry twice (`ChainTakes`), there are as many entries as
transactions (`EntriesCount`), and `Counted` pays for each success. The strict steps follow from `Exact`,
which holds until operations overlap.

**DappBridge, `OvertakenWaits`.** `Spec => OvertakenStayPending`. The types of the
page's end (`PromiseOK`) are inductive, the app's steps do not touch the page
(`AppKeepsPage`), and of the page's own only `CallBack` settles a promise: that of
the request in `callback`, which an overtaken request never becomes again, because each
request is made once.

**DappBridge, `BridgeTyped`.** `Spec => []TypeOK`, for any requests, methods, lists and bounds. The
types are not inductive alone, for the services carry on with what was put in them last. That
something is signed or executed *for a request* needs that the latest message is the latest of its kind
and that a view of a message is only there once one was received (`Held`); that it is made of *actions*
needs that what is counted are places of a list, also when answers to an older request come late,
and that a run asks for information once, before anything of it is encoded (`Numbered`). `SortedIs` shows that
the order by tags gives back the list when all its places are there. TLC has checked `Held` and `Numbered` on
the instance of `dapp_free`.

**DappBridge, `BridgeKeepsBook`.** `Spec => KeepsBook`, assuming `Waits`: pages
wait (`Patient`) and no password is remembered. It holds for any set of requests,
any methods, lists of any length and any bounds. `KeepsBook` follows from no local fact: that an answer
is its request's own depends on `models.latest`, on the shared count of
decoded actions, on the array the service shares with the data source and on views being closed. The
invariant `BookInv` therefore says at which *stage* the app is, all it holds
belonging to the one pending request:

| Stage | What is there |
|---|---|
| `Posted` | the message, and nothing else |
| `Busy` | one of: answers to `Decoding` or `Encoding` (the jobs left are those of the actions not got yet, and the count is the number got), a single job (`Served`: each kind says what it carries and what the service holds, also between the two steps of an answer), the sheet or the password view (`Listed`), the prompt (`Prompted`), the message view (`Texted`) |
| `Answering` | one call into the page, with the request's serial number and its own answer; "done" only of what was carried out |
| `Idle` | nothing |

Beside the stage it holds that whatever was signed or executed is the
whole of a request the page has made (`ActsAreExact`) and that the pending
request is the one in `callback` (`OnePending`). There is one lemma per action; each step of
the app either leaves `acts` alone or carries out the latest request, which was
not carried out before (`CarriesOut`). The refinement follows from the invariant step by
step (`StepsKeepBook`): asking, carrying out and settling are steps of the
book, everything else stutters. The shape of what the transfer's service holds
between the two steps of an answer comes from `TypeInv` (`BridgeTyped`). TLC has checked `BookInv` as an invariant on the instance of
`dapp_waiting`.

**DappBridge, `LoneConsentsExact`.** `Spec => []LoneConsentsAreExact`, without `Waits`: pages ask
whenever they like, read and navigate meanwhile, passwords may be remembered. `BookInv` is of no use
here, for it needs the one request to be the latest. `LoneInv` says instead that, unless consents have
crossed, everything open belongs to one request of consent (`Alone`), which is the latest or was followed by reads
only, and at which `Phase` it is: `AloneDecoded`, `AloneSigned`, `AloneListed`, `AloneExecuted`,
`AlonePrompted`, `AloneTransferred`, `AloneTexted`, or nothing is open (`Quiet`). A read that is answered on the session's queue is no part of a phase in either of its steps (`Work` leaves it out). What makes it hold is that
a request is posted once (`Queued`), so that what was done and what runs are of requests whose message has
been taken before (`Before`), and that the phases differ in the views they open, so that a touch
meets its own phase (`OnTopAlone`). A phase is kept by what reads, late answers to them and the page
do (`PhaseStays`); a message of consent finds all quiet or crosses (`OpenOrQuiet`, `MessageAlone`); answers and touches
have a lemma each. TLC has checked `Queued` and `AloneOK` on the instance of `dapp_free`.

**ScatterPage, `PageTypes`, `SignersNamed`, `ForgottenStays`.** From `PageInv`, which needs nothing of
the app: whatever it answers, what a pending request is taken for depends on its method and owner
only (`Scripted`). That an identity is given up is no invariant of `forgotten` and `identity`
alone; none may be on its way either (`GivenUp`). An identity that is held must go back to an
answer of this page (`Named`), or a signer could be one that was never named.

**ScatterPage, `SignaturesReal`.** `PageSpec => []SignaturesAreReal`, assuming that no password is
remembered. The page shows the app only messages of three methods, so no list is executed and nothing is
transferred (`Heard`, `ViewsAsked`, `OnlyDecodes`); requests of consent may still cross. An answer is `Honest` if a
request that would take it for a signature was signed: the reply to the latest message carries the request
that was signed, which is the latest one of its kind, or another kind's text. Nothing
signed is taken back (`AppKept`), so that an answer stays honest until it is evaluated.

**Transfers, `TakenIsPaidByItsWallet`.** `Spec => []PaidByItsWallet`. The invariant `PayInv` says
where a transfer of a brand can be and whose key it has there (`StageOK`): the owner is fixed at
the confirmation and is the wallet's own, for Tron because `client` is the session whenever that
is a Tron wallet; every brand but Tron takes its key with it. What waits in a node's pool is a
transfer of that account (`PoolOK`), so that being mined or replaced concerns no other. A Tron
node checks owner against key, which is all that protects a transfer whose key has changed.

**Transfers, `MaskApart`.** `Spec => []MaskKeepsSendsApart`, from `MaskInv`: as long as no creation
has failed no dismissal is due, a transfer under way shows the HUD, and there is one at most.
`OneMovesUnderHud` shows for all answers at once that the HUD goes only with the transfer it covers.

**Transfers, `ToldIsTaken`.** `Spec => []SuccessesAreTaken`. `AloneInv` says of each transfer that a
verdict comes before its answer and a success is only told of what was taken (`ToldOK`), that
the nonce of a lone transfer is the count of its account until it arrives (`LoneOK`), and that no other
transfer of the account is under way or in the pool with it (`Lone`). A block can therefore not raise
the count under it, and the node finds its nonce due and the pool empty (`LoneIsAccepted`).

**Transfers, `NothingRefusedInVain`, `FeesPay`.** What a sum over a set or the loop comes to is defined by
recursion on finite sets. The facts about them are proved by a smallest counterexample instead of an
induction: of the subsets of a finite set for which a fact fails one has none below it
(`MinimalSubset`, since being a proper subset is well-founded there), the recursion takes that one to a smaller one
(`ValuesStep`, `RoundsStep`), and the fact holds of that. In this way sums are natural numbers
(`ValuesType`), grow with an element (`ValuesWithout`), and after any number of rounds the loop has taken
outputs of the address whose values are its balance, all of them unless it was left (`SelectionOK`). That the amount is
refused only when the outputs do not make it up follows for every width of words, fees that have wrapped
included (`SelectSound`). The bound on the fee is false once a fee leaves the words; `FeesPay` therefore is
about behaviours in which the fee of each round fits (`FeesAreWords`), as those of the instance of `transfers` do
(522^3 < 2^29): then a fee is at least the one before times the size, so at least the rate for the
inputs (`FeeOK`).

**Transfers, `TypeCorrect`.** `Spec => []TypeOK`, from `PayInv` and `MoneyInv`: what an address has left are
finitely many outputs, so that the selection from them is sound and the change of the transaction built of it
no debt (`BtcSendMoney`), and a transaction that arrives leaves such a set behind (`ArrivesMoney`).

**Transfers, `TransfersSettle`.** `Spec => SettlesEach`. `ToldOK` has for it that nothing is told while an
answer is awaited, and that nothing was taken before the transaction arrives. Each step changes the ledger in
one of four ways, whatever it does to the list: not at all (`LedgerKept`), by a new transfer, told as failed
or not (`LedgerGrows`), by one verdict (`LedgerTells`), by one taking (`LedgerTakes`). That mining and being
replaced are no takings of their own is because only what waits in a pool can be (`AloneInv`).

What stays with TLC, and why:

- Liveness under fairness (`IdentityCompletes`, `LoadsEnd`, `SendsAreTold`, `ReadsAreAnswered`), which
  the prover does not reach.
- `FeesPayForInputs` in behaviours whose fees leave the words, where it is false.
- `MaskedDeleteIsTheConfirmedOne` in processes that were masked with an import under way: no theorem
  says anything of them.
- The violated claims are shown by TLC's counterexamples alone.

## 5. Plan

Done: `WalletStore`, `WalletSession`, `EosPush`, then `DappBridge` with its abstract
specification and `ScatterPage`, then `Transfers` with `BtcSelection`, then `Settlement`, which
`EosPush` and `Transfers` implement. Left:

1. `MnemonicConfirm` and `AddressBook`: small, with a "one default contact" invariant.
2. The resource pages of IOST and Tron, which send as `Transfers` does; EOS accounts and the
   token list; the EOS import's second reading of its fields; BGFMDB's table rebuild as an
   environment action of `WalletStore`.
3. Proofs: what the new modules bring.

## 6. Not modelled

Database writes that fail, and the toast in place of the main screen after one of them (see
WalletStore). Cryptography, key derivation, formatting, layout, the vendored libraries
(`Pods`, ethers, carousels), market, news, messages and feedback (read-only lists).
Amounts other than Bitcoin's: the models name an amount by its wallet or operation, so conversions such
as `strtoul` of a balance (`ETHClient.m:48`, listed as a hazard), of a Bitcoin amount from a
double, and the four fixed decimals of an EOS quantity are outside. Of the transfers: the token path of
`HSEther` (its only caller passes no token), gas limits, Bitcoin outputs of other kinds than to a
public key hash, freezing and the resource pages. The token list's retry on HTTP 429 has an empty
handler (`EOSClient.m:183`), and the check of the recovery phrase is inverted for testing
(`SCAffirmBackupController.m:181`): single tests that need no model. The picture page of a wallet
writes the snapshot of the row back with another picture. `PKRecoverIDController` and `BackupPriKeyController` are opened by
commented-out code only. Leaving an identity that was recovered is refused for any
password, since its rows never become system rows (`SCRecoverIDController.m:208`);
`FireExit` has the refusal.

Of the browser: the channels `push`, `pushAction` and `pushActions`, which pages older than
`scatter_pe2.js` use and which share the handlers modelled; leaving the browser's
page, which drops all of it; lists of eleven actions and more, which are put in
order by comparing their tags as texts (`DappDetailService.m:220`); the chain id, which is a
literal in `ExcuteMultipleActionsService.m:132`. Of the page script: `Network`, `Plugin` and
`PluginRepository` (data), `connect` and `isInstalled` (true at once), the stubs
that return 0. `scatter_pe.js` and `tp2.js` are the same program on one line each.
