------------------------------ MODULE DappBridge ------------------------------
(***************************************************************************)
(* The app's end of the DApp bridge: DAppDetailViewController, with        *)
(*   DappDetailService              decodes the actions to sign, reads     *)
(*   ExcuteMultipleActionsService   signs, or executes a list of actions   *)
(*   TransferService                pushes one transfer (see EosPush)      *)
(* and four views: the sheet that lists actions, the password view behind  *)
(* it, which may remember the password, the password prompt of a transfer, *)
(* and the view that authorizes the signature of a message.                *)
(*                                                                         *)
(* Every service and view is one object for all requests: it holds what the *)
(* latest message, answer or touch has put there.                          *)
(*                                                                         *)
(* A page's messages, touches and the answers of AFNetworking are handled  *)
(* one at a time on the main thread.  The answers of RequestManager's post *)
(* - an account that is read, and a transfer's - are handled one at a time *)
(* on the queue of the shared URL session, with the main thread in between *)
(* any two of their accesses to what both use: these take two steps.       *)
(*                                                                         *)
(* Assumed of the main queue: a block that a touch puts there runs before  *)
(* the next touch, and before a message that brings another view.  The     *)
(* prompt of a transfer takes itself away in such a block, and the view    *)
(* behind the sheet confirms in one: both are part of the touch here.      *)
(* Nothing blocks the main thread in between, as Bitcoin does (Transfers). *)
(*                                                                         *)
(* Messages of scatter_pe2.js are modelled (pushMessage); the names pushed *)
(* by older pages (push, pushAction, pushActions) are not.                 *)
(***************************************************************************)
EXTENDS PageRequests, FiniteSets, SequencesExt

CONSTANTS ActionsOf,  \* how many actions a request lists
          Patient,    \* pages wait for an answer before they ask again
          Remembers,  \* the user may have the password remembered
          MaxRuns,    \* bound: executions started by touches
          MaxActs,    \* bound: acts after which no message is signed any more
          MaxCalls    \* bound: calls into the page that the user's touches add to

ASSUME ActionsAssumption == ActionsOf \in [Requests -> Nat \ {0}]
ASSUME SwitchesAssumption == Patient \in BOOLEAN /\ Remembers \in BOOLEAN
ASSUME BoundsAssumption == {MaxRuns, MaxActs, MaxCalls} \subseteq Nat

VARIABLES
  models,     \* what the controller and its detail service were last asked for
  decoding,   \* the actions decoded for each signature, and the shared count
  list,       \* dataSourceArray: the actions to execute
  sheet,      \* dAppExcuteMutipleActionsBaseView; without pages it does not exist
  windows,    \* the views over everything, the topmost last
  nopass,     \* dappWithoutPasswordView: what is typed, and "remember" ticked
  text,       \* the request whose text accountAuthorizationView shows
  transfers,  \* TransferService: the contract and data it holds
  execs,      \* ExcuteMultipleActionsService: what it holds
  runs,       \* executions of lists, as their blocks hold them
  jobs,       \* requests to nodes and servers not answered yet
  acts,       \* history: what was signed or executed, and what the user was shown
  crossed     \* history: consent was asked for, or given once more, while open

native == <<models, decoding, list, sheet, windows, nopass, text, transfers,
            execs, runs, jobs, acts, crossed>>
vars == <<channel, native>>

-----------------------------------------------------------------------------
(* Data *)

\* An action of a list, or a transfer, whose contract and data have two sources.
Action == [code : Requests \cup {Nobody}, data : Requests \cup {Nobody}, n : Nat]

ActionOf(r, n) == [code |-> r, data |-> r, n |-> n]
Size(r) == IF method[r] \in {"sign", "actions"} THEN ActionsOf[r] ELSE 1
Whole(r) == IF r = Nobody THEN <<>> ELSE [n \in 1..Size(r) |-> ActionOf(r, n)]

\* What is collected while answers come in any order is sorted by the tags of the
\* actions, their places in the list.  As a list, and place by place.
Sorted(s, places) ==
  LET ith(i) == CHOOSE n \in places : Cardinality({m \in places : m <= n}) = i IN
  [i \in 1..Cardinality(places) |-> s[ith(i)]]
Kept(s, places) == [i \in places |-> s[i]]

NoSheet == [up |-> FALSE, pages |-> <<>>, length |-> 0, viewed |-> FALSE]
NoPass == [right |-> FALSE, tick |-> FALSE]

View(name, r) == [name |-> name, of |-> r]

\* "by" and "run": what it is part of; "of", "n" and "done": what it carries.
Job(kind, by, run) == [kind |-> kind, by |-> by, run |-> run, of |-> Nobody, n |-> 0,
                       done |-> <<>>, ok |-> FALSE]

Act(by, meant, done) == [by |-> by, meant |-> meant, done |-> done]

Good(r) == [of |-> r, good |-> TRUE, clear |-> TRUE]
Bad(r)  == [of |-> r, good |-> FALSE, clear |-> TRUE]

-----------------------------------------------------------------------------
(* The views *)

\* updateViewWithArray: a sheet still in use keeps its number of pages, its old
\* pages behind those the list replaces, and that everything was looked at.
Shown(actions) ==
  LET old == sheet.pages IN
  [up     |-> TRUE,
   pages  |-> IF old = <<>> THEN actions
              ELSE [i \in DOMAIN old |-> IF i <= Len(actions) THEN actions[i] ELSE old[i]],
   length |-> Len(actions),
   viewed |-> sheet.viewed \/ Len(actions) = 1]

SheetOnTop == sheet.up /\ windows = <<>>
OnTop(name) == windows # <<>> /\ Last(windows).name = name

\* addSubview: a view that is there already comes to the front.
Upon(views, view) ==
  LET there == {i \in DOMAIN views : views[i].name = view.name} IN
  Append(IF there = {} THEN views ELSE RemoveAt(views, CHOOSE i \in there : TRUE), view)

\* removeDappWithoutPasswordView keeps a view that is to remember.
NopassGone == nopass' = IF nopass.tick THEN nopass ELSE NoPass

\* Something a request for consent, or its execution, has left open.
ReadKinds == {"net", "reply"}
Working == \E j \in jobs : j.kind \notin ReadKinds
Open == sheet.pages # <<>> \/ windows # <<>> \/ Working

\* The session's queue is not in the middle of a handler.
Handling == {"reply", "args", "report"}
SessionIdle == \A j \in jobs : j.kind \notin Handling

-----------------------------------------------------------------------------
(* Messages: userContentController:didReceiveScriptMessage:                 *)
(* Each sets dappPushMessageModel, here models.latest, and dispatches.      *)

Latest(r) == models' = [models EXCEPT !.latest = r]

\* getEosAccount, getAppInfo, walletLanguage, getWalletWithAccount, and unknown
\* names: answered at once.  The wallet's name may hold a quote.
Read(r) ==
  /\ method[r] \in {"read", "wallet"}
  /\ Latest(r)
  /\ \E clear \in IF method[r] = "wallet" THEN BOOLEAN ELSE {TRUE} :
       Reply(r, [Good(r) EXCEPT !.clear = clear])
  /\ UNCHANGED <<decoding, list, sheet, windows, nopass, text, transfers, execs, runs, jobs, acts, crossed>>

\* getEosBalance, getEosAccountInfo, getTransactionById.
ReadNet(r) ==
  /\ method[r] = "net"
  /\ Latest(r)
  /\ jobs' = jobs \cup {Job("net", r, 0)}
  /\ UNCHANGED <<decoding, list, sheet, windows, nopass, text, transfers, execs, runs, acts, crossed, toPage>>

\* js_pushMessage_method_requestSignature: each action is sent to be decoded.
Sign(r) ==
  /\ method[r] = "sign"
  /\ models' = [models EXCEPT !.latest = r, !.toSign = r]
  /\ decoding' = [decoding EXCEPT !.count = 0, !.got[r] = {}]
  /\ jobs' = jobs \cup {[Job("decode", r, 0) EXCEPT !.n = n] : n \in 1..Size(r)}
  /\ crossed' = (crossed \/ Open)
  /\ UNCHANGED <<list, sheet, windows, nopass, text, transfers, execs, runs, acts, toPage>>

\* js_pushMessage_method_pushActions: buildDataSource empties the array of the
\* last request, which an execution under way still holds, and fills a new one.
PushActions(r) ==
  /\ method[r] = "actions"
  /\ models' = [models EXCEPT !.latest = r, !.actions = r]
  /\ list' = Whole(r)
  /\ execs' = IF execs.aliased THEN [execs EXCEPT !.array = <<>>, !.aliased = FALSE] ELSE execs
  /\ sheet' = Shown(list')
  /\ crossed' = (crossed \/ Open)
  /\ UNCHANGED <<decoding, windows, nopass, text, transfers, runs, jobs, acts, toPage>>

\* js_pushMessage_method_pushTransfer: a password prompt that shows no transfer.
PushTransfer(r) ==
  /\ method[r] = "transfer"
  /\ models' = [models EXCEPT !.latest = r, !.transfer = r]
  /\ windows' = Append(windows, View("prompt", r))
  /\ crossed' = (crossed \/ Open)
  /\ UNCHANGED <<decoding, list, sheet, nopass, text, transfers, execs, runs, jobs, acts, toPage>>

\* generateSignatureForMessage: refused for another key than the wallet's, else
\* the view comes to the front; its texts are those of its first use.
AuthorizeMessage(r, others) ==
  /\ models' = [models EXCEPT !.latest = r, !.message = r]
  /\ \/ /\ Reply(r, Bad(r))
        /\ windows' = others
        /\ UNCHANGED text
     \/ /\ windows' = Upon(others, View("message", r))
        /\ text' = IF text = Nobody THEN r ELSE text
        /\ UNCHANGED toPage

SignMessage(r) ==
  /\ method[r] = "message"
  /\ AuthorizeMessage(r, windows)
  /\ crossed' = (crossed \/ Open)
  /\ UNCHANGED <<decoding, list, sheet, nopass, transfers, execs, runs, jobs, acts>>

Message(r) ==
  /\ Receive(r)
  /\ \/ Read(r) \/ ReadNet(r) \/ Sign(r)
     \/ PushActions(r) \/ PushTransfer(r) \/ SignMessage(r)

-----------------------------------------------------------------------------
(* The page's reads and the decoding of actions: answers of servers         *)

\* getEosBalance, getTransactionById: the answer goes out with the serial number
\* of the latest message.
NetAnswer(j) ==
  /\ j.kind = "net"
  /\ jobs' = jobs \ {j}
  /\ \E clear \in BOOLEAN : Reply(models.latest, [Good(j.by) EXCEPT !.clear = clear])
  /\ UNCHANGED <<models, decoding, list, sheet, windows, nopass, text, transfers, execs, runs, acts, crossed>>

\* getEosAccountInfo, on the session's queue: the serial number is read, and then
\* the script evaluated.
AccountAnswer(j) ==
  /\ j.kind = "net" /\ SessionIdle
  /\ jobs' = (jobs \ {j}) \cup {[j EXCEPT !.kind = "reply", !.of = models.latest]}
  /\ UNCHANGED <<models, decoding, list, sheet, windows, nopass, text, transfers, execs, runs, acts, crossed, toPage>>

AccountReply(j) ==
  /\ j.kind = "reply"
  /\ jobs' = jobs \ {j}
  /\ \E clear \in BOOLEAN : Reply(j.of, [Good(j.by) EXCEPT !.clear = clear])
  /\ UNCHANGED <<models, decoding, list, sheet, windows, nopass, text, transfers, execs, runs, acts, crossed>>

DecodeAnswerDown(j) ==   \* faulty: counts down a number that was never set
  /\ j.kind = "decode"
  /\ jobs' = jobs \ {j}
  /\ LET got == decoding.got[j.by] \cup {j.n} IN
     /\ decoding' = [count |-> decoding.count - 1, got |-> [decoding.got EXCEPT ![j.by] = got]]
     /\ sheet' = IF decoding'.count = 0 THEN Shown(Sorted(Whole(j.by), got)) ELSE sheet
  /\ UNCHANGED <<models, list, windows, nopass, text, transfers, execs, runs, acts, crossed, toPage>>

\* buildAbi_bin_to_jsonDataSource: the count is the service's, the list that is
\* collected the request's; the sheet is shown when the one fits the other.
DecodeAnswer(j) ==
  /\ j.kind = "decode"
  /\ jobs' = jobs \ {j}
  /\ LET got == decoding.got[j.by] \cup {j.n} IN
     /\ decoding' = [count |-> decoding.count + 1, got |-> [decoding.got EXCEPT ![j.by] = got]]
     /\ sheet' = IF decoding'.count = Size(j.by)
                 THEN Shown(Sorted(Whole(j.by), got)) ELSE sheet
  /\ UNCHANGED <<models, list, windows, nopass, text, transfers, execs, runs, acts, crossed, toPage>>

-----------------------------------------------------------------------------
(* The sheet and its password *)

\* generateScatterSignature and handleEccSignature: without a signature the
\* answer says "signed" all the same.
SignActions(meant) ==
  LET r == models.toSign
      right == nopass.right IN
  /\ execs' = [execs EXCEPT !.array = Whole(r), !.aliased = FALSE, !.right = right]
  /\ acts' = IF right THEN Append(acts, Act(r, meant, Whole(r))) ELSE acts
  /\ Reply(models.latest, Good(IF right THEN r ELSE Nobody))
  /\ UNCHANGED <<models, text, runs, jobs, crossed>>

\* pushActions, and excuteMultipleActionsWithSender of the service.
Execute(meant) ==
  /\ Len(runs) < MaxRuns
  /\ execs' = [execs EXCEPT !.array = list, !.aliased = TRUE, !.right = nopass.right]
  /\ runs' = Append(runs, [by |-> models.actions, meant |-> meant, acts |-> <<>>, got |-> {}])
  /\ jobs' = jobs \cup {Job("info", models.actions, Len(runs) + 1)}
  /\ crossed' = (crossed \/ Working \/ \E i \in DOMAIN runs : runs[i].by = models.actions)
  /\ UNCHANGED <<models, text, acts, toPage>>

\* handleExcuteMutipleActions: what is done is what the latest message asks for.
\* A message to authorize brings its own view over the others.
Confirmed(meant, others) ==
  LET r == models.latest
      kind == IF r = Nobody THEN "none" ELSE method[r] IN
  \/ kind = "sign" /\ SignActions(meant) /\ windows' = others
  \/ kind = "actions" /\ Execute(meant) /\ windows' = others
  \/ kind = "message" /\ AuthorizeMessage(r, others) /\ UNCHANGED <<execs, runs, jobs, acts, crossed>>
  \/ /\ kind \notin {"sign", "actions", "message"}
     /\ windows' = others
     /\ UNCHANGED <<models, execs, text, runs, jobs, acts, crossed, toPage>>

\* The last page is scrolled to: there are as many as the sheet had at first.
LookAtAll ==
  /\ SheetOnTop /\ ~sheet.viewed
  /\ sheet.length <= Len(sheet.pages)
  /\ sheet' = [sheet EXCEPT !.viewed = TRUE]
  /\ UNCHANGED <<models, decoding, list, windows, nopass, text, transfers, execs, runs, jobs, acts, crossed, toPage>>

\* excuteMutipleActionsConfirmBtnDidClick: with the password remembered there is
\* no other question, and only a signature takes the sheet away.
ConfirmSheet ==
  /\ SheetOnTop /\ sheet.viewed
  /\ IF nopass.tick
       THEN /\ Confirmed(sheet.pages, windows)
            /\ sheet' = IF toPage' # toPage /\ method[models.latest] = "sign" THEN NoSheet ELSE sheet
       ELSE /\ windows' = <<View("nopass", Nobody)>>
            /\ UNCHANGED <<models, sheet, execs, text, runs, jobs, acts, crossed, toPage>>
  /\ UNCHANGED <<decoding, list, nopass, transfers>>

\* excuteMutipleActionsCloseBtnDidClick
CloseSheet ==
  /\ SheetOnTop
  /\ sheet' = NoSheet
  /\ Reply(models.latest, Bad(models.latest))
  /\ UNCHANGED <<models, decoding, list, windows, nopass, text, transfers, execs, runs, jobs, acts, crossed>>

\* The same tap is also the view's own: it hides itself, unless the other wins.
HideSheet ==
  /\ SheetOnTop
  /\ sheet' = [sheet EXCEPT !.up = FALSE]
  /\ UNCHANGED <<models, decoding, list, windows, nopass, text, transfers, execs, runs, jobs, acts, crossed, toPage>>

\* The text field and the tick; nothing typed is as good as a wrong password.
TypePassword(right, tick) ==
  /\ OnTop("nopass")
  /\ tick => Remembers
  /\ nopass' = [right |-> right, tick |-> tick]
  /\ UNCHANGED <<models, decoding, list, sheet, windows, text, transfers, execs, runs, jobs, acts, crossed, toPage>>

CancelPassword ==
  /\ OnTop("nopass")
  /\ windows' = Front(windows)
  /\ NopassGone
  /\ UNCHANGED <<models, decoding, list, sheet, text, transfers, execs, runs, jobs, acts, crossed, toPage>>

ConfirmPasswordKeepingSheet ==   \* faulty: the sheet stays, to be confirmed again
  /\ OnTop("nopass") /\ nopass.right
  /\ Confirmed(sheet.pages, Front(windows))
  /\ NopassGone
  /\ UNCHANGED <<decoding, list, sheet, transfers>>

\* dappWithoutPasswordViewConfirmBtnDidClick, which the view's touch leaves to a
\* block of the main queue (assumed to run before the next touch): nothing
\* happens with another password than the wallet's.
ConfirmPassword ==
  /\ OnTop("nopass") /\ nopass.right
  /\ Confirmed(sheet.pages, Front(windows))
  /\ NopassGone
  /\ sheet' = NoSheet
  /\ UNCHANGED <<decoding, list, transfers>>

-----------------------------------------------------------------------------
(* Execution of a list: ExcuteMultipleActionsService                        *)

\* get_info; then what was encoded is dropped, and there is a request for each
\* action of the array as it is by now.
InfoAnswer(j) ==
  /\ j.kind = "info"
  /\ runs' = [runs EXCEPT ![j.run].acts = execs.array]
  /\ execs' = [execs EXCEPT !.count = 0, !.final = <<>>]
  /\ jobs' = (jobs \ {j}) \cup 
       {[Job("encode", j.by, j.run) EXCEPT !.n = n] : n \in DOMAIN execs.array}
  /\ UNCHANGED <<models, decoding, list, sheet, windows, nopass, text, transfers, acts, crossed, toPage>>

\* abi_json_to_bin: the count and the array it is compared with are the service's.
EncodeAnswer(j) ==
  /\ j.kind = "encode"
  /\ LET got == runs[j.run].got \cup {j.n}
         enough == execs.count + 1 = Len(execs.array) IN
     /\ runs' = [runs EXCEPT ![j.run].got = got]
     /\ execs' = [execs EXCEPT !.count = @ + 1,
                               !.final = IF enough THEN Kept(runs[j.run].acts, got) ELSE @]
     /\ jobs' = (jobs \ {j}) \cup IF enough THEN {Job("keys", j.by, j.run)} ELSE {}
  /\ UNCHANGED <<models, decoding, list, sheet, windows, nopass, text, transfers, acts, crossed, toPage>>

\* get_required_keys: what the service holds now is signed and pushed, unless the
\* password it holds opens no key.
KeysAnswer(j) ==
  /\ j.kind = "keys"
  /\ jobs' = (jobs \ {j}) \cup
       IF execs.right THEN {[Job("push", j.by, j.run) EXCEPT !.done = execs.final]} ELSE {}
  /\ UNCHANGED <<models, decoding, list, sheet, windows, nopass, text, transfers, execs, runs, acts, crossed, toPage>>

\* push_transaction at the node: executed, or not.
ExecuteAtNode(j) ==
  /\ j.kind = "push"
  /\ \E ok \in BOOLEAN :
       /\ jobs' = (jobs \ {j}) \cup {[j EXCEPT !.kind = "pushed", !.ok = ok]}
       /\ acts' = IF ok THEN Append(acts, Act(j.by, runs[j.run].meant, j.done)) ELSE acts
  /\ UNCHANGED <<models, decoding, list, sheet, windows, nopass, text, transfers, execs, runs, crossed, toPage>>

\* excuteMultipleActionsDidFinish: to the latest request of a list of actions.
Executed(j) ==
  /\ j.kind = "pushed"
  /\ jobs' = jobs \ {j}
  /\ sheet' = NoSheet
  /\ \E clear \in IF j.ok THEN {TRUE} ELSE BOOLEAN :
       Reply(models.actions, [of |-> j.by, good |-> j.ok, clear |-> clear])
  /\ UNCHANGED <<models, decoding, list, windows, nopass, text, transfers, execs, runs, acts, crossed>>

-----------------------------------------------------------------------------
(* A transfer: the prompt, pushAction, TransferService                      *)

\* The prompt's own check is against another record of the wallet: refused there,
\* the prompt goes without a word to the page.  It goes in a block of the main
\* queue, here and below, assumed to run before the next touch: no second tap.
PromptRefused ==
  /\ OnTop("prompt")
  /\ windows' = Front(windows)
  /\ UNCHANGED <<models, decoding, list, sheet, nopass, text, transfers, execs, runs, jobs, acts, crossed, toPage>>

\* loginCancle, or a password that is not this wallet's in loginConfirm.
PromptCancelled ==
  /\ OnTop("prompt")
  /\ windows' = Front(windows)
  /\ Reply(models.latest, Bad(models.latest))
  /\ UNCHANGED <<models, decoding, list, sheet, nopass, text, transfers, execs, runs, jobs, acts, crossed>>

\* loginConfirm, pushAction: the data of the latest transfer is sent to be encoded.
PromptConfirmed ==
  /\ OnTop("prompt")
  /\ windows' = Front(windows)
  /\ jobs' = jobs \cup {[Job("abi", Last(windows).of, 0) EXCEPT !.of = models.transfer]}
  /\ UNCHANGED <<models, decoding, list, sheet, nopass, text, transfers, execs, runs, acts, crossed, toPage>>

\* On the session's queue: the contract is that of the latest transfer by now ...
AbiAnswer(j) ==
  /\ j.kind = "abi" /\ SessionIdle
  /\ transfers' = [transfers EXCEPT !.code = models.transfer]
  /\ jobs' = (jobs \ {j}) \cup {[j EXCEPT !.kind = "args"]}
  /\ UNCHANGED <<models, decoding, list, sheet, windows, nopass, text, execs, runs, acts, crossed, toPage>>

\* ... and the data the answer's.
SetArgs(j) ==
  /\ j.kind = "args"
  /\ transfers' = [transfers EXCEPT !.data = j.of]
  /\ jobs' = (jobs \ {j}) \cup {[j EXCEPT !.kind = "send"]}
  /\ UNCHANGED <<models, decoding, list, sheet, windows, nopass, text, execs, runs, acts, crossed, toPage>>

\* TransferService signs and sends what it holds (its steps are EosPush's), on the
\* session's queue in the end: never between the contract and the data.
Send(j) ==
  /\ j.kind = "send" /\ SessionIdle
  /\ jobs' = (jobs \ {j}) \cup
       {[Job("transfer", j.by, 0) EXCEPT
           !.done = <<[code |-> transfers.code, data |-> transfers.data, n |-> 1]>>]}
  /\ UNCHANGED <<models, decoding, list, sheet, windows, nopass, text, transfers, execs, runs, acts, crossed, toPage>>

\* push_transaction at the node: executed, or refused or lost on its way.
TransferAtNode(j) ==
  /\ j.kind = "transfer"
  /\ \E ok \in BOOLEAN :
       /\ jobs' = (jobs \ {j}) \cup {[j EXCEPT !.kind = "transferred", !.ok = ok]}
       /\ acts' = IF ok THEN Append(acts, Act(j.by, Whole(j.by), j.done)) ELSE acts
  /\ UNCHANGED <<models, decoding, list, sheet, windows, nopass, text, transfers, execs, runs, crossed, toPage>>

\* pushTransactionDidFinish, on the session's queue, also when the answer is lost:
\* the serial number of the latest message is read ...
Transferred(j) ==
  /\ j.kind = "transferred" /\ SessionIdle
  /\ jobs' = (jobs \ {j}) \cup {[j EXCEPT !.kind = "report", !.of = models.latest]}
  /\ UNCHANGED <<models, decoding, list, sheet, windows, nopass, text, transfers, execs, runs, acts, crossed, toPage>>

ReportTrusting(j) ==   \* faulty: any answer is taken for a transaction's
  /\ j.kind = "report"
  /\ jobs' = jobs \ {j}
  /\ Reply(j.of, Good(j.by))
  /\ UNCHANGED <<models, decoding, list, sheet, windows, nopass, text, transfers, execs, runs, acts, crossed>>

\* ... and then the script evaluated.
Report(j) ==
  /\ j.kind = "report"
  /\ jobs' = jobs \ {j}
  /\ \E good \in {j.ok, FALSE}, clear \in BOOLEAN :
       Reply(j.of, [of |-> j.by, good |-> good, clear |-> clear])
  /\ UNCHANGED <<models, decoding, list, sheet, windows, nopass, text, transfers, execs, runs, acts, crossed>>

-----------------------------------------------------------------------------
(* The signature of a message: AccountAuthorizationView                     *)

\* Its cross, or a tap beside it: the page is not told.
LeaveMessage ==
  /\ OnTop("message")
  /\ windows' = Front(windows)
  /\ UNCHANGED <<models, decoding, list, sheet, nopass, text, transfers, execs, runs, jobs, acts, crossed, toPage>>

\* accountAuthorizationViewPassWord: the latest message to sign, for the latest
\* message of any kind.
ConfirmMessage ==
  /\ OnTop("message")
  /\ windows' = Front(windows)
  /\ \/ /\ Len(acts) < MaxActs
        /\ acts' = Append(acts, Act(models.message, Whole(text), Whole(models.message)))
        /\ Reply(models.latest, Good(models.message))
     \/ /\ Reply(models.latest, Bad(models.latest))
        /\ UNCHANGED acts
  /\ UNCHANGED <<models, decoding, list, sheet, nopass, text, transfers, execs, runs, jobs, crossed>>

-----------------------------------------------------------------------------

\* A request to a server fails, without a word; that of a transfer's push is
\* reported, by Transferred.
Fail(j) ==
  /\ j.kind \notin Handling \cup {"transfer", "transferred"}
  /\ jobs' = jobs \ {j}
  /\ UNCHANGED <<models, decoding, list, sheet, windows, nopass, text, transfers, execs, runs, acts, crossed, toPage>>

Init ==
  /\ ChannelInit
  /\ models = [latest |-> Nobody, toSign |-> Nobody, actions |-> Nobody,
               transfer |-> Nobody, message |-> Nobody]
  /\ decoding = [count |-> 0, got |-> [r \in Requests |-> {}]]
  /\ list = <<>>
  /\ sheet = NoSheet
  /\ windows = <<>>
  /\ nopass = NoPass
  /\ text = Nobody
  /\ transfers = [code |-> Nobody, data |-> Nobody]
  /\ execs = [array |-> <<>>, aliased |-> FALSE, right |-> FALSE, count |-> 0, final |-> <<>>]
  /\ runs = <<>>
  /\ jobs = {}
  /\ acts = <<>>
  /\ crossed = FALSE

Answered(j) ==
  \/ NetAnswer(j) \/ AccountAnswer(j) \/ AccountReply(j)
  \/ DecodeAnswer(j) \/ InfoAnswer(j) \/ EncodeAnswer(j) \/ KeysAnswer(j)
  \/ ExecuteAtNode(j) \/ Executed(j)
  \/ AbiAnswer(j) \/ SetArgs(j) \/ Send(j) \/ TransferAtNode(j) \/ Transferred(j) \/ Report(j)
  \/ Fail(j)

Touch ==
  \/ LookAtAll \/ ConfirmSheet \/ CloseSheet \/ HideSheet
  \/ \E right, tick \in BOOLEAN : TypePassword(right, tick)
  \/ CancelPassword \/ ConfirmPassword
  \/ PromptRefused \/ PromptCancelled \/ PromptConfirmed
  \/ LeaveMessage \/ ConfirmMessage

\* A message of the page, an answer of a server, a touch.
App ==
  \/ \E r \in Requests : Message(r)
  \/ \E j \in jobs : Answered(j) /\ UNCHANGED <<method, promise, result, callback, toNative>>
  \/ Touch /\ Len(toPage) <= MaxCalls /\ UNCHANGED <<method, promise, result, callback, toNative>>

Evaluate == toPage # <<>> /\ CallBack(Head(toPage)) /\ UNCHANGED native

\* The page: a request, an evaluated answer, a navigation.
Page ==
  \/ \E r \in Requests : (Patient => Pending = {}) /\ Ask(r) /\ UNCHANGED native
  \/ Evaluate
  \/ ~Patient /\ Load /\ UNCHANGED native

Next == App \/ Page

Spec == Init /\ [][Next]_vars

-----------------------------------------------------------------------------
(* Properties *)

TypeOK ==
  /\ ChannelOK
  /\ models \in [{"latest", "toSign", "actions", "transfer", "message"} -> Requests \cup {Nobody}]
  /\ decoding.count \in Nat /\ decoding.got \in [Requests -> SUBSET Nat]
  /\ list \in Seq(Action)
  /\ sheet.pages \in Seq(Action) /\ sheet.length \in Nat /\ sheet.up \in BOOLEAN
  /\ windows \in Seq([name : {"nopass", "prompt", "message"}, of : Requests \cup {Nobody}])
  /\ nopass \in [right : BOOLEAN, tick : BOOLEAN]
  /\ text \in Requests \cup {Nobody}
  /\ execs.array \in Seq(Action)
  /\ runs \in Seq([by : Requests \cup {Nobody}, meant : Seq(Action), acts : Seq(Action), got : SUBSET Nat])
  /\ \A i \in DOMAIN acts : acts[i].by \in Requests /\ \A n \in DOMAIN acts[i].done : acts[i].done[n] \in Action

\* A request that another one of the page has overtaken is never answered,
\* whatever the app does: the page keeps one callback, not one per request.
OvertakenStayPending ==
  [][\A r \in Requests : Overtaken(r) => promise'[r] = "lost" \/ Overtaken(r)']_vars

\* As long as consent is asked for one thing at a time, whatever the page reads
\* meanwhile and however answers and touches fall: what is signed or executed is
\* one request of the page, all of it, once, and its actions are those shown.
LoneConsentsAreExact ==
  ~crossed =>
    /\ \A i \in DOMAIN acts :
         LET act == acts[i] IN
         /\ act.done = Whole(act.by)
         /\ method[act.by] \in {"sign", "actions"} => act.meant = act.done
    /\ \A i, j \in DOMAIN acts : acts[i].by = acts[j].by => i = j

\* The message that is signed is the one the view has shown.
MessageSignedWasShown ==
  \A i \in DOMAIN acts : method[acts[i].by] = "message" => acts[i].meant = acts[i].done

\* What the page has been told of a request.
Told(r) == IF promise[r] # "settled" THEN "nothing"
           ELSE IF result[r].of # r THEN "another's"
           ELSE IF result[r].good THEN "done" ELSE "refused"

Book == INSTANCE RequestBook
          WITH consents <- {r \in Requests : NeedsConsent(r)},
               asked <- {r \in Requests : promise[r] # "unborn"},
               done <- [i \in DOMAIN acts |->
                          IF acts[i].done = Whole(acts[i].by) THEN acts[i].by ELSE Nobody],
               told <- [r \in Requests |-> Told(r)]

\* The bridge keeps the promise of RequestBook to a page that waits for each
\* answer, as long as the password is not remembered.
KeepsBook == Book!Spec

\* The main thread takes messages, the page evaluates what the app calls.
FairSpec == Spec /\ WF_vars(\E r \in Requests : Message(r)) /\ WF_vars(Evaluate)

\* A page that waits for its answers is answered what the app knows by itself,
\* whatever came before and whatever its user leaves open.
ReadsAreAnswered ==
  \A r \in Requests : (method[r] = "read" /\ r \in Pending) ~> promise[r] = "settled"

=============================================================================
