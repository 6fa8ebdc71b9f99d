---------------------------- MODULE DappBookProofs ----------------------------
(***************************************************************************)
(* Proofs about the course of a request through DappBridge, for any        *)
(* requests, methods, lists and bounds: that DappBridge implements         *)
(* RequestBook when pages wait for each answer and no password is          *)
(* remembered, and that whatever pages do, consents that do not cross are  *)
(* carried out exactly.                                                    *)
(***************************************************************************)
EXTENDS DappBridgeProofs

-----------------------------------------------------------------------------
(* The invariant.  While a page waits, everything the app holds belongs to  *)
(* the one request that is pending, the latest: the app is at one stage of  *)
(* its life, and the stages say what has still to come.                     *)

Waits == Patient = TRUE /\ Remembers = FALSE

Mine == models.latest
Carried(r) == \E i \in DOMAIN acts : acts[i].by = r
Fresh == ~Carried(Mine)

\* The shapes of the records whose fields the steps write one by one.
IsExecs(x) == x = [array |-> x.array, aliased |-> x.aliased, right |-> x.right,
                   count |-> x.count, final |-> x.final]
IsRun(x) == x = [by |-> x.by, meant |-> x.meant, acts |-> x.acts, got |-> x.got]
IsJob(x) == x = [kind |-> x.kind, by |-> x.by, run |-> x.run, of |-> x.of, n |-> x.n,
                 done |-> x.done, ok |-> x.ok]
IsTransfers(x) == x = [code |-> x.code, data |-> x.data]
IsSheet(x) == x = [up |-> x.up, pages |-> x.pages, length |-> x.length, viewed |-> x.viewed]

ModelsOK ==
  models \in [latest : MaybeRequest, toSign : MaybeRequest, actions : MaybeRequest,
              transfer : MaybeRequest, message : MaybeRequest]
DecodingOK == decoding \in [count : Nat, got : [Requests -> SUBSET Nat]]
ViewsOK == IsSheet(sheet) /\ nopass.tick = FALSE
ExecsOK == IsExecs(execs)
RunsOK == Indexed(runs) /\ \A k \in DOMAIN runs : IsRun(runs[k])
ActsOK == Indexed(acts)
Shapes == ModelsOK /\ DecodingOK /\ ViewsOK /\ ExecsOK /\ RunsOK /\ ActsOK

\* Stages without a view: nothing is open, or answers of servers are awaited.
Blank == windows = <<>> /\ ~sheet.up
Resting == Blank /\ jobs = {}

Decoding ==
  /\ Blank /\ Fresh
  /\ method[Mine] = "sign" /\ models.toSign = Mine
  /\ decoding.got[Mine] \subseteq 1..Size(Mine)
  /\ decoding.count = Cardinality(decoding.got[Mine])
  /\ jobs \subseteq {[Job("decode", Mine, 0) EXCEPT !.n = n] :
                      n \in (1..Size(Mine)) \ decoding.got[Mine]}

Listing == method[Mine] = "actions" /\ models.actions = Mine

Encoding(k) ==
  /\ Blank /\ Fresh /\ Listing
  /\ k \in DOMAIN runs
  /\ runs[k].acts = Whole(Mine) /\ execs.array = Whole(Mine)
  /\ runs[k].got \subseteq 1..Size(Mine)
  /\ execs.count = Cardinality(runs[k].got)
  /\ jobs \subseteq {[Job("encode", Mine, k) EXCEPT !.n = n] :
                      n \in (1..Size(Mine)) \ runs[k].got}

Executing(j) ==
  /\ Listing /\ Fresh /\ j.run \in DOMAIN runs
  /\ \/ j.kind = "info" /\ runs[j.run].got = {} /\ execs.array = Whole(Mine)
     \/ j.kind = "keys" /\ execs.final = Whole(Mine)
     \/ j.kind = "push" /\ j.done = Whole(Mine)

Transferring(j) ==
  /\ method[Mine] = "transfer" /\ models.transfer = Mine /\ Fresh
  /\ \/ j.kind = "abi" /\ j.of = Mine
     \/ j.kind = "args" /\ j.of = Mine /\ transfers.code = Mine
     \/ j.kind = "send" /\ transfers = [code |-> Mine, data |-> Mine]
     \/ j.kind = "transfer" /\ j.done = Whole(Mine)

Ending(j) ==
  /\ \/ j.kind = "pushed" /\ Listing
     \/ j.kind = "transferred" /\ method[Mine] = "transfer"
     \/ j.kind = "report" /\ method[Mine] = "transfer" /\ j.of = Mine
  /\ j.ok \in BOOLEAN /\ (j.ok => Carried(Mine))

Served(j) ==
  /\ Blank /\ jobs = {j} /\ IsJob(j) /\ j.by = Mine
  /\ \/ j.kind = "net" /\ method[Mine] = "net"
     \/ j.kind = "reply" /\ method[Mine] = "net" /\ j.of = Mine
     \/ Executing(j) \/ Transferring(j) \/ Ending(j)

\* Stages with a view for the user.
Listed ==
  /\ jobs = {} /\ sheet.up /\ Fresh
  /\ windows = <<>> \/ windows = <<View("nopass", Nobody)>>
  /\ \/ method[Mine] = "sign" /\ models.toSign = Mine
     \/ Listing /\ list = Whole(Mine)

Prompted ==
  /\ jobs = {} /\ ~sheet.up /\ Fresh
  /\ windows = <<View("prompt", Mine)>>
  /\ method[Mine] = "transfer" /\ models.transfer = Mine

Texted ==
  /\ jobs = {} /\ ~sheet.up /\ Fresh
  /\ windows = <<View("message", Mine)>>
  /\ method[Mine] = "message" /\ models.message = Mine

\* The message is on its way, the app works on it, its answer is on its way, or
\* nothing is going on.
Posted ==
  /\ Resting /\ toPage = <<>>
  /\ \E r \in Pending : toNative = <<r>> /\ ~Carried(r)

Busy ==
  /\ toNative = <<>> /\ toPage = <<>> /\ Mine \in Pending
  /\ \/ Decoding \/ Listed \/ Prompted \/ Texted
     \/ \E j \in jobs : Served(j) \/ Encoding(j.run)

Answering ==
  /\ Resting /\ toNative = <<>> /\ Mine \in Pending
  /\ toPage # <<>> /\ Tail(toPage) = <<>>
  /\ Head(toPage).serial = Mine
  /\ Head(toPage).answer.of = Mine
  /\ Head(toPage).answer.good /\ NeedsConsent(Mine) => Carried(Mine)

Idle == Resting /\ toNative = <<>> /\ toPage = <<>>

Stage == Posted \/ Busy \/ Answering \/ Idle

OnePending == \A r \in Pending : callback = r

ActsAreExact ==
  \A i \in DOMAIN acts : /\ acts[i].by \in Requests
                         /\ promise[acts[i].by] # "unborn"
                         /\ acts[i].done = Whole(acts[i].by)

BookInv ==
  /\ PromiseOK /\ result = [r \in Requests |-> result[r]]
  /\ Shapes /\ OnePending /\ ActsAreExact /\ Stage

\* What a step of the app may do: carry out the latest request, once.
CarriesOut ==
  /\ Mine \in Pending /\ NeedsConsent(Mine) /\ Fresh
  /\ \E meant : acts' = Append(acts, Act(Mine, meant, Whole(Mine)))

PageStays == UNCHANGED <<method, promise, result, callback>>
Goal == Shapes' /\ Stage' /\ (acts' = acts \/ CarriesOut)

-----------------------------------------------------------------------------
(* What a stage says of the step at hand *)

\* A job's fields are what it was made from.
LEMMA JobFields ==
  ASSUME NEW kind, NEW by, NEW run, NEW n
  PROVE  LET x == [Job(kind, by, run) EXCEPT !.n = n] IN
         x.kind = kind /\ x.by = by /\ x.run = run /\ x.n = n
BY DEF Job

\* With the page as it is, what requests ask for is as it is.
LEMMA Steady ==
  ASSUME PageStays
  PROVE  /\ PromiseOK => PromiseOK'
         /\ Pending' = Pending
         /\ \A r : Size(r)' = Size(r) /\ Whole(r)' = Whole(r) /\ NeedsConsent(r)' = NeedsConsent(r)
BY DEF PageStays, PromiseOK, Pending, Size, Whole, NeedsConsent

\* A message is taken when nothing else is going on.
LEMMA AtPost ==
  ASSUME BookInv, NEW r \in Requests, Receive(r)
  PROVE  /\ Resting /\ toPage = <<>> /\ r \in Pending /\ ~Carried(r)
         /\ toNative' = <<>>
<1>1. Posted
  BY DEF BookInv, Stage, Receive, Busy, Answering, Idle
<1> QED BY <1>1, OneCall DEF Posted, Receive

\* An answer of a server belongs to the stage its kind tells.
LEMMA AtAnswer ==
  ASSUME BookInv, NEW j \in jobs
  PROVE  /\ Busy
         /\ j.kind = "decode" =>
              Decoding /\ j.by = Mine /\ j.n \in (1..Size(Mine)) \ decoding.got[Mine]
         /\ j.kind = "encode" =>
              Encoding(j.run) /\ j.by = Mine /\ j.n \in (1..Size(Mine)) \ runs[j.run].got
         /\ j.kind \notin {"decode", "encode"} => Served(j)
<1>1. Busy
  BY DEF BookInv, Stage, Posted, Answering, Idle, Resting
<1>2. CASE Decoding
  <2>1. PICK n \in (1..Size(Mine)) \ decoding.got[Mine] : j = [Job("decode", Mine, 0) EXCEPT !.n = n]
    BY <1>2 DEF Decoding
  <2> QED BY <1>1, <1>2, <2>1, JobFields
<1>3. ASSUME NEW i \in jobs, Encoding(i.run) PROVE j.kind = "encode" /\ Encoding(j.run)
          /\ j.by = Mine /\ j.n \in (1..Size(Mine)) \ runs[j.run].got
  <2> DEFINE k == i.run
  <2>1. PICK m \in (1..Size(Mine)) \ runs[k].got : i = [Job("encode", Mine, k) EXCEPT !.n = m]
    BY <1>3 DEF Encoding
  <2>2. PICK n \in (1..Size(Mine)) \ runs[k].got : j = [Job("encode", Mine, k) EXCEPT !.n = n]
    BY <1>3 DEF Encoding
  <2> HIDE DEF k
  <2>3. i.run = k /\ j.run = k /\ j.by = Mine /\ j.n = n /\ j.kind = "encode"
    BY <2>1, <2>2, JobFields
  <2> QED BY <1>3, <2>2, <2>3
<1>4. ASSUME NEW i \in jobs, Served(i) PROVE j = i /\ j.kind \notin {"decode", "encode"}
  BY <1>4 DEF Served, Executing, Transferring, Ending
<1> QED BY <1>1, <1>2, <1>3, <1>4 DEF Busy, Listed, Prompted, Texted

-----------------------------------------------------------------------------
(* What a step leads to *)

\* An answer of its own on the way to the page is a stage of a request's life.
LEMMA ToAnswering ==
  ASSUME NEW r, NEW e,
         Blank', jobs' = {}, toNative' = <<>>, toPage = <<>>,
         toPage' = Append(toPage, [serial |-> r, answer |-> e]),
         Mine' = r, r \in Pending', e.of = r,
         e.good /\ NeedsConsent(r)' => Carried(r)'
  PROVE  Stage'
<1> DEFINE call == [serial |-> r, answer |-> e]
<1>1. call.serial = r /\ call.answer = e
  OBVIOUS
<1> HIDE DEF call
<1>2. toPage' # <<>> /\ Head(toPage') = call /\ Tail(toPage') = <<>>
  BY OneCall DEF call
<1>3. Answering'
  BY <1>1, <1>2, Zenon DEF Answering, Resting
<1> QED BY <1>3 DEF Stage

\* So is nothing at all.
LEMMA ToIdle ==
  ASSUME Blank', jobs' = {}, toNative' = <<>>, toPage' = <<>>
  PROVE  Stage'
BY DEF Stage, Idle, Resting

\* And work on the latest request.
LEMMA ToBusy ==
  ASSUME toNative' = <<>>, toPage' = <<>>, Mine' \in Pending',
         \/ Decoding' \/ Listed' \/ Prompted' \/ Texted'
         \/ \E j \in jobs' : Served(j)' \/ Encoding(j.run)'
  PROVE  Stage'
BY DEF Stage, Busy

\* What is not written keeps its shape.
LEMMA ShapesStay ==
  ASSUME Shapes
  PROVE  /\ UNCHANGED models => ModelsOK'
         /\ UNCHANGED decoding => DecodingOK'
         /\ UNCHANGED <<sheet, nopass>> => ViewsOK'
         /\ UNCHANGED execs => ExecsOK'
         /\ UNCHANGED runs => RunsOK'
         /\ UNCHANGED acts => ActsOK'
<1>1. UNCHANGED models => ModelsOK'
  BY DEF Shapes, ModelsOK
<1>2. UNCHANGED decoding => DecodingOK'
  BY DEF Shapes, DecodingOK
<1>3. UNCHANGED <<sheet, nopass>> => ViewsOK'
  BY DEF Shapes, ViewsOK, IsSheet
<1>4. UNCHANGED execs => ExecsOK'
  BY DEF Shapes, ExecsOK, IsExecs
<1>5. UNCHANGED runs => RunsOK'
  BY DEF Shapes, RunsOK, Indexed, IsRun
<1>6. UNCHANGED acts => ActsOK'
  BY DEF Shapes, ActsOK, Indexed
<1> QED BY <1>1, <1>2, <1>3, <1>4, <1>5, <1>6

\* The latest message, alone or with the latest of its kind.
LEMMA LatestHolds ==
  ASSUME Shapes, NEW r \in Requests
  PROVE  /\ models' = [models EXCEPT !.latest = r] => ModelsOK' /\ Mine' = r
         /\ models' = [models EXCEPT !.latest = r, !.toSign = r]
              => ModelsOK' /\ Mine' = r /\ models'.toSign = r
         /\ models' = [models EXCEPT !.latest = r, !.actions = r]
              => ModelsOK' /\ Mine' = r /\ models'.actions = r
         /\ models' = [models EXCEPT !.latest = r, !.transfer = r]
              => ModelsOK' /\ Mine' = r /\ models'.transfer = r
         /\ models' = [models EXCEPT !.latest = r, !.message = r]
              => ModelsOK' /\ Mine' = r /\ models'.message = r
BY DEF Shapes, ModelsOK, MaybeRequest, Mine

-----------------------------------------------------------------------------
(* Messages: each starts the work on its request *)

Taken(r) ==
  /\ PageStays /\ PromiseOK /\ Shapes
  /\ Blank /\ jobs = {} /\ toPage = <<>> /\ toNative' = <<>>
  /\ r \in Requests /\ r \in Pending /\ ~Carried(r)

\* A message that is taken finds nothing else going on.
LEMMA TakenHolds ==
  ASSUME BookInv, NEW r \in Requests, Message(r)
  PROVE  Taken(r)
<1>1. Receive(r)
  BY DEF Message
<1>2. PageStays
  BY <1>1 DEF Receive, PageStays
<1> QED BY <1>1, <1>2, AtPost DEF Resting, Taken, BookInv

\* What the page asks for stays as it is while a message is taken.
LEMMA TakenStays ==
  ASSUME NEW r, Taken(r)
  PROVE  /\ Pending' = Pending /\ r \in Pending' /\ method' = method
         /\ Size(r)' = Size(r) /\ Whole(r)' = Whole(r) /\ NeedsConsent(r)' = NeedsConsent(r)
         /\ UNCHANGED acts => ~Carried(r)'
BY Steady DEF Taken, PageStays, Carried

\* A read is answered at once.
LEMMA ReadStep ==
  ASSUME NEW r \in Requests, Taken(r), Read(r)
  PROVE  Goal
<1>1. PICK clear : Reply(r, [Good(r) EXCEPT !.clear = clear])
  BY DEF Read
<1> DEFINE e == [Good(r) EXCEPT !.clear = clear]
<1>2. e.of = r
  BY DEF Good
<1>3. ~NeedsConsent(r)
  BY DEF Read, NeedsConsent, ConsentMethods
<1> HIDE DEF e
<1>4. Blank' /\ jobs' = {} /\ ModelsOK' /\ Mine' = r
  BY LatestHolds DEF Read, Latest, Blank, Taken
<1>5. Stage'
  BY <1>1, <1>2, <1>3, <1>4, TakenStays, ToAnswering DEF Reply, e, Taken
<1>6. Shapes'
  BY <1>4, ShapesStay DEF Read, Shapes, Taken
<1> QED BY <1>5, <1>6 DEF Read, Goal

\* A read of the chain waits for one server.
LEMMA ReadNetStep ==
  ASSUME NEW r \in Requests, Taken(r), ReadNet(r)
  PROVE  Goal
<1> DEFINE j == Job("net", r, 0)
<1>1. IsJob(j) /\ j.by = r /\ j.kind = "net"
  BY DEF Job, IsJob
<1> HIDE DEF j
<1>2. Blank' /\ jobs' = {j} /\ ModelsOK' /\ Mine' = r /\ toPage' = <<>>
  BY LatestHolds DEF ReadNet, Latest, Blank, Taken, j
<1>3. IsJob(j)'
  BY <1>1 DEF IsJob
<1>4. Served(j)'
  BY <1>1, <1>2, <1>3, TakenStays DEF Served, ReadNet
<1>5. Stage'
  BY <1>2, <1>4, TakenStays, ToBusy DEF Taken
<1>6. Shapes'
  BY <1>2, ShapesStay DEF ReadNet, Shapes, Taken
<1> QED BY <1>5, <1>6 DEF ReadNet, Goal

\* Actions to sign are sent to be decoded.
LEMMA SignStep ==
  ASSUME NEW r \in Requests, Taken(r), Sign(r)
  PROVE  Goal
<1>1. DecodingOK' /\ decoding'.count = 0 /\ decoding'.got[r] = {}
  BY DEF Sign, Taken, Shapes, DecodingOK
<1>2. Blank' /\ ModelsOK' /\ Mine' = r /\ models'.toSign = r /\ toPage' = <<>>
  BY LatestHolds DEF Sign, Blank, Taken
<1>3. jobs' = {[Job("decode", r, 0) EXCEPT !.n = n] : n \in 1..Size(r)}
  BY DEF Sign, Taken
<1>4. Decoding'
  <2>1. Cardinality({}) = 0
    BY FS_EmptySet
  <2>2. Fresh' /\ method'[r] = "sign" /\ Size(r)' = Size(r)
    BY <1>2, TakenStays DEF Fresh, Sign
  <2> QED BY <1>1, <1>2, <1>3, <2>1, <2>2 DEF Decoding
<1>5. Stage'
  BY <1>2, <1>4, TakenStays, ToBusy DEF Taken
<1>6. Shapes'
  BY <1>1, <1>2, ShapesStay DEF Sign, Shapes, Taken
<1> QED BY <1>5, <1>6 DEF Sign, Goal

\* What the sheet shows is a sheet.
LEMMA ShownIsSheet ==
  ASSUME NEW actions
  PROVE  IsSheet(Shown(actions)) /\ Shown(actions).up
BY DEF IsSheet, Shown

\* A list of actions to execute is shown.
LEMMA PushActionsStep ==
  ASSUME NEW r \in Requests, Taken(r), PushActions(r)
  PROVE  Goal
<1>1. Blank /\ ModelsOK' /\ Mine' = r /\ models'.actions = r /\ toPage' = <<>>
  BY LatestHolds DEF PushActions, Taken
<1>2. IsSheet(sheet)' /\ sheet'.up
  <2>1. sheet' = Shown(Whole(r))
    BY DEF PushActions
  <2> QED BY <2>1, ShownIsSheet DEF IsSheet
<1>3. ExecsOK'
  BY DEF PushActions, Taken, Shapes, ExecsOK, IsExecs
<1>4. Listed'
  BY <1>1, <1>2, TakenStays DEF Listed, PushActions, Blank, Taken, Fresh, Listing
<1>5. Stage'
  BY <1>1, <1>4, TakenStays, ToBusy DEF Taken
<1>6. Shapes'
  BY <1>1, <1>2, <1>3, ShapesStay DEF PushActions, Shapes, Taken, ViewsOK
<1> QED BY <1>5, <1>6 DEF PushActions, Goal

\* A transfer brings a prompt.
LEMMA PushTransferStep ==
  ASSUME NEW r \in Requests, Taken(r), PushTransfer(r)
  PROVE  Goal
<1>1. Blank /\ ModelsOK' /\ Mine' = r /\ models'.transfer = r /\ toPage' = <<>>
  BY LatestHolds DEF PushTransfer, Taken
<1>2. windows' = <<View("prompt", r)>>
  BY <1>1, OneCall DEF PushTransfer, Blank
<1>3. Prompted'
  BY <1>1, <1>2, TakenStays DEF Prompted, PushTransfer, Blank, Taken, Fresh, View
<1>4. Stage'
  BY <1>1, <1>3, TakenStays, ToBusy DEF Taken
<1>5. Shapes'
  BY <1>1, ShapesStay DEF PushTransfer, Shapes, Taken
<1> QED BY <1>4, <1>5 DEF PushTransfer, Goal

\* A message to sign is refused, or shown.
LEMMA SignMessageStep ==
  ASSUME NEW r \in Requests, Taken(r), SignMessage(r)
  PROVE  Goal
<1>1. Blank /\ ModelsOK' /\ Mine' = r /\ models'.message = r /\ jobs' = {} /\ sheet' = sheet
  BY LatestHolds DEF SignMessage, AuthorizeMessage, Taken
<1>2. ASSUME Reply(r, Bad(r)), windows' = windows PROVE Stage'
  <2>1. Blank'
    BY <1>1, <1>2 DEF Blank
  <2>2. Bad(r).of = r /\ Bad(r).good = FALSE
    BY DEF Bad
  <2> QED BY <1>1, <1>2, <2>1, <2>2, TakenStays, ToAnswering DEF Reply, Taken
<1>3. ASSUME windows' = Upon(windows, View("message", r)), UNCHANGED toPage PROVE Stage'
  <2>1. windows' = <<View("message", r)>>
    BY <1>1, <1>3, OneCall DEF Upon, Blank
  <2>2. Texted'
    BY <1>1, <2>1, TakenStays DEF Texted, SignMessage, Blank, Taken, Fresh, View
  <2> QED BY <1>1, <1>3, <2>2, TakenStays, ToBusy DEF Taken
<1>4. Stage'
  BY <1>1, <1>2, <1>3 DEF SignMessage, AuthorizeMessage
<1>5. Shapes'
  BY <1>1, ShapesStay DEF SignMessage, Shapes, Taken
<1> QED BY <1>4, <1>5 DEF SignMessage, Goal

\* Whatever a page asks for, the work on it has begun.
LEMMA MessageStep ==
  ASSUME BookInv, NEW r \in Requests, Message(r)
  PROVE  PageStays /\ Goal
<1>1. Taken(r)
  BY TakenHolds
<1>2. PageStays
  BY <1>1 DEF Taken
<1> QED BY <1>1, <1>2, ReadStep, ReadNetStep, SignStep, PushActionsStep, PushTransferStep,
           SignMessageStep DEF Message

-----------------------------------------------------------------------------
(* Answers of servers: each is one of the latest request, whose work goes on *)

Serving(m) ==
  /\ PageStays /\ PromiseOK /\ Shapes
  /\ toPage = <<>> /\ toNative' = <<>>
  /\ Mine = m /\ UNCHANGED models /\ m \in Requests /\ m \in Pending

\* Steps that serve the latest request find the page waiting for it.
LEMMA ServingHolds ==
  ASSUME BookInv, Busy, PageStays, UNCHANGED <<toNative, models>>
  PROVE  Serving(Mine)
BY DEF Busy, BookInv, Serving, Pending

\* And leave what it is.
LEMMA ServingStays ==
  ASSUME NEW m, Serving(m)
  PROVE  /\ m \in Requests /\ m # Nobody
         /\ Pending' = Pending /\ m \in Pending' /\ method' = method
         /\ Size(m)' = Size(m) /\ Whole(m)' = Whole(m) /\ NeedsConsent(m)' = NeedsConsent(m)
         /\ Mine' = m /\ ModelsOK'
         /\ UNCHANGED acts => (Fresh <=> Fresh') /\ (Carried(m) <=> Carried(m)')
         /\ Size(m) \in Nat \ {0}
<1>1. Size(m) \in Nat \ {0}
  BY ActionsAssumption DEF Size, Serving
<1>2. Mine' = m
  BY DEF Serving, Mine
<1>3. UNCHANGED acts => (Fresh <=> Fresh') /\ (Carried(m) <=> Carried(m)')
  BY <1>2 DEF Fresh, Carried, Mine, Serving
<1> QED BY <1>1, <1>2, <1>3, Steady, ShapesStay, NobodyAssumption DEF Serving, PageStays

\* A server's answer to a read goes to the page.
LEMMA ReadAnswered ==
  ASSUME NEW m, Serving(m), NEW j \in jobs, Served(j), NetAnswer(j) \/ AccountReply(j)
  PROVE  Goal
<1>1. PICK clear : Reply(m, [Good(j.by) EXCEPT !.clear = clear])
  BY DEF NetAnswer, AccountReply, Served, Serving, Mine, Executing, Transferring, Ending
<1> DEFINE e == [Good(j.by) EXCEPT !.clear = clear]
<1>2. e.of = j.by
  BY DEF Good
<1> HIDE DEF e
<1>3. Blank /\ jobs = {j} /\ j.by = m /\ ~NeedsConsent(m)
  BY DEF Served, Serving, NetAnswer, AccountReply, Executing, Transferring, Ending, NeedsConsent,
         ConsentMethods
<1>4. Blank' /\ jobs' = {}
  BY <1>3 DEF NetAnswer, AccountReply, Blank
<1>5. toPage' = Append(toPage, [serial |-> m, answer |-> e])
  BY <1>1 DEF Reply, e
<1>6. Stage'
  BY <1>2, <1>3, <1>4, <1>5, ServingStays, ToAnswering DEF Serving
<1>7. Shapes'
  BY ShapesStay DEF NetAnswer, AccountReply, Shapes, Serving
<1> QED BY <1>6, <1>7 DEF NetAnswer, AccountReply, Goal

\* A number that was missing makes the count one more, and is missing no more.
LEMMA OneMore ==
  ASSUME NEW size \in Nat, NEW got \in SUBSET (1..size), NEW n \in (1..size) \ got
  PROVE  /\ got \cup {n} \in SUBSET (1..size)
         /\ Cardinality(got \cup {n}) = Cardinality(got) + 1
         /\ Cardinality(got) \in Nat
         /\ Cardinality(got \cup {n}) = size => got \cup {n} = 1..size
<1>1. IsFiniteSet(1..size) /\ Cardinality(1..size) = size
  BY FS_Interval
<1>2. IsFiniteSet(got) /\ IsFiniteSet(got \cup {n})
  BY <1>1, FS_Subset
<1>3. Cardinality(got \cup {n}) = Cardinality(got) + 1 /\ Cardinality(got) \in Nat
  BY <1>2, FS_AddElement, FS_CardinalityType
<1>4. Cardinality(got \cup {n}) = size => got \cup {n} = 1..size
  BY <1>1, FS_Subset
<1> QED BY <1>3, <1>4

\* An answer about an action that was sent is the only one about it.
LEMMA OnlyOne ==
  ASSUME NEW kind, NEW m, NEW k, NEW size \in Nat, NEW got, NEW J, NEW j \in J,
         J \subseteq {[Job(kind, m, k) EXCEPT !.n = n] : n \in (1..size) \ got}
  PROVE  J \ {j} \subseteq {[Job(kind, m, k) EXCEPT !.n = n] : n \in (1..size) \ (got \cup {j.n})}
<1> SUFFICES ASSUME NEW i \in J \ {j}
             PROVE  \E n \in (1..size) \ (got \cup {j.n}) : i = [Job(kind, m, k) EXCEPT !.n = n]
  OBVIOUS
<1>1. PICK n \in (1..size) \ got : i = [Job(kind, m, k) EXCEPT !.n = n]
  OBVIOUS
<1>2. PICK o \in (1..size) \ got : j = [Job(kind, m, k) EXCEPT !.n = o]
  OBVIOUS
<1>3. j.n = o /\ n # o
  BY <1>1, <1>2, JobFields
<1> QED BY <1>1, <1>3

\* The last action decoded brings the sheet, another leaves the rest to come.
LEMMA DecodeAnswerStep ==
  ASSUME NEW m, Serving(m), NEW j \in jobs, Decoding, j.by = m,
         j.n \in (1..Size(m)) \ decoding.got[m], DecodeAnswer(j)
  PROVE  Goal
<1> DEFINE got == decoding.got[m] \cup {j.n}
<1>1. /\ decoding.got[m] \in SUBSET (1..Size(m))
      /\ decoding.count = Cardinality(decoding.got[m])
      /\ jobs \subseteq {[Job("decode", m, 0) EXCEPT !.n = n] : n \in (1..Size(m)) \ decoding.got[m]}
      /\ Blank /\ Fresh /\ method[m] = "sign" /\ models.toSign = m
  BY DEF Decoding, Serving
<1>2. Size(m) \in Nat \ {0}
  BY ServingStays
<1>3. /\ got \in SUBSET (1..Size(m))
      /\ Cardinality(got) = decoding.count + 1 /\ decoding.count + 1 \in Nat
      /\ Cardinality(got) = Size(m) => got = 1..Size(m)
  <2> DEFINE old == decoding.got[m]
             size == Size(m)
             one == j.n
  <2>1. size \in Nat /\ old \in SUBSET (1..size) /\ one \in (1..size) \ old
    BY <1>1, <1>2
  <2> HIDE DEF old, size, one
  <2>2. /\ old \cup {one} \in SUBSET (1..size)
        /\ Cardinality(old \cup {one}) = Cardinality(old) + 1 /\ Cardinality(old) \in Nat
        /\ Cardinality(old \cup {one}) = size => old \cup {one} = 1..size
    BY <2>1, OneMore, Zenon
  <2> QED BY <1>1, <2>2 DEF old, size, one
<1>4. jobs' \subseteq {[Job("decode", m, 0) EXCEPT !.n = n] : n \in (1..Size(m)) \ got}
  BY <1>1, <1>2, OnlyOne DEF DecodeAnswer
<1> HIDE DEF got
<1>5. DecodingOK' /\ decoding'.got[m] = got /\ decoding'.count = decoding.count + 1
  BY <1>2, <1>3 DEF DecodeAnswer, DecodingOK, Shapes, Serving, got
<1>6. /\ Mine' = m /\ Fresh' /\ Size(m)' = Size(m) /\ method'[m] = "sign"
      /\ models'.toSign = m /\ toNative' = <<>> /\ toPage' = <<>> /\ m \in Pending'
  BY <1>1, ServingStays DEF DecodeAnswer, Serving
<1>7. CASE decoding'.count = Size(j.by)
  <2>1. jobs' = {}
    BY <1>3, <1>4, <1>5, <1>7
  <2>2. sheet' = Shown(Sorted(Whole(j.by), decoding.got[j.by] \cup {j.n}))
    BY <1>7 DEF DecodeAnswer
  <2>3. IsSheet(sheet)' /\ sheet'.up
    BY <2>2, ShownIsSheet DEF IsSheet
  <2>4. Listed'
    BY <1>1, <1>6, <2>1, <2>3 DEF Listed, DecodeAnswer, Blank
  <2>5. Stage'
    BY <1>6, <2>4, ToBusy
  <2>6. Shapes'
    BY <1>5, <2>3, ShapesStay DEF DecodeAnswer, Shapes, Serving, ViewsOK
  <2> QED BY <2>5, <2>6 DEF DecodeAnswer, Goal
<1>8. CASE decoding'.count # Size(j.by)
  <2>1. sheet' = sheet
    BY <1>8 DEF DecodeAnswer
  <2>2. Decoding'
    BY <1>1, <1>3, <1>4, <1>5, <1>6, <2>1 DEF Decoding, DecodeAnswer, Blank
  <2>3. Stage'
    BY <1>6, <2>2, ToBusy
  <2>4. Shapes'
    BY <1>5, <2>1, ShapesStay DEF DecodeAnswer, Shapes, Serving
  <2> QED BY <2>3, <2>4 DEF DecodeAnswer, Goal
<1> QED BY <1>7, <1>8

\* A place of a sequence is written over.
LEMMA UpdateIndexed ==
  ASSUME NEW s, Indexed(s), NEW k \in DOMAIN s, NEW v
  PROVE  LET t == [s EXCEPT ![k] = v] IN
         /\ Indexed(t) /\ DOMAIN t = DOMAIN s /\ t[k] = v
         /\ \A i \in DOMAIN s : i # k => t[i] = s[i]
<1> DEFINE t == [s EXCEPT ![k] = v]
           S == {s[i] : i \in DOMAIN s}
           T == {t[i] : i \in DOMAIN t}
<1>1. /\ DOMAIN t = DOMAIN s /\ t[k] = v
      /\ \A i \in DOMAIN s : i # k => t[i] = s[i]
  OBVIOUS
<1>2. Len(s) \in Nat /\ DOMAIN s = 1..Len(s)
  BY DEF Indexed
<1>3. t \in [1..Len(s) -> T]
  BY <1>1, <1>2
<1>4. t \in Seq(T)
  <2> HIDE DEF t, T
  <2> QED BY <1>2, <1>3, SeqDef
<1> QED BY <1>1, <1>4 DEF Indexed

\* A run whose parts are written stays one.
LEMMA RunWritten ==
  ASSUME RunsOK, NEW k \in DOMAIN runs, NEW x,
         \/ runs' = [runs EXCEPT ![k].acts = x]
         \/ runs' = [runs EXCEPT ![k].got = x]
  PROVE  /\ RunsOK' /\ k \in DOMAIN runs'
         /\ runs' = [runs EXCEPT ![k].acts = x] => runs'[k].acts = x /\ runs'[k].got = runs[k].got
         /\ runs' = [runs EXCEPT ![k].got = x] => runs'[k].got = x /\ runs'[k].acts = runs[k].acts
<1>1. PICK v : /\ runs' = [runs EXCEPT ![k] = v] /\ IsRun(v)
               /\ \/ v = [runs[k] EXCEPT !.acts = x]
                  \/ v = [runs[k] EXCEPT !.got = x]
  <2>1. IsRun(runs[k])
    BY DEF RunsOK
  <2>2. IsRun([runs[k] EXCEPT !.acts = x]) /\ IsRun([runs[k] EXCEPT !.got = x])
    BY <2>1 DEF IsRun
  <2> QED BY <2>2
<1>2. /\ Indexed(runs') /\ DOMAIN runs' = DOMAIN runs /\ runs'[k] = v
      /\ \A i \in DOMAIN runs : i # k => runs'[i] = runs[i]
  BY <1>1, UpdateIndexed DEF RunsOK
<1>3. RunsOK'
  BY <1>1, <1>2 DEF RunsOK, IsRun, Indexed
<1>4. IsRun(runs[k])
  BY DEF RunsOK
<1>5. /\ runs' = [runs EXCEPT ![k].acts = x] => runs'[k].acts = x /\ runs'[k].got = runs[k].got
      /\ runs' = [runs EXCEPT ![k].got = x] => runs'[k].got = x /\ runs'[k].acts = runs[k].acts
  BY <1>4 DEF IsRun
<1> QED BY <1>2, <1>3, <1>5

\* Information about the chain sends each action to be encoded.
LEMMA InfoAnswerStep ==
  ASSUME NEW m, Serving(m), NEW j \in jobs, Served(j), InfoAnswer(j)
  PROVE  Goal
<1> DEFINE k == j.run
<1>1. /\ Blank /\ jobs = {j} /\ j.by = m /\ Fresh /\ Listing
      /\ k \in DOMAIN runs /\ runs[k].got = {} /\ execs.array = Whole(m)
  BY DEF Served, Executing, Transferring, Ending, InfoAnswer, Serving
<1> HIDE DEF k
<1>2. ExecsOK' /\ execs'.count = 0 /\ execs'.array = Whole(m)
  BY <1>1 DEF InfoAnswer, Serving, Shapes, ExecsOK, IsExecs
<1>3. runs' = [runs EXCEPT ![k].acts = Whole(m)]
  BY <1>1 DEF InfoAnswer, k
<1>4. RunsOK' /\ k \in DOMAIN runs' /\ runs'[k].acts = Whole(m) /\ runs'[k].got = {}
  BY <1>1, <1>3, RunWritten DEF Serving, Shapes
<1>5. jobs' = {[Job("encode", m, k) EXCEPT !.n = n] : n \in 1..Size(m)}
  BY <1>1, WholeHas DEF InfoAnswer, Serving, k
<1>6. Encoding(k)'
  <2>1. Cardinality({}) = 0
    BY FS_EmptySet
  <2>2. Blank' /\ Listing' /\ Fresh' /\ Mine' = m /\ Whole(m)' = Whole(m) /\ Size(m)' = Size(m)
    BY <1>1, ServingStays DEF InfoAnswer, Blank, Listing, Serving, Mine
  <2> QED BY <1>2, <1>4, <1>5, <2>1, <2>2 DEF Encoding
<1>7. \E i \in jobs' : i.run = k
  <2>1. 1 \in 1..Size(m)
    BY ServingStays
  <2>2. [Job("encode", m, k) EXCEPT !.n = 1] \in jobs'
    BY <1>5, <2>1
  <2>3. [Job("encode", m, k) EXCEPT !.n = 1].run = k
    BY JobFields
  <2> QED BY <2>2, <2>3
<1>8. Stage'
  <2>1. PICK i \in jobs' : i.run = k
    BY <1>7
  <2>2. Encoding(i.run)'
    BY <1>6, <2>1
  <2>3. toNative' = <<>> /\ toPage' = <<>> /\ Mine' \in Pending'
    BY ServingStays DEF InfoAnswer, Serving
  <2> QED BY <2>2, <2>3, ToBusy
<1>9. Shapes'
  BY <1>2, <1>4, ShapesStay DEF InfoAnswer, Shapes, Serving
<1> QED BY <1>8, <1>9 DEF InfoAnswer, Goal

\* Actions that are being encoded are a stage, also when all have failed.
LEMMA ToEncoding ==
  ASSUME NEW k, Encoding(k)', toNative' = <<>>, toPage' = <<>>, Mine' \in Pending'
  PROVE  Stage'
<1>1. ASSUME jobs' = {} PROVE Stage'
  BY <1>1, ToIdle DEF Encoding
<1>2. ASSUME NEW i \in jobs' PROVE Stage'
  <2>1. PICK n : i = [Job("encode", Mine', k) EXCEPT !.n = n]
    BY DEF Encoding
  <2>2. i.run = k
    BY <2>1, JobFields
  <2>3. Encoding(i.run)'
    BY <2>2
  <2> QED BY <2>3, ToBusy
<1> QED BY <1>1, <1>2

\* The last action encoded makes the list whole, another leaves the rest to come.
LEMMA EncodeAnswerStep ==
  ASSUME NEW m, Serving(m), NEW j \in jobs, Encoding(j.run), j.by = m,
         j.n \in (1..Size(m)) \ runs[j.run].got, EncodeAnswer(j)
  PROVE  Goal
<1> DEFINE k == j.run
           old == runs[k].got
           size == Size(m)
           one == j.n
           got == old \cup {one}
           whole == Whole(m)
<1>1. /\ old \in SUBSET (1..size) /\ one \in (1..size) \ old /\ size \in Nat \ {0}
      /\ execs.count = Cardinality(old) /\ k \in DOMAIN runs
      /\ jobs \subseteq {[Job("encode", m, k) EXCEPT !.n = n] : n \in (1..size) \ old}
      /\ Blank /\ Fresh /\ Listing /\ runs[k].acts = whole /\ execs.array = whole
  BY ServingStays DEF Encoding, Serving
<1>2. Len(whole) = size /\ Kept(whole, 1..size) = whole
  BY ServingStays, WholeHas
<1>3. j = [Job("encode", m, k) EXCEPT !.n = one]
  <2>1. PICK n : j = [Job("encode", m, k) EXCEPT !.n = n]
    BY <1>1
  <2> QED BY <2>1, JobFields
<1>4. /\ runs' = [runs EXCEPT ![k].got = got]
      /\ execs' = [execs EXCEPT !.count = @ + 1,
                    !.final = IF execs.count + 1 = size THEN Kept(whole, got) ELSE @]
      /\ jobs' = (jobs \ {j}) \cup
                   IF execs.count + 1 = size THEN {Job("keys", m, k)} ELSE {}
  BY <1>1, <1>2 DEF EncodeAnswer
<1> HIDE DEF k, size, one, whole
<1>5. /\ got \in SUBSET (1..size) /\ Cardinality(got) = execs.count + 1
      /\ Cardinality(old) \in Nat
      /\ Cardinality(got) = size => got = 1..size
  <2> HIDE DEF old
  <2> QED BY <1>1, OneMore, Zenon
<1>6. jobs \ {j} \subseteq {[Job("encode", m, k) EXCEPT !.n = n] : n \in (1..size) \ got}
  <2> HIDE DEF old
  <2>1. j.n = one /\ size \in Nat
    BY <1>1 DEF one
  <2> QED BY <1>1, <2>1, OnlyOne
<1>7. RunsOK' /\ k \in DOMAIN runs' /\ runs'[k].acts = whole /\ runs'[k].got = got
  <2> HIDE DEF old, got
  <2> QED BY <1>1, <1>4, RunWritten DEF Serving, Shapes
<1> HIDE DEF old, got
<1>8. /\ ExecsOK' /\ execs'.count = execs.count + 1 /\ execs'.array = whole
      /\ execs.count + 1 = size => execs'.final = Kept(whole, got)
  BY <1>1, <1>4 DEF Serving, Shapes, ExecsOK, IsExecs
<1>9. /\ Blank' /\ Listing' /\ Fresh' /\ Mine' = m /\ Whole(m)' = whole /\ Size(m)' = size
      /\ toNative' = <<>> /\ toPage' = <<>> /\ Mine' \in Pending'
  BY <1>1, ServingStays DEF EncodeAnswer, Blank, Listing, Serving, Mine, whole, size
<1>10. Shapes'
  BY <1>7, <1>8, ShapesStay DEF EncodeAnswer, Shapes, Serving
<1>11. CASE execs.count + 1 = size
  <2> DEFINE i == Job("keys", m, k)
  <2>1. i.kind = "keys" /\ i.run = k /\ i.by = m /\ IsJob(i)
    BY DEF Job, IsJob
  <2> HIDE DEF i
  <2>2. jobs' = {i}
    BY <1>4, <1>5, <1>6, <1>11 DEF i
  <2>3. execs'.final = whole
    BY <1>2, <1>5, <1>8, <1>11
  <2>4. Executing(i)'
    BY <1>7, <1>9, <2>1, <2>3 DEF Executing
  <2>5. IsJob(i)'
    BY <2>1 DEF IsJob
  <2>6. Served(i)'
    BY <1>9, <2>1, <2>2, <2>4, <2>5 DEF Served
  <2>7. Stage'
    BY <1>9, <2>2, <2>6, ToBusy
  <2> QED BY <1>10, <2>7 DEF EncodeAnswer, Goal
<1>12. CASE execs.count + 1 # size
  <2>1. jobs' = jobs \ {j}
    BY <1>4, <1>12
  <2>2. Encoding(k)'
    BY <1>5, <1>6, <1>7, <1>8, <1>9, <2>1 DEF Encoding
  <2>3. Stage'
    BY <1>9, <2>2, ToEncoding
  <2> QED BY <1>10, <2>3 DEF EncodeAnswer, Goal
<1> QED BY <1>11, <1>12

\* How jobs come from nothing, and from others.  (Named, so that the provers
\* keep them apart from the records they stand for.)
Made(i, kind, by, run, done) == i = [Job(kind, by, run) EXCEPT !.done = done]
Turned(i, j, kind) == i = [j EXCEPT !.kind = kind]
Noted(i, j, kind, r) == i = [j EXCEPT !.kind = kind, !.of = r]
Ended(i, j, kind, ok) == i = [j EXCEPT !.kind = kind, !.ok = ok]

\* A job that is made with what it carries is one.
LEMMA MadeIsJob ==
  ASSUME NEW kind, NEW by, NEW run, NEW done, NEW i, Made(i, kind, by, run, done)
  PROVE  IsJob(i) /\ i.kind = kind /\ i.by = by /\ i.run = run /\ i.done = done
<1>1. PICK j : j = [kind |-> kind, by |-> by, run |-> run, of |-> Nobody, n |-> 0,
                    done |-> <<>>, ok |-> FALSE]
  OBVIOUS
<1>2. i = [j EXCEPT !.done = done]
  BY <1>1 DEF Job, Made
<1>3. i = [kind |-> kind, by |-> by, run |-> run, of |-> Nobody, n |-> 0, done |-> done, ok |-> FALSE]
  BY <1>1, <1>2
<1> QED BY <1>3 DEF IsJob

\* A job that turns into one of another kind is one.
LEMMA TurnedIsJob ==
  ASSUME NEW j, IsJob(j), NEW kind, NEW i, Turned(i, j, kind)
  PROVE  IsJob(i) /\ i.kind = kind /\ i.by = j.by /\ i.of = j.of /\ i.ok = j.ok
<1>1. PICK a, b, c, d, e, f, g :
        j = [kind |-> a, by |-> b, run |-> c, of |-> d, n |-> e, done |-> f, ok |-> g]
  BY DEF IsJob
<1>2. i = [kind |-> kind, by |-> b, run |-> c, of |-> d, n |-> e, done |-> f, ok |-> g]
  BY <1>1 DEF Turned
<1> QED BY <1>1, <1>2 DEF IsJob

\* So is one that notes a request it has read.
LEMMA NotedIsJob ==
  ASSUME NEW j, IsJob(j), NEW kind, NEW r, NEW i, Noted(i, j, kind, r)
  PROVE  IsJob(i) /\ i.kind = kind /\ i.by = j.by /\ i.of = r /\ i.ok = j.ok
<1>1. PICK s : Turned(s, j, kind)
  BY DEF Turned
<1>2. IsJob(s) /\ s.kind = kind /\ s.by = j.by /\ s.ok = j.ok
  BY <1>1, TurnedIsJob
<1>3. PICK a, b, c, d, e, f, g :
        s = [kind |-> a, by |-> b, run |-> c, of |-> d, n |-> e, done |-> f, ok |-> g]
  BY <1>2 DEF IsJob
<1>4. i = [s EXCEPT !.of = r]
  BY <1>1 DEF Turned, Noted
<1>5. i = [kind |-> a, by |-> b, run |-> c, of |-> r, n |-> e, done |-> f, ok |-> g]
  BY <1>3, <1>4
<1> QED BY <1>2, <1>3, <1>5 DEF IsJob

\* A job that has ended one way or the other is one.
LEMMA EndedIsJob ==
  ASSUME NEW j, IsJob(j), NEW kind, NEW ok, NEW i, Ended(i, j, kind, ok)
  PROVE  IsJob(i) /\ i.kind = kind /\ i.by = j.by /\ i.ok = ok
<1>1. PICK s : Turned(s, j, kind)
  BY DEF Turned
<1>2. IsJob(s) /\ s.kind = kind /\ s.by = j.by
  BY <1>1, TurnedIsJob
<1>3. PICK a, b, c, d, e, f, g :
        s = [kind |-> a, by |-> b, run |-> c, of |-> d, n |-> e, done |-> f, ok |-> g]
  BY <1>2 DEF IsJob
<1>4. i = [s EXCEPT !.ok = ok]
  BY <1>1 DEF Turned, Ended
<1>5. i = [kind |-> a, by |-> b, run |-> c, of |-> d, n |-> e, done |-> f, ok |-> ok]
  BY <1>3, <1>4
<1> QED BY <1>2, <1>3, <1>5 DEF IsJob

\* An account that was read is to be told of the latest request.
LEMMA AccountAnswerStep ==
  ASSUME NEW m, Serving(m), NEW j \in jobs, Served(j), AccountAnswer(j)
  PROVE  Goal
<1>0. PICK i : Noted(i, j, "reply", m)
  BY DEF Noted
<1>1. /\ Blank /\ jobs = {j} /\ j.by = m /\ IsJob(j)
      /\ method[m] = "net"
  BY DEF Served, Executing, Transferring, Ending, AccountAnswer, Serving
<1>2. jobs' = {i} /\ i.kind = "reply" /\ i.by = m /\ i.of = m /\ i.ok = j.ok /\ IsJob(i)
  <2>1. i.kind = "reply" /\ i.by = j.by /\ i.of = m /\ i.ok = j.ok /\ IsJob(i)
    BY <1>0, <1>1, NotedIsJob
  <2>2. jobs' = {i}
    BY <1>0, <1>1 DEF AccountAnswer, Noted, Serving, Mine
  <2> QED BY <1>1, <2>1, <2>2
<1>3. /\ Blank' /\ Mine' = m /\ method' = method /\ (Carried(m) => Carried(m)')
      /\ toNative' = <<>> /\ toPage' = <<>> /\ Mine' \in Pending'
  BY <1>1, ServingStays DEF AccountAnswer, Blank, Serving, Mine
<1>4. IsJob(i)'
  BY <1>2 DEF IsJob
<1>5. Served(i)'
  BY <1>1, <1>2, <1>3, <1>4 DEF Served
<1>6. Stage'
  BY <1>2, <1>3, <1>5, ToBusy
<1>7. Shapes'
  BY ShapesStay DEF AccountAnswer, Shapes, Serving
<1> QED BY <1>6, <1>7 DEF AccountAnswer, Goal

\* With its list whole, an execution is pushed, or its password opens no key.
LEMMA KeysAnswerStep ==
  ASSUME NEW m, Serving(m), NEW j \in jobs, Served(j), KeysAnswer(j)
  PROVE  Goal
<1>1. /\ Blank /\ jobs = {j} /\ j.by = m /\ Fresh /\ Listing
      /\ j.run \in DOMAIN runs /\ execs.final = Whole(m)
  BY DEF Served, Executing, Transferring, Ending, KeysAnswer, Serving
<1>2. PICK i : Made(i, "push", m, j.run, execs.final)
  BY DEF Made
<1>3. /\ i.kind = "push" /\ i.run = j.run /\ i.by = m /\ i.done = Whole(m) /\ IsJob(i)
      /\ jobs' = {} \/ jobs' = {i}
  <2>1. IsJob(i) /\ i.kind = "push" /\ i.by = m /\ i.run = j.run /\ i.done = execs.final
    BY <1>2, MadeIsJob
  <2>2. jobs' = {} \/ jobs' = {i}
    BY <1>1, <1>2 DEF KeysAnswer, Made
  <2> QED BY <1>1, <2>1, <2>2
<1>4. /\ Blank' /\ Listing' /\ Fresh' /\ Mine' = m /\ Whole(m)' = Whole(m) /\ runs' = runs
      /\ toNative' = <<>> /\ toPage' = <<>> /\ Mine' \in Pending'
  BY <1>1, ServingStays DEF KeysAnswer, Blank, Listing, Serving, Mine
<1>5. ASSUME jobs' = {i} PROVE Stage'
  <2>1. Executing(i)'
    BY <1>1, <1>3, <1>4 DEF Executing
  <2>2. Served(i)'
    BY <1>3, <1>4, <1>5, <2>1 DEF Served, IsJob
  <2> QED BY <1>4, <1>5, <2>2, ToBusy
<1>6. Stage'
  BY <1>3, <1>4, <1>5, ToIdle
<1>7. Shapes'
  BY ShapesStay DEF KeysAnswer, Shapes, Serving
<1> QED BY <1>6, <1>7 DEF KeysAnswer, Goal

\* What is carried out is added to what was.
LEMMA ActAdded ==
  ASSUME ActsOK, NEW m, NEW meant, NEW done, acts' = Append(acts, Act(m, meant, done))
  PROVE  ActsOK' /\ Carried(m)'
<1>1. /\ Indexed(acts') /\ Len(acts) + 1 \in DOMAIN acts' /\ acts'[Len(acts) + 1] = Act(m, meant, done)
  BY AppendIndexed DEF ActsOK
<1>2. Act(m, meant, done).by = m
  BY DEF Act
<1> QED BY <1>1, <1>2 DEF ActsOK, Carried, Indexed

\* A node that has the latest request as a whole carries it out, or does not.
LEMMA AtNode ==
  ASSUME NEW m, Serving(m), NEW j \in jobs,
         Blank, jobs = {j}, j.by = m, Fresh, IsJob(j), j.done = Whole(m),
         NEW ok \in BOOLEAN, NEW kind, NEW meant,
         \/ kind = "pushed" /\ Listing
         \/ kind = "transferred" /\ method[m] = "transfer",
         jobs' = (jobs \ {j}) \cup {[j EXCEPT !.kind = kind, !.ok = ok]},
         acts' = IF ok THEN Append(acts, Act(j.by, meant, j.done)) ELSE acts,
         UNCHANGED <<decoding, sheet, windows, nopass, execs, runs, toPage>>
  PROVE  Goal
<1>0. PICK i : Ended(i, j, kind, ok)
  BY DEF Ended
<1>1. jobs' = {i} /\ i.kind = kind /\ i.by = m /\ i.ok = ok /\ IsJob(i)
  <2>1. i.kind = kind /\ i.by = j.by /\ i.ok = ok /\ IsJob(i)
    BY <1>0, EndedIsJob
  <2>2. jobs' = {i}
    BY <1>0 DEF Ended
  <2> QED BY <2>1, <2>2
<1>2. /\ Blank' /\ Mine' = m /\ method' = method /\ Listing' = Listing
      /\ toNative' = <<>> /\ toPage' = <<>> /\ Mine' \in Pending'
  BY ServingStays DEF Blank, Listing, Serving, Mine
<1>3. ASSUME ok = TRUE PROVE ActsOK' /\ Carried(m)' /\ CarriesOut
  <2>1. acts' = Append(acts, Act(m, meant, Whole(m)))
    BY <1>3
  <2>2. NeedsConsent(m)
    BY DEF Listing, NeedsConsent, ConsentMethods, Serving
  <2>3. ActsOK' /\ Carried(m)'
    BY <2>1, ActAdded DEF Serving, Shapes
  <2> QED BY <2>1, <2>2, <2>3 DEF CarriesOut, Serving
<1>4. ASSUME ok = FALSE PROVE ActsOK' /\ acts' = acts
  BY <1>4, ShapesStay DEF Serving
<1>5. Ending(i)'
  BY <1>1, <1>2, <1>3 DEF Ending
<1>6. IsJob(i)'
  BY <1>1 DEF IsJob
<1>7. Served(i)'
  BY <1>1, <1>2, <1>5, <1>6 DEF Served
<1>8. Stage'
  BY <1>1, <1>2, <1>7, ToBusy
<1>9. Shapes'
  BY <1>3, <1>4, ShapesStay DEF Serving, Shapes
<1> QED BY <1>3, <1>4, <1>8, <1>9 DEF Goal

\* The node of an execution is such a one.
LEMMA ExecuteAtNodeStep ==
  ASSUME NEW m, Serving(m), NEW j \in jobs, Served(j), ExecuteAtNode(j)
  PROVE  Goal
<1>1. Blank /\ jobs = {j} /\ j.by = m /\ Fresh /\ Listing /\ IsJob(j) /\ j.done = Whole(m)
  BY DEF Served, Executing, Transferring, Ending, ExecuteAtNode, Serving
<1>2. PICK ok \in BOOLEAN :
        /\ jobs' = (jobs \ {j}) \cup {[j EXCEPT !.kind = "pushed", !.ok = ok]}
        /\ acts' = IF ok THEN Append(acts, Act(j.by, runs[j.run].meant, j.done)) ELSE acts
  BY DEF ExecuteAtNode
<1> QED BY <1>1, <1>2, AtNode DEF ExecuteAtNode

\* So is that of a transfer.
LEMMA TransferAtNodeStep ==
  ASSUME NEW m, Serving(m), NEW j \in jobs, Served(j), TransferAtNode(j)
  PROVE  Goal
<1>1. /\ Blank /\ jobs = {j} /\ j.by = m /\ Fresh /\ method[m] = "transfer"
      /\ IsJob(j) /\ j.done = Whole(m)
  BY DEF Served, Executing, Transferring, Ending, TransferAtNode, Serving
<1>2. PICK ok \in BOOLEAN :
        /\ jobs' = (jobs \ {j}) \cup {[j EXCEPT !.kind = "transferred", !.ok = ok]}
        /\ acts' = IF ok THEN Append(acts, Act(j.by, Whole(j.by), j.done)) ELSE acts
  BY DEF TransferAtNode
<1> QED BY <1>1, <1>2, AtNode DEF TransferAtNode

\* The data of the transfer comes back encoded, and the contract is read.
LEMMA AbiAnswerStep ==
  ASSUME NEW m, Serving(m), NEW j \in jobs, Served(j), AbiAnswer(j), IsTransfers(transfers)
  PROVE  Goal
<1>0. PICK i : Turned(i, j, "args")
  BY DEF Turned
<1>1. /\ Blank /\ jobs = {j} /\ j.by = m /\ Fresh /\ method[m] = "transfer" /\ models.transfer = m
      /\ IsJob(j) /\ j.of = m
  BY DEF Served, Executing, Transferring, Ending, AbiAnswer, Serving
<1>2. jobs' = {i} /\ i.kind = "args" /\ i.by = m /\ i.of = m /\ IsJob(i)
  <2>1. i.kind = "args" /\ i.by = j.by /\ i.of = j.of /\ IsJob(i)
    BY <1>0, <1>1, TurnedIsJob
  <2>2. jobs' = {i}
    BY <1>0, <1>1 DEF AbiAnswer, Turned
  <2> QED BY <1>1, <2>1, <2>2
<1>3. transfers'.code = m
  BY <1>1 DEF AbiAnswer, Served, Transferring, IsTransfers
<1>4. /\ Blank' /\ Mine' = m /\ Fresh' /\ method'[m] = "transfer" /\ models'.transfer = m
      /\ toNative' = <<>> /\ toPage' = <<>> /\ Mine' \in Pending'
  BY <1>1, ServingStays DEF AbiAnswer, Blank, Serving, Mine
<1>5. Transferring(i)'
  BY <1>2, <1>3, <1>4 DEF Transferring
<1>6. IsJob(i)'
  BY <1>2 DEF IsJob
<1>7. Served(i)'
  BY <1>2, <1>4, <1>5, <1>6 DEF Served
<1>8. Stage'
  BY <1>2, <1>4, <1>7, ToBusy
<1>9. Shapes'
  BY ShapesStay DEF AbiAnswer, Shapes, Serving
<1> QED BY <1>8, <1>9 DEF AbiAnswer, Goal

\* The service has the transfer, both parts of it.
LEMMA SetArgsStep ==
  ASSUME NEW m, Serving(m), NEW j \in jobs, Served(j), SetArgs(j), IsTransfers(transfers)
  PROVE  Goal
<1>0. PICK i : Turned(i, j, "send")
  BY DEF Turned
<1>1. /\ Blank /\ jobs = {j} /\ j.by = m /\ Fresh /\ method[m] = "transfer" /\ models.transfer = m
      /\ IsJob(j) /\ j.of = m /\ transfers.code = m
  BY DEF Served, Executing, Transferring, Ending, SetArgs, Serving
<1>2. jobs' = {i} /\ i.kind = "send" /\ i.by = m /\ i.of = m /\ IsJob(i)
  <2>1. i.kind = "send" /\ i.by = j.by /\ i.of = j.of /\ IsJob(i)
    BY <1>0, <1>1, TurnedIsJob
  <2>2. jobs' = {i}
    BY <1>0, <1>1 DEF SetArgs, Turned
  <2> QED BY <1>1, <2>1, <2>2
<1>3. transfers' = [code |-> m, data |-> m]
  BY <1>1 DEF SetArgs, IsTransfers
<1>4. /\ Blank' /\ Mine' = m /\ Fresh' /\ method'[m] = "transfer" /\ models'.transfer = m
      /\ toNative' = <<>> /\ toPage' = <<>> /\ Mine' \in Pending'
  BY <1>1, ServingStays DEF SetArgs, Blank, Serving, Mine
<1>5. Transferring(i)'
  BY <1>2, <1>3, <1>4 DEF Transferring
<1>6. IsJob(i)'
  BY <1>2 DEF IsJob
<1>7. Served(i)'
  BY <1>2, <1>4, <1>5, <1>6 DEF Served
<1>8. Stage'
  BY <1>2, <1>4, <1>7, ToBusy
<1>9. Shapes'
  BY ShapesStay DEF SetArgs, Shapes, Serving
<1> QED BY <1>8, <1>9 DEF SetArgs, Goal

\* What is sent is the transfer.
LEMMA SendStep ==
  ASSUME NEW m, Serving(m), NEW j \in jobs, Served(j), Send(j)
  PROVE  Goal
<1> DEFINE done == <<[code |-> m, data |-> m, n |-> 1]>>
<1>1. /\ Blank /\ jobs = {j} /\ j.by = m /\ Fresh /\ method[m] = "transfer" /\ models.transfer = m
      /\ transfers = [code |-> m, data |-> m]
  BY DEF Served, Executing, Transferring, Ending, Send, Serving
<1>2. done = Whole(m)
  <2>1. Size(m) = 1 /\ m # Nobody
    BY <1>1, ServingStays DEF Size
  <2>2. Whole(m) = [n \in 1..1 |-> [code |-> m, data |-> m, n |-> n]]
    BY <2>1 DEF Whole, ActionOf
  <2> QED BY <2>2
<1> HIDE DEF done
<1>0. PICK i : Made(i, "transfer", m, 0, done)
  BY DEF Made
<1>3. jobs' = {i}
  BY <1>0, <1>1 DEF Send, Made, done
<1>4. i.kind = "transfer" /\ i.by = m /\ i.done = done /\ IsJob(i)
  BY <1>0, MadeIsJob
<1>5. /\ Blank' /\ Mine' = m /\ Fresh' /\ method'[m] = "transfer" /\ models'.transfer = m
      /\ Whole(m)' = done
      /\ toNative' = <<>> /\ toPage' = <<>> /\ Mine' \in Pending'
  BY <1>1, <1>2, ServingStays DEF Send, Blank, Serving, Mine
<1>6. Transferring(i)'
  BY <1>4, <1>5 DEF Transferring
<1>7. IsJob(i)'
  BY <1>4 DEF IsJob
<1>8. Served(i)'
  BY <1>3, <1>4, <1>5, <1>6, <1>7 DEF Served
<1>9. Stage'
  BY <1>3, <1>5, <1>8, ToBusy
<1>10. Shapes'
  BY ShapesStay DEF Send, Shapes, Serving
<1> QED BY <1>9, <1>10 DEF Send, Goal

\* The page is told the end of an execution.
LEMMA ExecutedStep ==
  ASSUME NEW m, Serving(m), NEW j \in jobs, Served(j), Executed(j)
  PROVE  Goal
<1>1. /\ Blank /\ jobs = {j} /\ j.by = m /\ Listing /\ models.actions = m
      /\ j.ok \in BOOLEAN /\ (j.ok => Carried(m))
  BY DEF Served, Executing, Transferring, Ending, Executed, Serving, Listing
<1>2. PICK good, clear : /\ good \in BOOLEAN
                         /\ Reply(m, [of |-> m, good |-> good, clear |-> clear])
                         /\ good => Carried(m)
  BY <1>1 DEF Executed
<1> DEFINE e == [of |-> m, good |-> good, clear |-> clear]
<1>3. e.of = m /\ e.good = good
  OBVIOUS
<1> HIDE DEF e
<1>4. Blank' /\ jobs' = {} /\ acts' = acts
  BY <1>1 DEF Executed, Blank, NoSheet
<1>5. Stage'
  <2>1. toPage' = Append(toPage, [serial |-> m, answer |-> e])
    BY <1>2 DEF Reply, e
  <2>2. e.good => Carried(m)'
    BY <1>2, <1>3, <1>4, ServingStays
  <2> QED BY <1>3, <1>4, <2>1, <2>2, ServingStays, ToAnswering DEF Serving
<1>6. Shapes'
  <2>1. IsSheet(NoSheet)
    BY DEF IsSheet, NoSheet
  <2>2. ViewsOK'
    BY <2>1 DEF ViewsOK, IsSheet, Executed, Serving, Shapes
  <2> QED BY <2>2, ShapesStay DEF Executed, Shapes, Serving
<1> QED BY <1>4, <1>5, <1>6 DEF Goal

\* The end of a transfer is to be told of the latest request.
LEMMA TransferredStep ==
  ASSUME NEW m, Serving(m), NEW j \in jobs, Served(j), Transferred(j)
  PROVE  Goal
<1>0. PICK i : Noted(i, j, "report", m)
  BY DEF Noted
<1>1. /\ Blank /\ jobs = {j} /\ j.by = m /\ IsJob(j)
      /\ method[m] = "transfer" /\ j.ok \in BOOLEAN /\ (j.ok => Carried(m))
  BY DEF Served, Executing, Transferring, Ending, Transferred, Serving
<1>2. jobs' = {i} /\ i.kind = "report" /\ i.by = m /\ i.of = m /\ i.ok = j.ok /\ IsJob(i)
  <2>1. i.kind = "report" /\ i.by = j.by /\ i.of = m /\ i.ok = j.ok /\ IsJob(i)
    BY <1>0, <1>1, NotedIsJob
  <2>2. jobs' = {i}
    BY <1>0, <1>1 DEF Transferred, Noted, Serving, Mine
  <2> QED BY <1>1, <2>1, <2>2
<1>3. /\ Blank' /\ Mine' = m /\ method' = method /\ (Carried(m) => Carried(m)')
      /\ toNative' = <<>> /\ toPage' = <<>> /\ Mine' \in Pending'
  BY <1>1, ServingStays DEF Transferred, Blank, Serving, Mine
<1>4. IsJob(i)'
  BY <1>2 DEF IsJob
<1>5. Served(i)'
  BY <1>1, <1>2, <1>3, <1>4 DEF Served, Ending
<1>6. Stage'
  BY <1>2, <1>3, <1>5, ToBusy
<1>7. Shapes'
  BY ShapesStay DEF Transferred, Shapes, Serving
<1> QED BY <1>6, <1>7 DEF Transferred, Goal

\* The page is told the end of a transfer, for better or worse.
LEMMA ReportStep ==
  ASSUME NEW m, Serving(m), NEW j \in jobs, Served(j), Report(j)
  PROVE  Goal
<1>1. /\ Blank /\ jobs = {j} /\ j.by = m /\ j.of = m
      /\ j.ok \in BOOLEAN /\ (j.ok => Carried(m))
  BY DEF Served, Executing, Transferring, Ending, Report, Serving, Mine
<1>2. PICK good, clear : /\ good \in BOOLEAN
                         /\ Reply(m, [of |-> m, good |-> good, clear |-> clear])
                         /\ good => Carried(m)
  BY <1>1 DEF Report
<1> DEFINE e == [of |-> m, good |-> good, clear |-> clear]
<1>3. e.of = m /\ e.good = good
  OBVIOUS
<1> HIDE DEF e
<1>4. Blank' /\ jobs' = {} /\ acts' = acts
  BY <1>1 DEF Report, Blank
<1>5. Stage'
  <2>1. toPage' = Append(toPage, [serial |-> m, answer |-> e])
    BY <1>2 DEF Reply, e
  <2>2. e.good => Carried(m)'
    BY <1>2, <1>3, <1>4, ServingStays
  <2> QED BY <1>3, <1>4, <2>1, <2>2, ServingStays, ToAnswering DEF Serving
<1>6. Shapes'
  BY ShapesStay DEF Report, Shapes, Serving
<1> QED BY <1>4, <1>5, <1>6 DEF Goal

\* What fails leaves the rest of its stage to come.
LEMMA FailStep ==
  ASSUME BookInv, NEW m, Serving(m), NEW j \in jobs, Fail(j)
  PROVE  Goal
<1>1. /\ toNative' = <<>> /\ Mine' = m /\ m \in Pending'
      /\ Size(m)' = Size(m) /\ Whole(m)' = Whole(m) /\ method' = method
      /\ UNCHANGED <<models, decoding, list, sheet, windows, nopass, execs, runs, acts>>
  BY ServingStays DEF Fail, Serving
<1>2. Shapes'
  BY <1>1, ShapesStay DEF Shapes, Serving
<1>3. CASE j.kind = "decode"
  <2>1. Decoding
    BY <1>3, AtAnswer
  <2>2. Decoding'
    BY <1>1, <2>1 DEF Decoding, Fail, Blank, Fresh, Carried, Serving, Mine
  <2>3. toPage' = <<>>
    BY <1>3 DEF Fail, Serving
  <2>4. Stage'
    BY <1>1, <2>2, <2>3, ToBusy
  <2> QED BY <1>1, <1>2, <2>4 DEF Goal
<1>4. CASE j.kind = "encode"
  <2>1. PICK k : Encoding(k)
    BY <1>4, AtAnswer
  <2>2. Encoding(k)'
    BY <1>1, <2>1 DEF Encoding, Fail, Blank, Fresh, Carried, Listing, Serving, Mine
  <2>3. toPage' = <<>>
    BY <1>4 DEF Fail, Serving
  <2>4. Stage'
    BY <1>1, <2>2, <2>3, ToEncoding
  <2> QED BY <1>1, <1>2, <2>4 DEF Goal
<1>5. CASE j.kind \notin {"decode", "encode"}
  <2>1. Blank /\ jobs = {j} /\ j.by = m
    BY <1>5, AtAnswer DEF Served, Serving
  <2>2. Blank' /\ jobs' = {}
    BY <1>1, <2>1 DEF Fail, Blank
  <2>3. Stage'
    BY <1>1, <2>2, ToIdle DEF Fail, Serving
  <2> QED BY <1>1, <1>2, <2>3 DEF Goal
<1> QED BY <1>3, <1>4, <1>5

\* Whatever a server answers, the latest request's work goes on, or ends.
LEMMA AnsweredStep ==
  ASSUME BookInv, IsTransfers(transfers), NEW j \in jobs, Answered(j), PageStays, UNCHANGED toNative
  PROVE  Goal
<1>1. UNCHANGED models
  BY DEF Answered, NetAnswer, AccountAnswer, AccountReply, DecodeAnswer, InfoAnswer, EncodeAnswer,
         KeysAnswer, ExecuteAtNode, Executed, AbiAnswer, SetArgs, Send, TransferAtNode, Transferred,
         Report, Fail
<1>2. Busy
  BY AtAnswer
<1>3. Serving(Mine)
  BY <1>1, <1>2, ServingHolds
<1>4. PICK m : m = Mine
  OBVIOUS
<1>5. Serving(m)
  BY <1>3, <1>4
<1>6. CASE DecodeAnswer(j)
  <2>1. Decoding /\ j.by = m /\ j.n \in (1..Size(m)) \ decoding.got[m]
    BY <1>4, <1>6, AtAnswer DEF DecodeAnswer
  <2> QED BY <1>5, <1>6, <2>1, DecodeAnswerStep
<1>7. CASE EncodeAnswer(j)
  <2>1. Encoding(j.run) /\ j.by = m /\ j.n \in (1..Size(m)) \ runs[j.run].got
    BY <1>4, <1>7, AtAnswer DEF EncodeAnswer
  <2> QED BY <1>5, <1>7, <2>1, EncodeAnswerStep
<1>8. CASE Fail(j)
  BY <1>5, <1>8, FailStep
<1>9. CASE \/ NetAnswer(j) \/ AccountAnswer(j) \/ AccountReply(j)
           \/ InfoAnswer(j) \/ KeysAnswer(j) \/ ExecuteAtNode(j) \/ Executed(j)
           \/ AbiAnswer(j) \/ SetArgs(j) \/ Send(j) \/ TransferAtNode(j)
           \/ Transferred(j) \/ Report(j)
  <2>1. j.kind \notin {"decode", "encode"}
    BY <1>9 DEF NetAnswer, AccountAnswer, AccountReply, InfoAnswer, KeysAnswer, ExecuteAtNode,
                Executed, AbiAnswer, SetArgs, Send, TransferAtNode, Transferred, Report
  <2>2. Served(j)
    BY <2>1, AtAnswer
  <2> QED BY <1>5, <1>9, <2>2, ReadAnswered, AccountAnswerStep, InfoAnswerStep, KeysAnswerStep,
             ExecuteAtNodeStep, ExecutedStep, AbiAnswerStep, SetArgsStep, SendStep,
             TransferAtNodeStep, TransferredStep, ReportStep
<1> QED BY <1>6, <1>7, <1>8, <1>9 DEF Answered

-----------------------------------------------------------------------------
(* Touches: what is on top tells the stage *)

\* A sheet or a window on top belongs to the latest request, which waits.
LEMMA AtTouch ==
  ASSUME BookInv
  PROVE  /\ SheetOnTop => Busy /\ Listed
         /\ OnTop("nopass") => Busy /\ Listed /\ Front(windows) = <<>>
         /\ OnTop("prompt") => Busy /\ Prompted /\ Front(windows) = <<>>
         /\ OnTop("message") => Busy /\ Texted /\ Front(windows) = <<>>
<1>1. sheet.up \/ windows # <<>> => Busy /\ (Listed \/ Prompted \/ Texted)
  BY DEF BookInv, Stage, Posted, Answering, Idle, Resting, Blank, Busy, Decoding, Encoding, Served
<1>2. \A name, r : /\ Last(<<View(name, r)>>).name = name
                   /\ Front(<<View(name, r)>>) = <<>>
  BY OneCall DEF View
<1>3. SheetOnTop => Busy /\ Listed
  BY <1>1 DEF SheetOnTop, Prompted, Texted
<1>4. ASSUME windows # <<>>, Listed PROVE Last(windows).name = "nopass" /\ Front(windows) = <<>>
  BY <1>2, <1>4 DEF Listed
<1>5. ASSUME Prompted PROVE Last(windows).name = "prompt" /\ Front(windows) = <<>>
  BY <1>2, <1>5 DEF Prompted
<1>6. ASSUME Texted PROVE Last(windows).name = "message" /\ Front(windows) = <<>>
  BY <1>2, <1>6 DEF Texted
<1>7. OnTop("nopass") => Busy /\ Listed /\ Front(windows) = <<>>
  BY <1>1, <1>4, <1>5, <1>6 DEF OnTop
<1>8. OnTop("prompt") => Busy /\ Prompted /\ Front(windows) = <<>>
  BY <1>1, <1>4, <1>5, <1>6 DEF OnTop
<1>9. OnTop("message") => Busy /\ Texted /\ Front(windows) = <<>>
  BY <1>1, <1>4, <1>5, <1>6 DEF OnTop
<1> QED BY <1>3, <1>7, <1>8, <1>9

\* A sheet stays one that is looked at.
LEMMA SheetWritten ==
  ASSUME IsSheet(sheet), NEW x
  PROVE  /\ sheet' = [sheet EXCEPT !.viewed = x] => IsSheet(sheet)' /\ sheet'.up = sheet.up
         /\ sheet' = [sheet EXCEPT !.up = x] => IsSheet(sheet)' /\ sheet'.up = x
         /\ sheet' = NoSheet => IsSheet(sheet)' /\ sheet'.up = FALSE
<1>1. sheet' = [sheet EXCEPT !.viewed = x] => IsSheet(sheet)' /\ sheet'.up = sheet.up
  BY DEF IsSheet
<1>2. sheet' = [sheet EXCEPT !.up = x] => IsSheet(sheet)' /\ sheet'.up = x
  BY DEF IsSheet
<1>3. sheet' = NoSheet => IsSheet(sheet)' /\ sheet'.up = FALSE
  BY DEF IsSheet, NoSheet
<1> QED BY <1>1, <1>2, <1>3

\* Touches that leave the sheet for later.
LEMMA ListedStep ==
  ASSUME NEW m, Serving(m), Listed,
         UNCHANGED <<list, jobs, acts, toPage, decoding, execs, runs>>,
         sheet'.up, ViewsOK', windows' = <<>> \/ windows' = <<View("nopass", Nobody)>>
  PROVE  Goal
<1>1. Listed'
  BY ServingStays DEF Listed, Listing, Serving, Mine, View
<1>2. Stage'
  BY <1>1, ServingStays, ToBusy DEF Serving
<1>3. Shapes'
  BY ShapesStay DEF Serving, Shapes
<1> QED BY <1>2, <1>3 DEF Goal

\* Touches that end the request, with a refusal or without a word.
LEMMA EndStep ==
  ASSUME NEW m, Serving(m), jobs = {},
         UNCHANGED <<jobs, acts, decoding, execs, runs>>,
         ~sheet'.up, ViewsOK', windows' = <<>>,
         Reply(m, Bad(m)) \/ UNCHANGED toPage
  PROVE  Goal
<1>1. Blank' /\ jobs' = {}
  BY DEF Blank
<1>2. ASSUME Reply(m, Bad(m)) PROVE Stage'
  <2>1. Bad(m).of = m /\ Bad(m).good = FALSE
    BY DEF Bad
  <2>2. toPage' = Append(toPage, [serial |-> m, answer |-> Bad(m)])
    BY <1>2 DEF Reply
  <2> QED BY <1>1, <2>1, <2>2, ServingStays, ToAnswering DEF Serving
<1>3. ASSUME UNCHANGED toPage PROVE Stage'
  BY <1>1, <1>3, ToIdle DEF Serving
<1>4. Shapes'
  BY ShapesStay DEF Serving, Shapes
<1> QED BY <1>2, <1>3, <1>4 DEF Goal

\* Touches that carry the request out.
LEMMA CarryStep ==
  ASSUME NEW m, Serving(m), jobs = {}, Fresh, NeedsConsent(m), NEW meant,
         acts' = Append(acts, Act(m, meant, Whole(m))), Reply(m, Good(m)),
         UNCHANGED <<jobs, decoding, runs>>,
         ExecsOK', ~sheet'.up, ViewsOK', windows' = <<>>
  PROVE  Goal
<1>1. ActsOK' /\ Carried(m)'
  BY ActAdded DEF Serving, Shapes
<1>2. Blank' /\ jobs' = {}
  BY DEF Blank
<1>3. Stage'
  <2>1. Good(m).of = m
    BY DEF Good
  <2>2. toPage' = Append(toPage, [serial |-> m, answer |-> Good(m)])
    BY DEF Reply
  <2> QED BY <1>1, <1>2, <2>1, <2>2, ServingStays, ToAnswering DEF Serving
<1>4. Shapes'
  BY <1>1, ShapesStay DEF Serving, Shapes
<1>5. CarriesOut
  BY DEF CarriesOut, Serving
<1> QED BY <1>3, <1>4, <1>5 DEF Goal

\* A run that starts is one more.
LEMMA RunStarted ==
  ASSUME RunsOK, NEW m, NEW meant,
         runs' = Append(runs, [by |-> m, meant |-> meant, acts |-> <<>>, got |-> {}])
  PROVE  RunsOK' /\ Len(runs) + 1 \in DOMAIN runs' /\ runs'[Len(runs) + 1].got = {}
<1> DEFINE run == [by |-> m, meant |-> meant, acts |-> <<>>, got |-> {}]
<1>1. IsRun(run) /\ run.got = {}
  BY DEF IsRun
<1> HIDE DEF run
<1>2. /\ Indexed(runs') /\ DOMAIN runs = 1..Len(runs) /\ Len(runs) \in Nat
      /\ DOMAIN runs' = 1..(Len(runs) + 1)
      /\ \A i \in 1..Len(runs) : runs'[i] = runs[i]
      /\ runs'[Len(runs) + 1] = run
  BY AppendIndexed DEF RunsOK, run
<1>3. \A i \in DOMAIN runs' : (i \in DOMAIN runs /\ runs'[i] = runs[i]) \/ runs'[i] = run
  BY <1>2
<1>4. \A i \in DOMAIN runs' : IsRun(runs'[i])
  BY <1>1, <1>3 DEF RunsOK
<1>5. RunsOK'
  BY <1>2, <1>4 DEF RunsOK, Indexed, IsRun
<1>6. Len(runs) + 1 \in DOMAIN runs' /\ runs'[Len(runs) + 1] = run
  BY <1>2
<1> QED BY <1>1, <1>5, <1>6

\* The right password signs the actions shown, or starts to execute the list.
LEMMA ConfirmPasswordStep ==
  ASSUME NEW m, Serving(m), Listed, Front(windows) = <<>>, ConfirmPassword
  PROVE  Goal
<1>1. /\ jobs = {} /\ Fresh /\ nopass.right /\ nopass.tick = FALSE /\ m # Nobody /\ Mine = m
      /\ \/ method[m] = "sign" /\ models.toSign = m
         \/ method[m] = "actions" /\ models.actions = m /\ list = Whole(m)
  BY ServingStays DEF Listed, Listing, ConfirmPassword, Serving, Shapes, ViewsOK
<1>2. ViewsOK' /\ ~sheet'.up
  BY <1>1, SheetWritten DEF ConfirmPassword, NopassGone, NoPass, ViewsOK, Serving, Shapes
<1>3. CASE method[m] = "sign"
  <2>1. SignActions(sheet.pages) /\ windows' = <<>>
    BY <1>1, <1>3 DEF ConfirmPassword, Confirmed, Mine
  <2>2. acts' = Append(acts, Act(m, sheet.pages, Whole(m))) /\ Reply(m, Good(m))
    BY <1>1, <1>3, <2>1 DEF SignActions, Mine
  <2>3. ExecsOK'
    BY <2>1 DEF SignActions, ExecsOK, IsExecs, Serving, Shapes
  <2>4. NeedsConsent(m)
    BY <1>3 DEF NeedsConsent, ConsentMethods
  <2> QED BY <1>1, <1>2, <2>1, <2>2, <2>3, <2>4, CarryStep DEF SignActions, ConfirmPassword
<1>4. CASE method[m] = "actions"
  <2>1. Execute(sheet.pages) /\ windows' = <<>>
    BY <1>1, <1>4 DEF ConfirmPassword, Confirmed, Mine
  <2> DEFINE k == Len(runs) + 1
  <2>2. PICK i : i = Job("info", m, k)
    OBVIOUS
  <2>3. IsJob(i) /\ i.kind = "info" /\ i.by = m /\ i.run = k
    BY <2>2 DEF Job, IsJob
  <2>4. jobs' = {i}
    BY <1>1, <1>4, <2>1, <2>2 DEF Execute
  <2>5. RunsOK' /\ k \in DOMAIN runs' /\ runs'[k].got = {}
    BY <2>1, RunStarted DEF Execute, Serving, Shapes
  <2> HIDE DEF k
  <2>6. ExecsOK' /\ execs'.array = Whole(m)
    BY <1>1, <1>4, <2>1 DEF Execute, ExecsOK, IsExecs, Serving, Shapes
  <2>7. /\ Blank' /\ Listing' /\ Fresh' /\ Mine' = m /\ Whole(m)' = Whole(m)
        /\ toNative' = <<>> /\ toPage' = <<>> /\ Mine' \in Pending' /\ UNCHANGED <<acts, decoding>>
    BY <1>1, <1>2, <1>4, <2>1, ServingStays DEF Execute, ConfirmPassword, Blank, Listing, Serving
  <2>8. Executing(i)'
    BY <2>3, <2>5, <2>6, <2>7 DEF Executing
  <2>9. Served(i)'
    BY <2>3, <2>4, <2>7, <2>8 DEF Served, IsJob
  <2>10. Stage'
    BY <2>4, <2>7, <2>9, ToBusy
  <2>11. Shapes'
    BY <1>2, <2>5, <2>6, <2>7, ServingStays, ShapesStay DEF Serving, Shapes
  <2> QED BY <2>7, <2>10, <2>11 DEF Goal
<1> QED BY <1>1, <1>3, <1>4

\* A transfer's password sends its data to be encoded.
LEMMA PromptConfirmedStep ==
  ASSUME NEW m, Serving(m), Prompted, Front(windows) = <<>>, PromptConfirmed
  PROVE  Goal
<1>1. /\ jobs = {} /\ Fresh /\ method[m] = "transfer" /\ models.transfer = m /\ ~sheet.up
      /\ windows = <<View("prompt", m)>>
  BY DEF Prompted, Serving
<1>2. Last(windows).of = m
  BY <1>1, OneCall DEF View
<1>3. PICK i : i = [Job("abi", m, 0) EXCEPT !.of = m]
  OBVIOUS
<1>4. IsJob(i) /\ i.kind = "abi" /\ i.by = m /\ i.of = m
  <2>1. PICK j : j = [kind |-> "abi", by |-> m, run |-> 0, of |-> Nobody, n |-> 0,
                      done |-> <<>>, ok |-> FALSE]
    OBVIOUS
  <2>2. i = [j EXCEPT !.of = m]
    BY <1>3, <2>1 DEF Job
  <2>3. i = [kind |-> "abi", by |-> m, run |-> 0, of |-> m, n |-> 0, done |-> <<>>, ok |-> FALSE]
    BY <2>1, <2>2
  <2> QED BY <2>3 DEF IsJob
<1>5. jobs' = {i}
  BY <1>1, <1>2, <1>3 DEF PromptConfirmed
<1>6. /\ Blank' /\ Mine' = m /\ Fresh' /\ method'[m] = "transfer" /\ models'.transfer = m
      /\ toNative' = <<>> /\ toPage' = <<>> /\ Mine' \in Pending'
  BY <1>1, ServingStays DEF PromptConfirmed, Blank, Serving
<1>7. Transferring(i)'
  BY <1>4, <1>6 DEF Transferring
<1>8. Served(i)'
  BY <1>4, <1>5, <1>6, <1>7 DEF Served, IsJob
<1>9. Stage'
  BY <1>5, <1>6, <1>8, ToBusy
<1>10. Shapes'
  BY ShapesStay DEF PromptConfirmed, Shapes, Serving
<1> QED BY <1>9, <1>10 DEF PromptConfirmed, Goal

\* A message is signed once, or refused.
LEMMA ConfirmMessageStep ==
  ASSUME NEW m, Serving(m), Texted, Front(windows) = <<>>, ConfirmMessage
  PROVE  Goal
<1>1. /\ jobs = {} /\ Fresh /\ method[m] = "message" /\ models.message = m /\ models.latest = m
      /\ windows' = <<>> /\ ~sheet'.up /\ UNCHANGED <<jobs, decoding, execs, runs>>
  BY DEF Texted, Serving, ConfirmMessage, Mine
<1>2. ViewsOK' /\ ExecsOK'
  BY ShapesStay DEF ConfirmMessage, Serving
<1>3. CASE /\ acts' = Append(acts, Act(models.message, Whole(text), Whole(models.message)))
           /\ Reply(models.latest, Good(models.message))
  <2>1. NeedsConsent(m)
    BY <1>1 DEF NeedsConsent, ConsentMethods
  <2> QED BY <1>1, <1>2, <1>3, <2>1, CarryStep
<1>4. CASE Reply(models.latest, Bad(models.latest)) /\ UNCHANGED acts
  BY <1>1, <1>2, <1>4, EndStep
<1> QED BY <1>3, <1>4 DEF ConfirmMessage

\* Whatever is touched, the latest request goes on, is carried out, or ends.
LEMMA TouchStep ==
  ASSUME BookInv, Waits, Touch, PageStays, UNCHANGED toNative
  PROVE  Goal
<1>1. nopass.tick = FALSE
  BY DEF BookInv, Shapes, ViewsOK
<1>2. Busy
  BY AtTouch DEF Touch, LookAtAll, ConfirmSheet, CloseSheet, HideSheet, TypePassword, CancelPassword,
     ConfirmPassword, PromptRefused, PromptCancelled, PromptConfirmed, LeaveMessage, ConfirmMessage
<1>3. UNCHANGED models
  <2>1. ASSUME ConfirmPassword PROVE UNCHANGED models
    <3>1. Listed
      BY <2>1, AtTouch DEF ConfirmPassword
    <3>2. models.latest # Nobody /\ method[models.latest] \in {"sign", "actions"}
      BY <1>2, <3>1, NobodyAssumption DEF Busy, Listed, Listing, Pending, Mine
    <3> QED BY <2>1, <3>2 DEF ConfirmPassword, Confirmed, SignActions, Execute
  <2> QED BY <1>1, <2>1 DEF Touch, LookAtAll, ConfirmSheet, CloseSheet, HideSheet, TypePassword,
     CancelPassword, PromptRefused, PromptCancelled, PromptConfirmed, LeaveMessage, ConfirmMessage
<1>4. PICK m : Serving(m)
  BY <1>2, <1>3, ServingHolds
<1>5. IsSheet(sheet) /\ models.latest = m /\ Mine = m
  BY <1>4 DEF Serving, Shapes, ViewsOK, Mine
<1>6. UNCHANGED nopass /\ IsSheet(sheet)' => ViewsOK'
  BY <1>1 DEF ViewsOK
<1>7. UNCHANGED <<sheet, nopass>> => ViewsOK'
  BY <1>4, ShapesStay DEF Serving
<1>8. ASSUME LookAtAll PROVE Goal
  <2>1. Listed
    BY <1>8, AtTouch DEF LookAtAll
  <2> QED BY <1>4, <1>5, <1>6, <1>8, <2>1, SheetWritten, ListedStep DEF LookAtAll, Listed, SheetOnTop
<1>9. ASSUME ConfirmSheet PROVE Goal
  <2>1. Listed
    BY <1>9, AtTouch DEF ConfirmSheet
  <2> QED BY <1>1, <1>4, <1>5, <1>7, <1>9, <2>1, ListedStep DEF ConfirmSheet, Listed
<1>10. ASSUME CloseSheet PROVE Goal
  <2>1. Listed /\ windows = <<>>
    BY <1>10, AtTouch DEF CloseSheet, SheetOnTop
  <2> QED BY <1>4, <1>5, <1>6, <1>10, <2>1, SheetWritten, EndStep DEF CloseSheet, Listed
<1>11. ASSUME HideSheet PROVE Goal
  <2>1. Listed /\ windows = <<>>
    BY <1>11, AtTouch DEF HideSheet, SheetOnTop
  <2> QED BY <1>4, <1>5, <1>6, <1>11, <2>1, SheetWritten, EndStep DEF HideSheet, Listed
<1>12. ASSUME NEW right \in BOOLEAN, NEW tick \in BOOLEAN, TypePassword(right, tick) PROVE Goal
  <2>1. Listed
    BY <1>12, AtTouch DEF TypePassword
  <2>2. ViewsOK'
    BY <1>5, <1>12 DEF TypePassword, Waits, ViewsOK, IsSheet
  <2> QED BY <1>4, <1>12, <2>1, <2>2, ListedStep DEF TypePassword, Listed
<1>13. ASSUME CancelPassword PROVE Goal
  <2>1. Listed /\ Front(windows) = <<>>
    BY <1>13, AtTouch DEF CancelPassword
  <2>2. ViewsOK'
    BY <1>1, <1>5, <1>13 DEF CancelPassword, NopassGone, NoPass, ViewsOK, IsSheet
  <2> QED BY <1>4, <1>13, <2>1, <2>2, ListedStep DEF CancelPassword, Listed
<1>14. ASSUME ConfirmPassword PROVE Goal
  <2>1. Listed /\ Front(windows) = <<>>
    BY <1>14, AtTouch DEF ConfirmPassword
  <2> QED BY <1>4, <1>14, <2>1, ConfirmPasswordStep
<1>15. ASSUME PromptRefused \/ PromptCancelled PROVE Goal
  <2>1. Prompted /\ Front(windows) = <<>>
    BY <1>15, AtTouch DEF PromptRefused, PromptCancelled
  <2> QED BY <1>4, <1>5, <1>7, <1>15, <2>1, EndStep DEF PromptRefused, PromptCancelled, Prompted
<1>16. ASSUME PromptConfirmed PROVE Goal
  <2>1. Prompted /\ Front(windows) = <<>>
    BY <1>16, AtTouch DEF PromptConfirmed
  <2> QED BY <1>4, <1>16, <2>1, PromptConfirmedStep
<1>17. ASSUME LeaveMessage PROVE Goal
  <2>1. Texted /\ Front(windows) = <<>>
    BY <1>17, AtTouch DEF LeaveMessage
  <2> QED BY <1>4, <1>5, <1>7, <1>17, <2>1, EndStep DEF LeaveMessage, Texted
<1>18. ASSUME ConfirmMessage PROVE Goal
  <2>1. Texted /\ Front(windows) = <<>>
    BY <1>18, AtTouch DEF ConfirmMessage
  <2> QED BY <1>4, <1>18, <2>1, ConfirmMessageStep
<1> QED BY <1>8, <1>9, <1>10, <1>11, <1>12, <1>13, <1>14, <1>15, <1>16, <1>17, <1>18 DEF Touch

-----------------------------------------------------------------------------
(* Every step *)

\* An app's step keeps the page, serves the latest request, and keeps BookInv.
LEMMA AppStep ==
  ASSUME BookInv, IsTransfers(transfers), Waits, App
  PROVE  PageStays /\ Goal /\ BookInv'
<1>1. PageStays
  BY AppKeepsPage DEF PageStays
<1>2. Goal
  <2>1. ASSUME NEW r \in Requests, Message(r) PROVE Goal
    BY <2>1, MessageStep
  <2>2. ASSUME NEW j \in jobs, Answered(j), UNCHANGED toNative PROVE Goal
    BY <1>1, <2>2, AnsweredStep
  <2>3. ASSUME Touch, UNCHANGED toNative PROVE Goal
    BY <1>1, <2>3, TouchStep
  <2> QED BY <2>1, <2>2, <2>3 DEF App
<1>3. PromiseOK' /\ Pending' = Pending /\ \A r : Whole(r)' = Whole(r)
  BY <1>1, Steady DEF BookInv
<1>4. result' = [r \in Requests |-> result'[r]] /\ OnePending'
  BY <1>1, <1>3 DEF BookInv, PageStays, OnePending
<1>5. ActsAreExact'
  <2>1. ASSUME acts' = acts PROVE ActsAreExact'
    BY <1>1, <1>3, <2>1 DEF ActsAreExact, BookInv, PageStays
  <2>2. ASSUME CarriesOut PROVE ActsAreExact'
    <3>1. PICK m, meant : m = Mine /\ acts' = Append(acts, Act(m, meant, Whole(m)))
      BY <2>2 DEF CarriesOut
    <3>2. /\ Indexed(acts) /\ m \in Requests /\ promise[m] # "unborn"
      BY <2>2, <3>1 DEF CarriesOut, BookInv, Shapes, ActsOK, Pending
    <3> DEFINE a == Act(m, meant, Whole(m))
    <3>3. a.by = m /\ a.done = Whole(m)
      BY DEF Act
    <3> HIDE DEF a
    <3>4. \A i \in DOMAIN acts' : (i \in DOMAIN acts /\ acts'[i] = acts[i]) \/ acts'[i] = a
      BY <3>1, <3>2, AppendIndexed DEF a
    <3> QED BY <1>1, <1>3, <3>2, <3>3, <3>4 DEF ActsAreExact, BookInv, PageStays
  <2> QED BY <1>2, <2>1, <2>2 DEF Goal
<1> QED BY <1>1, <1>2, <1>3, <1>4, <1>5 DEF BookInv, Goal

\* A page that waits asks when nothing else is going on.
LEMMA AskStep ==
  ASSUME BookInv, Pending = {}, NEW r \in Requests, Ask(r), UNCHANGED native
  PROVE  BookInv'
<1>1. Idle
  BY DEF BookInv, Stage, Posted, Busy, Answering
<1>2. PromiseOK' /\ Pending' = {r} /\ callback' = r /\ result' = result
  BY DEF Ask, BookInv, PromiseOK, Status, Pending
<1>3. Shapes'
  BY ShapesStay DEF native, BookInv, Shapes
<1>4. ActsAreExact'
  <2>1. method' = method /\ acts' = acts
    BY DEF Ask, native
  <2>2. \A q : Whole(q)' = Whole(q)
    BY <2>1 DEF Whole, Size
  <2>3. \A q \in Requests : promise[q] # "unborn" => promise'[q] # "unborn"
    BY DEF Ask, BookInv, PromiseOK
  <2> QED BY <2>1, <2>2, <2>3 DEF ActsAreExact, BookInv
<1>5. toNative' = <<r>> /\ toPage' = <<>> /\ Resting'
  BY <1>1, OneCall DEF Idle, Ask, Post, Resting, Blank, native
<1>6. ~Carried(r)'
  BY DEF Carried, native, Ask, BookInv, ActsAreExact
<1>7. Posted'
  BY <1>2, <1>5, <1>6 DEF Posted
<1> QED BY <1>2, <1>3, <1>4, <1>7 DEF BookInv, Stage, OnePending

\* What the page evaluates settles the request that waits, or nothing.
LEMMA EvaluateStep ==
  ASSUME BookInv, Evaluate
  PROVE  /\ BookInv'
         /\ \/ UNCHANGED <<promise, result>>
            \/ \E m \in Pending : \E e :
                 /\ promise' = [promise EXCEPT ![m] = "settled"]
                 /\ result' = [result EXCEPT ![m] = e]
                 /\ e.of = m /\ (e.good /\ NeedsConsent(m) => Carried(m))
<1> DEFINE call == Head(toPage)
<1>1. Answering /\ CallBack(call) /\ UNCHANGED native
  BY DEF Evaluate, BookInv, Stage, Posted, Busy, Idle
<1>2. /\ toPage' = <<>> /\ toNative' = <<>> /\ Resting'
      /\ method' = method /\ callback' = callback /\ acts' = acts
  BY <1>1 DEF Answering, CallBack, Resting, Blank, native
<1>3. PICK m, e : /\ m \in Pending /\ m = Mine /\ call.serial = m /\ call.answer = e
                              /\ e.of = m /\ (e.good /\ NeedsConsent(m) => Carried(m))
  BY <1>1 DEF Answering
<1> HIDE DEF call
<1>4. \/ UNCHANGED <<promise, result>>
      \/ /\ promise' = [promise EXCEPT ![m] = "settled"]
         /\ result' = [result EXCEPT ![m] = e]
  BY <1>1, <1>3 DEF CallBack
<1>5. PromiseOK' /\ Pending' \subseteq Pending /\ result' = [r \in Requests |-> result'[r]]
  BY <1>2, <1>4 DEF BookInv, PromiseOK, Status, Pending
<1>6. Shapes' /\ Idle'
  BY <1>1, <1>2, ShapesStay DEF native, BookInv, Shapes, Idle
<1>7. ActsAreExact'
  <2>1. \A q : Whole(q)' = Whole(q)
    BY <1>2 DEF Whole, Size
  <2>2. \A q \in Requests : promise[q] # "unborn" => promise'[q] # "unborn"
    BY <1>4 DEF BookInv, PromiseOK
  <2> QED BY <1>2, <2>1, <2>2 DEF ActsAreExact, BookInv
<1>8. BookInv'
  BY <1>2, <1>5, <1>6, <1>7 DEF BookInv, Stage, OnePending
<1> QED BY <1>3, <1>4, <1>8

\* BookInv holds at first.
LEMMA BookInvInit == Init => BookInv
<1> SUFFICES ASSUME Init PROVE BookInv
  OBVIOUS
<1>1. PromiseOK /\ result = [r \in Requests |-> result[r]] /\ Pending = {} /\ acts = <<>> /\ runs = <<>>
  BY PromiseInductive DEF Init, ChannelInit, Pending
<1>2. Shapes
  <2>1. ModelsOK /\ DecodingOK
    BY DEF Init, ModelsOK, DecodingOK, MaybeRequest
  <2>2. ViewsOK /\ ExecsOK
    BY DEF Init, ViewsOK, ExecsOK, NoSheet, NoPass, IsSheet, IsExecs
  <2>3. RunsOK /\ ActsOK
    BY <1>1, EmptyIndexed DEF RunsOK, ActsOK
  <2> QED BY <2>1, <2>2, <2>3 DEF Shapes
<1>3. Idle
  BY DEF Init, ChannelInit, Idle, Resting, Blank, NoSheet
<1> QED BY <1>1, <1>2, <1>3 DEF BookInv, OnePending, ActsAreExact, Stage

-----------------------------------------------------------------------------
(* The refinement *)

\* The book's variables, as the refinement mapping of KeepsBook has them.
Consents == {r \in Requests : NeedsConsent(r)}
Asked == {r \in Requests : promise[r] # "unborn"}
Done == [i \in DOMAIN acts |-> IF acts[i].done = Whole(acts[i].by) THEN acts[i].by ELSE Nobody]
ToldEach == [r \in Requests |-> Told(r)]

\* Carrying the latest request out adds it to what is done.
LEMMA DoneGrows ==
  ASSUME BookInv, BookInv', PageStays, CarriesOut
  PROVE  Done' = Append(Done, Mine) /\ \A i \in DOMAIN Done : Done[i] # Mine
<1>1. PICK m, meant : m = Mine /\ acts' = Append(acts, Act(m, meant, Whole(m)))
  BY DEF CarriesOut
<1>2. Done = [i \in DOMAIN acts |-> acts[i].by]
  BY DEF Done, BookInv, ActsAreExact
<1>3. Done' = [i \in DOMAIN acts' |-> acts'[i].by]
  BY DEF Done, BookInv, ActsAreExact
<1> DEFINE a == Act(m, meant, Whole(m))
<1>4. a.by = m
  BY DEF Act
<1> HIDE DEF a
<1>5. /\ DOMAIN acts = 1..Len(acts) /\ Len(acts) \in Nat
      /\ DOMAIN acts' = 1..(Len(acts) + 1)
      /\ \A i \in 1..Len(acts) : acts'[i] = acts[i]
      /\ acts'[Len(acts) + 1] = a
  BY <1>1, AppendIndexed DEF a, BookInv, Shapes, ActsOK
<1>6. PICK n \in Nat : n = Len(acts)
  BY <1>5
<1>7. DOMAIN Done = 1..n /\ Indexed(Done) /\ Len(Done) = n
  <2> DEFINE S == {acts[i].by : i \in 1..n}
  <2>1. Done = [i \in 1..n |-> acts[i].by]
    BY <1>2, <1>5, <1>6
  <2>2. Done \in [1..n -> S]
    BY <2>1
  <2>3. Done \in Seq(S) /\ Len(Done) = n /\ DOMAIN Done = 1..n
    BY <2>2, SeqDef
  <2>4. S = {Done[i] : i \in DOMAIN Done}
    BY <2>1, <2>3
  <2> QED BY <2>3, <2>4 DEF Indexed
<1>8. Done' = Append(Done, m)
  <2> DEFINE D == Append(Done, m)
  <2>1. /\ DOMAIN D = 1..(n + 1) /\ D[n + 1] = m
        /\ \A i \in 1..n : D[i] = Done[i]
    BY <1>7, AppendIndexed
  <2>2. D = [i \in 1..(n + 1) |-> D[i]]
    <3>1. Indexed(D)
      BY <1>7, AppendIndexed
    <3> HIDE DEF D
    <3> QED BY <2>1, <3>1 DEF Indexed
  <2>3. Done' = [i \in 1..(n + 1) |-> acts'[i].by]
    BY <1>3, <1>5, <1>6
  <2>4. \A i \in 1..(n + 1) : D[i] = acts'[i].by
    BY <1>2, <1>4, <1>5, <1>6, <2>1
  <2> HIDE DEF D
  <2>5. Done' = D
    BY <2>2, <2>3, <2>4
  <2> QED BY <2>5 DEF D
<1>9. \A i \in DOMAIN Done : Done[i] # m
  BY <1>1, <1>2 DEF CarriesOut, Carried, Fresh
<1> QED BY <1>1, <1>8, <1>9

\* What is carried out is in what is done.
LEMMA DoneHas ==
  ASSUME BookInv, NEW r, Carried(r)
  PROVE  \E i \in DOMAIN Done : Done[i] = r
BY DEF Carried, Done, BookInv, ActsAreExact

\* Without an act, what is done stays; without an answer, what is told.
LEMMA BookStays ==
  ASSUME PageStays
  PROVE  /\ Consents' = Consents /\ Asked' = Asked /\ ToldEach' = ToldEach
         /\ UNCHANGED acts => Done' = Done
<1>1. Consents' = Consents /\ Asked' = Asked
  BY DEF PageStays, Consents, Asked, NeedsConsent
<1>2. ToldEach' = ToldEach
  BY DEF PageStays, ToldEach, Told
<1>3. ASSUME UNCHANGED acts PROVE Done' = Done
  <2>1. \A r : Whole(r)' = Whole(r)
    BY Steady
  <2> QED BY <1>3, <2>1 DEF Done
<1> QED BY <1>1, <1>2, <1>3

\* The bridge's first states are first states of the book.
LEMMA BookStarts == Init => Book!Init
<1> SUFFICES ASSUME Init PROVE Book!Init
  OBVIOUS
<1>1. Consents \subseteq Requests
  BY DEF Consents
<1>2. Asked = {}
  BY DEF Init, ChannelInit, Asked
<1>3. Done = <<>>
  BY DEF Init, Done
<1>4. ToldEach = [r \in Requests |-> "nothing"]
  BY DEF Init, ChannelInit, ToldEach, Told
<1> QED BY <1>1, <1>2, <1>3, <1>4 DEF Book!Init, Consents, Asked, Done, ToldEach

\* A step of the book, by the names of its variables.
LEMMA BookSteps ==
  ASSUME NEW r \in Requests
  PROVE  /\ /\ r \notin Asked /\ Asked' = Asked \cup {r}
            /\ Consents' = Consents /\ Done' = Done /\ ToldEach' = ToldEach
            => Book!Next
         /\ /\ r \in Asked \cap Consents /\ (\A i \in DOMAIN Done : Done[i] # r)
            /\ ToldEach[r] = "nothing" /\ Done' = Append(Done, r)
            /\ Consents' = Consents /\ Asked' = Asked /\ ToldEach' = ToldEach
            => Book!Next
         /\ \A what \in {"done", "refused"} :
              /\ r \in Asked /\ ToldEach[r] = "nothing"
              /\ (what = "done" /\ r \in Consents => \E i \in DOMAIN Done : Done[i] = r)
              /\ ToldEach' = [ToldEach EXCEPT ![r] = what]
              /\ Consents' = Consents /\ Asked' = Asked /\ Done' = Done
              => Book!Next
BY DEF Book!Next, Book!Ask, Book!CarryOut, Book!Answer, Consents, Asked, Done, ToldEach

\* BookInv speaks of the state only.
LEMMA StutterKeeps ==
  ASSUME BookInv, UNCHANGED vars
  PROVE  BookInv'
<1>1. /\ UNCHANGED <<method, promise, result, callback, toNative, toPage, models, decoding, list, sheet>>
      /\ UNCHANGED <<windows, nopass, transfers, execs, runs, jobs, acts>>
  BY DEF vars, channel, native
<1>2. /\ Pending' = Pending /\ Mine' = Mine /\ PromiseOK' /\ Shapes'
      /\ \A r : Size(r)' = Size(r) /\ Whole(r)' = Whole(r) /\ NeedsConsent(r)' = NeedsConsent(r)
      /\ \A r : Carried(r)' = Carried(r)
  BY <1>1, Steady, ShapesStay DEF PageStays, Mine, Carried, BookInv, Shapes
<1>3. PICK m : m = Mine
  OBVIOUS
<1>4. /\ Blank' = Blank /\ Resting' = Resting /\ Fresh' = Fresh /\ Listing' = Listing
      /\ Size(Mine)' = Size(m) /\ Whole(Mine)' = Whole(m)
  BY <1>1, <1>2, <1>3 DEF Blank, Resting, Fresh, Carried, Listing, Mine, Size, Whole
<1>5. OnePending' /\ ActsAreExact' /\ result' = [r \in Requests |-> result'[r]]
  BY <1>1, <1>2 DEF BookInv, OnePending, ActsAreExact
<1>6. CASE Posted
  BY <1>1, <1>2, <1>4, <1>5, <1>6 DEF Posted, BookInv, Stage
<1>7. CASE Idle
  BY <1>1, <1>2, <1>4, <1>5, <1>7 DEF Idle, BookInv, Stage
<1>8. CASE Answering
  <2>1. Answering'
    BY <1>1, <1>2, <1>4, <1>8 DEF Answering, Carried, NeedsConsent, Mine
  <2> QED BY <1>1, <1>2, <1>5, <2>1 DEF BookInv, Stage
<1>9. CASE Busy
  <2>1. Decoding => Decoding'
    BY <1>1, <1>2, <1>3, <1>4 DEF Decoding
  <2>2. Listed \/ Prompted \/ Texted => Listed' \/ Prompted' \/ Texted'
    BY <1>1, <1>2, <1>3, <1>4 DEF Listed, Prompted, Texted, View
  <2>3. ASSUME NEW j \in jobs, Served(j) PROVE Served(j)'
    BY <1>1, <1>2, <1>3, <1>4, <2>3 DEF Served, Executing, Transferring, Ending, Carried, IsJob
  <2>4. ASSUME NEW k, Encoding(k) PROVE Encoding(k)'
    BY <1>1, <1>2, <1>3, <1>4, <2>4 DEF Encoding
  <2>5. Busy'
    BY <1>1, <1>2, <1>9, <2>1, <2>2, <2>3, <2>4 DEF Busy
  <2> QED BY <1>1, <1>2, <1>5, <2>5 DEF BookInv, Stage
<1> QED BY <1>6, <1>7, <1>8, <1>9 DEF BookInv, Stage

\* Every step of the bridge is a step of the book, or none.
LEMMA StepsKeepBook ==
  ASSUME Waits, TypeInv, BookInv, [Next]_vars
  PROVE  BookInv' /\ [Book!Next]_(Book!book)
<1>1. ASSUME UNCHANGED <<Consents, Asked, Done, ToldEach>> PROVE UNCHANGED Book!book
  BY <1>1 DEF Book!book, Consents, Asked, Done, ToldEach
<1>2. ASSUME App PROVE BookInv' /\ [Book!Next]_(Book!book)
  <2>0. IsTransfers(transfers)
    BY DEF TypeInv, Typed, IsTransfers
  <2>1. PageStays /\ Goal /\ BookInv'
    BY <1>2, <2>0, AppStep
  <2>2. ASSUME acts' = acts PROVE UNCHANGED Book!book
    BY <1>1, <2>1, <2>2, BookStays
  <2>3. ASSUME CarriesOut PROVE Book!Next
    <3>1. PICK m \in Requests : m = Mine /\ m \in Pending /\ NeedsConsent(m)
      BY <2>3 DEF CarriesOut, Pending
    <3>2. Done' = Append(Done, m) /\ \A i \in DOMAIN Done : Done[i] # m
      BY <2>1, <2>3, <3>1, DoneGrows
    <3>3. m \in Asked \cap Consents /\ ToldEach[m] = "nothing"
      BY <3>1 DEF Asked, Consents, ToldEach, Told, Pending
    <3> QED BY <2>1, <3>2, <3>3, BookStays, BookSteps
  <2> QED BY <2>1, <2>2, <2>3 DEF Goal
<1>3. ASSUME NEW r \in Requests, Patient => Pending = {}, Ask(r), UNCHANGED native
      PROVE  BookInv' /\ [Book!Next]_(Book!book)
  <2>1. BookInv'
    BY <1>3, AskStep DEF Waits
  <2>2. r \notin Asked /\ Asked' = Asked \cup {r}
    BY <1>3 DEF Asked, Ask, BookInv, PromiseOK
  <2>3. Consents' = Consents /\ Done' = Done
    BY <1>3 DEF Ask, native, Consents, NeedsConsent, Done, Whole, Size
  <2>4. ToldEach' = ToldEach
    BY <1>3 DEF Ask, ToldEach, Told, BookInv, PromiseOK
  <2> QED BY <2>1, <2>2, <2>3, <2>4, BookSteps
<1>4. ASSUME Evaluate PROVE BookInv' /\ [Book!Next]_(Book!book)
  <2>1. BookInv' /\ method' = method /\ acts' = acts
    BY <1>4, EvaluateStep DEF Evaluate, CallBack, native
  <2>2. Consents' = Consents /\ Done' = Done
    BY <2>1 DEF Consents, NeedsConsent, Done, Whole, Size
  <2>3. ASSUME UNCHANGED <<promise, result>> PROVE UNCHANGED Book!book
    BY <1>1, <2>2, <2>3 DEF Asked, ToldEach, Told
  <2>4. ASSUME NEW m \in Pending, NEW e,
               promise' = [promise EXCEPT ![m] = "settled"],
               result' = [result EXCEPT ![m] = e],
               e.of = m, e.good /\ NeedsConsent(m) => Carried(m)
        PROVE  Book!Next
    <3>1. m \in Requests /\ promise \in [Requests -> Status] /\ promise[m] = "pending"
          /\ result = [r \in Requests |-> result[r]]
      BY DEF Pending, BookInv, PromiseOK
    <3>2. m \in Asked /\ Asked' = Asked /\ ToldEach[m] = "nothing"
      BY <2>4, <3>1 DEF Asked, ToldEach, Told, Status
    <3>3. PICK what \in {"done", "refused"} : what = (IF e.good THEN "done" ELSE "refused")
      OBVIOUS
    <3>4. ToldEach' = [ToldEach EXCEPT ![m] = what]
      BY <2>4, <3>1, <3>3 DEF ToldEach, Told
    <3>5. what = "done" /\ m \in Consents => \E i \in DOMAIN Done : Done[i] = m
      BY <2>4, <3>3, DoneHas DEF Consents
    <3> QED BY <2>2, <3>1, <3>2, <3>4, <3>5, BookSteps
  <2> QED BY <1>4, <2>1, <2>3, <2>4, EvaluateStep
<1>5. ASSUME UNCHANGED vars PROVE BookInv' /\ [Book!Next]_(Book!book)
  <2>1. PageStays /\ UNCHANGED <<native, toNative, toPage>>
    BY <1>5 DEF vars, channel, PageStays
  <2>2. UNCHANGED Book!book
    BY <1>1, <2>1, BookStays DEF native
  <2>3. BookInv'
    BY <1>5, StutterKeeps
  <2> QED BY <2>2, <2>3
<1> QED BY <1>2, <1>3, <1>4, <1>5 DEF Next, Page, Waits

\* To a page that waits for each answer, and without a remembered password, the
\* bridge keeps the promise of RequestBook, whatever is asked and touched.
THEOREM BridgeKeepsBook ==
  ASSUME Waits
  PROVE  Spec => KeepsBook
<1>1. TypeInv /\ BookInv /\ [Next]_vars => BookInv' /\ [Book!Next]_(Book!book)
  BY StepsKeepBook
<1> QED BY <1>1, TypeInductive, BookInvInit, BookStarts, PTL DEF Spec, KeepsBook, Book!Spec

-----------------------------------------------------------------------------
(* One request of consent at a time.  As long as none was crossed by        *)
(* another, everything open belongs to one request, whatever the page reads *)
(* meanwhile and however late answers come.                                 *)

\* What the app has to answer for, other than reads of the page.
Work == {j \in jobs : j.kind \notin ReadKinds}

\* The app has taken the request's message.
Arrived(r) ==
  r \in Requests /\ promise[r] # "unborn" /\ \A i \in DOMAIN toNative : toNative[i] # r

\* A message is posted once, when its request is made.
Queued ==
  /\ \A i \in DOMAIN toNative : promise[toNative[i]] # "unborn"
  /\ \A i, k \in DOMAIN toNative : toNative[i] = toNative[k] => i = k

Closed == sheet.pages = <<>> /\ ~sheet.up /\ windows = <<>>
Quiet == Closed /\ Work = {}
Passwords == windows = <<>> \/ windows = <<View("nopass", Nobody)>>

AloneDecoded(c) ==
  /\ method[c] = "sign" /\ models.toSign = c /\ Closed /\ ~Carried(c)
  /\ decoding.count = Cardinality(decoding.got[c])
  /\ Work \subseteq {[Job("decode", c, 0) EXCEPT !.n = n] : n \in (1..Size(c)) \ decoding.got[c]}

AloneSigned(c) ==
  /\ method[c] = "sign" /\ models.toSign = c /\ Passwords /\ ~Carried(c)
  /\ Work = {} /\ sheet.pages = Whole(c)

AloneListed(c) ==
  /\ method[c] = "actions" /\ models.actions = c /\ list = Whole(c) /\ Passwords /\ ~Carried(c)
  /\ Work = {} /\ sheet.pages = Whole(c) /\ \A k \in DOMAIN runs : runs[k].by # c

\* The run of a list, and where it can be with its servers.
RunOf(c, k) ==
  /\ method[c] = "actions" /\ models.actions = c /\ Passwords
  /\ sheet.pages = <<>> => ~sheet.up
  /\ k \in DOMAIN runs /\ runs[k].by = c /\ runs[k].meant = Whole(c)
RunEncoded(c, k) ==
  /\ ~Carried(c) /\ runs[k].acts = Whole(c) /\ execs.array = Whole(c)
  /\ execs.count = Cardinality(runs[k].got)
  /\ Work \subseteq {[Job("encode", c, k) EXCEPT !.n = n] : n \in (1..Size(c)) \ runs[k].got}
RunAt(c, j) ==
  /\ Work = {j} /\ j.by = c
  /\ \/ j.kind = "info" /\ execs.array = Whole(c) /\ ~Carried(c)
     \/ j.kind = "keys" /\ execs.final = Whole(c) /\ ~Carried(c)
     \/ j.kind = "push" /\ j.done = Whole(c) /\ ~Carried(c)
     \/ j.kind = "pushed"

AloneExecuted(c) ==
  \E k \in DOMAIN runs :
    RunOf(c, k) /\ (Work = {} \/ RunEncoded(c, k) \/ \E j \in Work : j.run = k /\ RunAt(c, j))

AlonePrompted(c) ==
  /\ method[c] = "transfer" /\ models.transfer = c /\ ~Carried(c)
  /\ sheet.pages = <<>> /\ ~sheet.up /\ windows = <<View("prompt", c)>> /\ Work = {}

TransferOf(c) == method[c] = "transfer" /\ models.transfer = c /\ Closed
TransferAt(c, j) ==
  /\ Work = {j} /\ j.by = c
  /\ \/ j.kind = "abi" /\ j.of = c /\ ~Carried(c)
     \/ j.kind = "args" /\ j.of = c /\ transfers.code = c /\ ~Carried(c)
     \/ j.kind = "send" /\ transfers = [code |-> c, data |-> c] /\ ~Carried(c)
     \/ j.kind = "transfer" /\ j.done = Whole(c) /\ ~Carried(c)
     \/ j.kind \in {"transferred", "report"}

AloneTransferred(c) == TransferOf(c) /\ \E j \in Work : TransferAt(c, j)

AloneTexted(c) ==
  /\ method[c] = "message" /\ models.message = c /\ ~Carried(c)
  /\ sheet.pages = <<>> /\ ~sheet.up /\ windows = <<View("message", c)>> /\ Work = {}

\* Where a request of consent can be while it is the only one.
Phase(c) ==
  \/ AloneDecoded(c) \/ AloneSigned(c) \/ AloneListed(c) \/ AloneExecuted(c)
  \/ AlonePrompted(c) \/ AloneTransferred(c) \/ AloneTexted(c)

\* The one request, which is the latest, or was followed by reads only.
Alone(c) ==
  /\ Arrived(c) /\ Mine \in Requests /\ (NeedsConsent(Mine) => Mine = c)
  /\ Phase(c)

\* What is done or under way is of requests that have arrived.
Before ==
  /\ \A i \in DOMAIN acts : Arrived(acts[i].by)
  /\ \A k \in DOMAIN runs : Arrived(runs[k].by)

Exact ==
  /\ \A i \in DOMAIN acts :
       LET act == acts[i] IN
       /\ act.done = Whole(act.by)
       /\ method[act.by] \in {"sign", "actions"} => act.meant = act.done
  /\ \A i, j \in DOMAIN acts : acts[i].by = acts[j].by => i = j

AloneOK == Exact /\ Before /\ (Quiet \/ \E c \in Requests : Alone(c))

LoneInv == TypeInv /\ Queued /\ (~crossed => AloneOK)

(* What steps leave as it is *)

\* Requests that have arrived stay so.
ArrivedStay == \A q : Arrived(q) => Arrived(q)'

\* The app's answers and touches leave the messages alone.
LEMMA ArrivedWait ==
  ASSUME UNCHANGED <<promise, toNative>>
  PROVE  ArrivedStay /\ (Queued => Queued')
BY DEF ArrivedStay, Arrived, Queued

\* Nor does the page go back on a request it has made.
LEMMA BornWait ==
  ASSUME UNCHANGED toNative, \A r \in Requests : promise[r] # "unborn" => promise'[r] # "unborn",
         toNative \in Seq(Requests)
  PROVE  ArrivedStay /\ (Queued => Queued')
<1>1. \A i \in DOMAIN toNative : toNative[i] \in Requests
  OBVIOUS
<1> QED BY <1>1 DEF ArrivedStay, Arrived, Queued

\* A message that is taken has not arrived before.
LEMMA ArrivedNow ==
  ASSUME TypeInv, Queued, NEW r \in Requests, Receive(r)
  PROVE  ArrivedStay /\ Queued' /\ ~Arrived(r) /\ Arrived(r)'
<1>1. toNative \in Seq(Requests) /\ toNative # <<>> /\ r = Head(toNative) /\ toNative' = Tail(toNative)
      /\ promise' = promise
  BY DEF TypeInv, Typed, ChannelOK, Receive
<1>2. Len(toNative) \in Nat /\ Len(toNative) # 0 /\ DOMAIN toNative = 1..Len(toNative)
  BY <1>1, EmptySeq
<1>3. /\ DOMAIN toNative' = 1..(Len(toNative) - 1)
      /\ \A i \in DOMAIN toNative' : i + 1 \in DOMAIN toNative /\ toNative'[i] = toNative[i + 1]
  BY <1>1, <1>2, HeadTailProperties
<1>4. r = toNative[1] /\ 1 \in DOMAIN toNative /\ promise[r] # "unborn"
  BY <1>1, <1>2 DEF Queued
<1>5. \A i \in DOMAIN toNative' : toNative'[i] # r
  <2> SUFFICES ASSUME NEW i \in DOMAIN toNative', toNative'[i] = r PROVE FALSE
    OBVIOUS
  <2>1. i + 1 = 1 /\ i \in 1..(Len(toNative) - 1)
    BY <1>3, <1>4 DEF Queued
  <2> QED BY <1>2, <2>1
<1>6. Queued'
  <2>1. ASSUME NEW i \in DOMAIN toNative', NEW k \in DOMAIN toNative', toNative'[i] = toNative'[k]
        PROVE  i = k
    <3>1. i + 1 = k + 1
      BY <1>3, <2>1 DEF Queued
    <3> QED BY <1>2, <1>3, <3>1
  <2> QED BY <1>1, <1>3, <2>1 DEF Queued
<1> QED BY <1>1, <1>3, <1>4, <1>5, <1>6 DEF ArrivedStay, Arrived

\* A new request has its message queued behind the others.
LEMMA ArrivedLater ==
  ASSUME TypeInv, Queued, NEW r \in Requests, Ask(r)
  PROVE  ArrivedStay /\ Queued'
<1>1. /\ toNative \in Seq(Requests) /\ promise \in [Requests -> Status]
      /\ promise[r] = "unborn" /\ promise' = [promise EXCEPT ![r] = "pending"]
      /\ toNative' = Append(toNative, r)
  BY DEF TypeInv, Typed, ChannelOK, Ask, Post, Status
<1>2. /\ DOMAIN toNative' = 1..(Len(toNative) + 1) /\ DOMAIN toNative = 1..Len(toNative)
      /\ Len(toNative) \in Nat
      /\ \A i \in 1..Len(toNative) : toNative'[i] = toNative[i] /\ toNative[i] \in Requests
      /\ toNative'[Len(toNative) + 1] = r
  BY <1>1, AppendProperties
<1>3. \A i \in 1..Len(toNative) : toNative[i] # r
  BY <1>1, <1>2 DEF Queued
<1>4. \A i \in DOMAIN toNative' : i \in 1..Len(toNative) \/ i = Len(toNative) + 1
  BY <1>2
<1>5. Queued'
  BY <1>1, <1>2, <1>3, <1>4 DEF Queued
<1>6. ASSUME NEW q, Arrived(q) PROVE Arrived(q)'
  <2>1. q # r /\ promise[q] # "unborn"
    BY <1>1, <1>6 DEF Arrived
  <2>2. promise'[q] = promise[q]
    BY <1>1, <2>1
  <2> QED BY <1>2, <1>4, <1>6, <2>1, <2>2 DEF Arrived
<1> QED BY <1>5, <1>6 DEF ArrivedStay

\* What was done stays exact.
LEMMA ExactStays ==
  ASSUME Exact, UNCHANGED <<method, acts>>
  PROVE  Exact'
<1>1. \A r : Whole(r)' = Whole(r)
  BY DEF Whole, Size
<1> QED BY <1>1 DEF Exact

\* And nothing that has not arrived comes in.
LEMMA BeforeStays ==
  ASSUME Before, ArrivedStay, UNCHANGED acts, DOMAIN runs' = DOMAIN runs,
         \A k \in DOMAIN runs : runs'[k].by = runs[k].by
  PROVE  Before'
BY DEF Before, ArrivedStay

\* A request that was not carried out is carried out.
LEMMA ExactGrows ==
  ASSUME Exact, Before, ArrivedStay, UNCHANGED <<method, runs>>, acts \in Seq(ActType),
         NEW c, Arrived(c), ~Carried(c), NEW meant,
         method[c] \in {"sign", "actions"} => meant = Whole(c),
         acts' = Append(acts, Act(c, meant, Whole(c)))
  PROVE  Exact' /\ Before'
<1>1. \A r : Whole(r)' = Whole(r)
  BY DEF Whole, Size
<1>2. PICK act : act = Act(c, meant, Whole(c))
  OBVIOUS
<1>3. act.by = c /\ act.meant = meant /\ act.done = Whole(c)
  BY <1>2 DEF Act
<1>4. /\ Len(acts) \in Nat /\ DOMAIN acts = 1..Len(acts) /\ DOMAIN acts' = 1..(Len(acts) + 1)
      /\ \A i \in 1..Len(acts) : acts'[i] = acts[i]
      /\ acts'[Len(acts) + 1] = act
  <2>1. Indexed(acts)
    BY DEF Indexed
  <2> QED BY <1>2, <2>1, AppendIndexed
<1>5. \A i \in DOMAIN acts' : (i \in DOMAIN acts /\ acts'[i] = acts[i]) \/ (i = Len(acts) + 1 /\ acts'[i] = act)
  BY <1>4
<1>6. \A i \in DOMAIN acts : acts[i].by # c
  BY DEF Carried
<1>7. Exact'
  <2>1. ASSUME NEW i \in DOMAIN acts'
        PROVE  /\ acts'[i].done = Whole(acts'[i].by)
               /\ method'[acts'[i].by] \in {"sign", "actions"} => acts'[i].meant = acts'[i].done
    BY <1>1, <1>3, <1>5 DEF Exact
  <2>2. ASSUME NEW i \in DOMAIN acts', NEW k \in DOMAIN acts', acts'[i].by = acts'[k].by PROVE i = k
    BY <1>3, <1>5, <1>6, <2>2 DEF Exact
  <2> QED BY <1>1, <2>1, <2>2 DEF Exact
<1>8. Before'
  BY <1>3, <1>5 DEF Before, ArrivedStay
<1> QED BY <1>7, <1>8

\* Reads, and what the page does, do not touch the work on a request of consent.
LEMMA PhaseStays ==
  ASSUME UNCHANGED <<method, decoding, list, sheet, windows, transfers, execs, runs, acts>>,
         UNCHANGED <<models.toSign, models.actions, models.transfer, models.message>>,
         Work' = Work
  PROVE  (Quiet => Quiet') /\ \A c : Phase(c) => Phase(c)'
<1>1. \A c : Size(c)' = Size(c) /\ Whole(c)' = Whole(c) /\ Carried(c)' = Carried(c)
  BY DEF Size, Whole, Carried
<1>2. Closed' = Closed /\ Passwords' = Passwords /\ (Quiet => Quiet')
  BY DEF Closed, Passwords, Quiet, View
<1>3. \A c : AloneDecoded(c) => AloneDecoded(c)'
  BY <1>1, <1>2 DEF AloneDecoded
<1>4. \A c : AloneSigned(c) => AloneSigned(c)'
  BY <1>1, <1>2 DEF AloneSigned
<1>5. \A c : AloneListed(c) => AloneListed(c)'
  BY <1>1, <1>2 DEF AloneListed
<1>6. \A c, k : RunOf(c, k) => RunOf(c, k)'
  BY <1>1, <1>2 DEF RunOf
<1>7. /\ \A c, k : RunEncoded(c, k) => RunEncoded(c, k)'
      /\ \A c, j : RunAt(c, j) => RunAt(c, j)'
  BY <1>1 DEF RunEncoded, RunAt
<1>8. \A c : AloneExecuted(c) => AloneExecuted(c)'
  BY <1>6, <1>7 DEF AloneExecuted
<1>9. \A c : AlonePrompted(c) => AlonePrompted(c)'
  BY <1>1 DEF AlonePrompted, View
<1>10. \A c : AloneTransferred(c) => AloneTransferred(c)'
  BY <1>1, <1>2 DEF AloneTransferred, TransferOf, TransferAt
<1>11. \A c : AloneTexted(c) => AloneTexted(c)'
  BY <1>1 DEF AloneTexted, View
<1> QED BY <1>2, <1>3, <1>4, <1>5, <1>8, <1>9, <1>10, <1>11 DEF Phase

\* The ways a step ends: nothing is open, or one request is at some phase.
LEMMA AloneNow ==
  ASSUME Exact', Before'
  PROVE  /\ Quiet' => AloneOK'
         /\ \A c \in Requests :
              /\ Arrived(c)' /\ Mine' \in Requests /\ UNCHANGED method
              /\ method[Mine'] \in ConsentMethods => Mine' = c
              /\ Phase(c)'
              => AloneOK'
BY DEF AloneOK, Alone, NeedsConsent

\* A step that leaves the work alone leaves the one request where it is.
LEMMA AloneStays ==
  ASSUME AloneOK, ArrivedStay,
         UNCHANGED <<method, decoding, list, sheet, windows, transfers, execs, runs, acts>>,
         UNCHANGED <<models.toSign, models.actions, models.transfer, models.message>>,
         Work' = Work,
         Mine' = Mine \/ (Mine' \in Requests /\ method[Mine'] \notin ConsentMethods)
  PROVE  AloneOK'
<1>1. Exact' /\ Before'
  BY ExactStays, BeforeStays DEF AloneOK
<1>2. CASE Quiet
  BY <1>1, <1>2, PhaseStays, AloneNow
<1>3. ASSUME NEW c \in Requests, Alone(c) PROVE AloneOK'
  <2>1. Arrived(c)' /\ Phase(c)' /\ Mine' \in Requests
    BY <1>3, PhaseStays DEF Alone, ArrivedStay
  <2>2. method[Mine'] \in ConsentMethods => Mine' = c
    BY <1>3 DEF Alone, NeedsConsent
  <2> QED BY <1>1, <2>1, <2>2, AloneNow
<1> QED BY <1>2, <1>3 DEF AloneOK

\* The actions of a request are never none.
LEMMA WholeSome ==
  ASSUME NEW c \in Requests
  PROVE  Whole(c) # <<>>
<1>1. Len(Whole(c)) # 0
  BY WholeHas
<1> QED BY <1>1

\* When nothing is left open, all is quiet.
LEMMA OpenOrQuiet ==
  ASSUME AloneOK, ~Open
  PROVE  Quiet
<1>1. sheet.pages = <<>> /\ windows = <<>> /\ Work = {}
  BY DEF Open, Working, Work
<1>2. ASSUME NEW c \in Requests, Phase(c) PROVE ~sheet.up
  BY <1>1, <1>2, WholeSome
     DEF Phase, AloneDecoded, AloneSigned, AloneListed, AloneExecuted, RunOf, AlonePrompted,
         AloneTransferred, TransferOf, AloneTexted, Closed
<1> QED BY <1>1, <1>2 DEF AloneOK, Alone, Quiet, Closed

\* What a message of consent finds, when it crosses none.
Coming(r) ==
  /\ TypeInv /\ Exact' /\ Before' /\ Quiet /\ Arrived(r)' /\ r \in Requests
  /\ UNCHANGED <<method, acts, runs>> /\ ~Carried(r) /\ \A k \in DOMAIN runs : runs[k].by # r

\* Actions to sign: all are sent to be decoded, none has been.
LEMMA SignAlone ==
  ASSUME NEW r, Coming(r), Sign(r)
  PROVE  AloneOK'
<1>1. /\ r \in Requests /\ models \in ModelType /\ decoding \in DecodingType
      /\ models' = [models EXCEPT !.latest = r, !.toSign = r]
      /\ decoding' = [decoding EXCEPT !.count = 0, !.got[r] = {}]
      /\ jobs' = jobs \cup {[Job("decode", r, 0) EXCEPT !.n = n] : n \in 1..Size(r)}
      /\ UNCHANGED <<sheet, windows>> /\ method[r] = "sign"
  BY DEF Coming, Sign, TypeInv, Typed
<1>2. Mine' = r /\ models'.toSign = r
  BY <1>1, ModelsTyped DEF Mine
<1>3. decoding'.count = 0 /\ decoding'.got[r] = {}
  BY <1>1 DEF DecodingType
<1>4. Work' \subseteq {[Job("decode", r, 0) EXCEPT !.n = n] : n \in 1..Size(r)}
  BY <1>1 DEF Work, Coming, Quiet
<1>5. Size(r)' = Size(r) /\ Carried(r)' = Carried(r)
  BY DEF Coming, Size, Carried
<1>6. AloneDecoded(r)'
  <2>1. Cardinality({}) = 0
    BY FS_EmptySet
  <2> QED BY <1>1, <1>2, <1>3, <1>4, <1>5, <2>1 DEF AloneDecoded, Coming, Quiet, Closed
<1> QED BY <1>1, <1>2, <1>6, AloneNow DEF Phase, Coming

\* A list to execute is shown, all of it.
LEMMA PushActionsAlone ==
  ASSUME NEW r, Coming(r), PushActions(r)
  PROVE  AloneOK'
<1>1. /\ r \in Requests /\ models \in ModelType
      /\ models' = [models EXCEPT !.latest = r, !.actions = r]
      /\ list' = Whole(r) /\ sheet' = Shown(Whole(r))
      /\ UNCHANGED <<windows, jobs>> /\ method[r] = "actions"
  BY DEF Coming, PushActions, TypeInv, Typed
<1>2. Mine' = r /\ models'.actions = r
  BY <1>1, ModelsTyped DEF Mine
<1>3. sheet'.pages = Whole(r)
  BY <1>1 DEF Shown, Coming, Quiet, Closed
<1>4. Whole(r)' = Whole(r) /\ Carried(r)' = Carried(r)
  BY DEF Coming, Whole, Size, Carried
<1>5. AloneListed(r)'
  BY <1>1, <1>2, <1>3, <1>4 DEF AloneListed, Passwords, Coming, Quiet, Closed, Work
<1> QED BY <1>1, <1>2, <1>5, AloneNow DEF Phase, Coming

\* A transfer has its prompt.
LEMMA PushTransferAlone ==
  ASSUME NEW r, Coming(r), PushTransfer(r)
  PROVE  AloneOK'
<1>1. /\ r \in Requests /\ models \in ModelType
      /\ models' = [models EXCEPT !.latest = r, !.transfer = r]
      /\ windows' = Append(windows, View("prompt", r))
      /\ UNCHANGED <<sheet, jobs>> /\ method[r] = "transfer"
  BY DEF Coming, PushTransfer, TypeInv, Typed
<1>2. Mine' = r /\ models'.transfer = r
  BY <1>1, ModelsTyped DEF Mine
<1>3. windows' = <<View("prompt", r)>>
  BY <1>1, OneCall DEF Coming, Quiet, Closed
<1>4. Carried(r)' = Carried(r)
  BY DEF Coming, Carried
<1>5. AlonePrompted(r)'
  BY <1>1, <1>2, <1>3, <1>4 DEF AlonePrompted, View, Coming, Quiet, Closed, Work
<1> QED BY <1>1, <1>2, <1>5, AloneNow DEF Phase, Coming

\* A message to sign has its view, or is refused.
LEMMA SignMessageAlone ==
  ASSUME NEW r, Coming(r), SignMessage(r)
  PROVE  AloneOK'
<1>1. /\ r \in Requests /\ models \in ModelType
      /\ models' = [models EXCEPT !.latest = r, !.message = r]
      /\ windows' = windows \/ windows' = Upon(windows, View("message", r))
      /\ UNCHANGED <<sheet, jobs>> /\ method[r] = "message"
  BY DEF Coming, SignMessage, AuthorizeMessage, TypeInv, Typed
<1>2. Mine' = r /\ models'.message = r
  BY <1>1, ModelsTyped DEF Mine
<1>3. CASE windows' = windows
  BY <1>1, <1>3, AloneNow DEF Coming, Quiet, Closed, Work
<1>4. CASE windows' = Upon(windows, View("message", r))
  <2>1. windows' = <<View("message", r)>>
    <3>1. windows = <<>> /\ DOMAIN windows = {}
      BY DEF Coming, Quiet, Closed
    <3>2. Upon(windows, View("message", r)) = Append(<<>>, View("message", r))
      BY <3>1 DEF Upon
    <3> QED BY <1>4, <3>2, OneCall
  <2>2. Carried(r)' = Carried(r)
    BY DEF Coming, Carried
  <2>3. AloneTexted(r)'
    BY <1>1, <1>2, <2>1, <2>2 DEF AloneTexted, View, Coming, Quiet, Closed, Work
  <2> QED BY <1>1, <1>2, <2>3, AloneNow DEF Phase, Coming
<1> QED BY <1>1, <1>3, <1>4

\* A message is a read, crosses what is open, or is alone.
LEMMA MessageAlone ==
  ASSUME LoneInv, NEW r \in Requests, Message(r), ~crossed'
  PROVE  AloneOK'
<1>1. ArrivedStay /\ ~Arrived(r) /\ Arrived(r)' /\ UNCHANGED method
  BY ArrivedNow DEF LoneInv, Message, Receive
<1>2. ~crossed /\ AloneOK /\ TypeInv
  <2>1. CASE Read(r) \/ ReadNet(r)
    <3>1. UNCHANGED crossed
      BY <2>1 DEF Read, ReadNet
    <3> QED BY <3>1 DEF LoneInv
  <2>2. CASE Sign(r) \/ PushActions(r) \/ PushTransfer(r) \/ SignMessage(r)
    <3>1. crossed' = (crossed \/ Open)
      BY <2>2 DEF Sign, PushActions, PushTransfer, SignMessage
    <3> QED BY <3>1 DEF LoneInv
  <2> QED BY <2>1, <2>2 DEF Message
<1>3. CASE Read(r) \/ ReadNet(r)
  <2>1. /\ UNCHANGED <<decoding, list, sheet, windows, transfers, execs, runs, acts>>
        /\ models' = [models EXCEPT !.latest = r] /\ method[r] \notin ConsentMethods
    BY <1>3 DEF Read, ReadNet, Latest, ConsentMethods
  <2>2. Work' = Work
    <3>1. Job("net", r, 0).kind = "net"
      BY DEF Job
    <3> QED BY <1>3, <3>1 DEF Read, ReadNet, Work, ReadKinds
  <2>3. Mine' = r /\ UNCHANGED <<models.toSign, models.actions, models.transfer, models.message>>
    BY <1>2, <2>1 DEF TypeInv, Typed, ModelType, Mine
  <2> QED BY <1>1, <1>2, <2>1, <2>2, <2>3, AloneStays
<1>4. CASE Sign(r) \/ PushActions(r) \/ PushTransfer(r) \/ SignMessage(r)
  <2>1. ~Open /\ UNCHANGED <<acts, runs>>
    BY <1>4 DEF Sign, PushActions, PushTransfer, SignMessage
  <2>2. Exact' /\ Before'
    BY <1>1, <1>2, <2>1, ExactStays, BeforeStays DEF AloneOK
  <2>3. ~Carried(r) /\ \A k \in DOMAIN runs : runs[k].by # r
    BY <1>1, <1>2 DEF AloneOK, Before, Carried
  <2>4. Coming(r)
    BY <1>1, <1>2, <2>1, <2>2, <2>3, OpenOrQuiet DEF Coming
  <2> QED BY <1>4, <2>4, SignAlone, PushActionsAlone, PushTransferAlone, SignMessageAlone
<1> QED BY <1>3, <1>4 DEF Message

(* Answers of servers                                                       *)

\* An answer or a touch while a request is alone.
Under(c) ==
  /\ c \in Requests /\ TypeInv /\ AloneOK /\ Alone(c)
  /\ ArrivedStay /\ UNCHANGED <<method, models>>

\* What stays the same under it.
LEMMA UnderStays ==
  ASSUME NEW c, Under(c)
  PROVE  /\ Size(c)' = Size(c) /\ Whole(c)' = Whole(c) /\ Size(c) \in Nat \ {0}
         /\ (UNCHANGED acts => Carried(c)' = Carried(c))
         /\ Mine' = Mine /\ Arrived(c)'
BY WholeHas DEF Under, Size, Whole, Carried, Mine, Alone, ArrivedStay

\* It is enough to name the phase,
LEMMA ToPhase ==
  ASSUME NEW c, Under(c), Exact', Before'
  PROVE  (Phase(c)' => AloneOK') /\ (Quiet' => AloneOK')
<1>1. /\ c \in Requests /\ Arrived(c)' /\ Mine' \in Requests /\ UNCHANGED method
      /\ method[Mine'] \in ConsentMethods => Mine' = c
  BY UnderStays DEF Under, Alone, NeedsConsent
<1> QED BY <1>1, AloneNow

\* when nothing is carried out and no run starts.
LEMMA NoAct ==
  ASSUME NEW c, Under(c), UNCHANGED acts, DOMAIN runs' = DOMAIN runs,
         \A k \in DOMAIN runs : runs'[k].by = runs[k].by
  PROVE  Exact' /\ Before'
BY ExactStays, BeforeStays DEF Under, AloneOK

\* Work belongs to the one request, and its kind tells the phase.
LEMMA AtWork ==
  ASSUME NEW c, Under(c), NEW j \in Work
  PROVE  \/ /\ j.kind = "decode" /\ AloneDecoded(c) /\ j.by = c
            /\ j.n \in (1..Size(c)) \ decoding.got[c]
         \/ /\ j.kind = "encode" /\ RunOf(c, j.run) /\ RunEncoded(c, j.run) /\ j.by = c
            /\ j.n \in (1..Size(c)) \ runs[j.run].got
         \/ RunOf(c, j.run) /\ RunAt(c, j)
         \/ TransferOf(c) /\ TransferAt(c, j)
<1>1. CASE AloneDecoded(c)
  <2>1. PICK n \in (1..Size(c)) \ decoding.got[c] : j = [Job("decode", c, 0) EXCEPT !.n = n]
    BY <1>1 DEF AloneDecoded
  <2> QED BY <1>1, <2>1, JobFields
<1>2. CASE AloneExecuted(c)
  <2>1. PICK k \in DOMAIN runs :
          RunOf(c, k) /\ (RunEncoded(c, k) \/ \E i \in Work : i.run = k /\ RunAt(c, i))
    BY <1>2 DEF AloneExecuted
  <2>2. CASE RunEncoded(c, k)
    <3>1. PICK n \in (1..Size(c)) \ runs[k].got : j = [Job("encode", c, k) EXCEPT !.n = n]
      BY <2>2 DEF RunEncoded
    <3>2. j.kind = "encode" /\ j.by = c /\ j.run = k /\ j.n = n
      BY <3>1, JobFields
    <3> QED BY <2>1, <2>2, <3>2
  <2>3. ASSUME NEW i \in Work, i.run = k, RunAt(c, i) PROVE j.run = k /\ RunAt(c, j)
    BY <2>3 DEF RunAt
  <2> QED BY <2>1, <2>2, <2>3
<1>3. CASE AloneTransferred(c)
  BY <1>3 DEF AloneTransferred, TransferAt
<1>4. CASE AloneSigned(c) \/ AloneListed(c) \/ AlonePrompted(c) \/ AloneTexted(c)
  BY <1>4 DEF AloneSigned, AloneListed, AlonePrompted, AloneTexted
<1> QED BY <1>1, <1>2, <1>3, <1>4 DEF Under, Alone, Phase

\* The last action decoded brings the sheet, with all actions; another leaves the
\* rest to come.
LEMMA DecodeAlone ==
  ASSUME NEW c, Under(c), NEW j \in jobs, DecodeAnswer(j), AloneDecoded(c), j.by = c,
         j.n \in (1..Size(c)) \ decoding.got[c]
  PROVE  AloneOK'
<1> DEFINE old == decoding.got[c]
           size == Size(c)
           one == j.n
           got == old \cup {one}
<1>1. /\ size \in Nat \ {0} /\ one \in (1..size) \ old /\ old \in SUBSET (1..size)
      /\ method[c] = "sign" /\ models.toSign = c /\ Closed /\ ~Carried(c)
      /\ decoding.count = Cardinality(old) /\ decoding \in DecodingType /\ c \in Requests
      /\ Work \subseteq {[Job("decode", c, 0) EXCEPT !.n = n] : n \in (1..size) \ old}
  BY UnderStays DEF Under, TypeInv, Typed, Numbered, AloneDecoded
<1>2. /\ decoding' = [count |-> decoding.count + 1, got |-> [decoding.got EXCEPT ![c] = got]]
      /\ jobs' = jobs \ {j} /\ j \in Work
      /\ sheet' = IF decoding.count + 1 = size THEN Shown(Sorted(Whole(c), got)) ELSE sheet
      /\ UNCHANGED <<models, windows, runs, acts>>
  BY DEF DecodeAnswer, Work, ReadKinds
<1>3. decoding'.count = decoding.count + 1 /\ decoding'.got[c] = got
  BY <1>1, <1>2 DEF DecodingType
<1>4. /\ got \in SUBSET (1..size) /\ Cardinality(got) = decoding.count + 1
      /\ Cardinality(got) = size => got = 1..size
  <2> HIDE DEF old, size, one
  <2> QED BY <1>1, OneMore, Zenon
<1>5. Work' \subseteq {[Job("decode", c, 0) EXCEPT !.n = n] : n \in (1..size) \ got}
  <2>1. Work' = Work \ {j}
    BY <1>2 DEF Work
  <2>2. Work \ {j} \subseteq {[Job("decode", c, 0) EXCEPT !.n = n] : n \in (1..size) \ got}
    <3> HIDE DEF old, size
    <3> QED BY <1>1, <1>2, OnlyOne
  <2> QED BY <2>1, <2>2
<1>6. Size(c)' = size /\ Whole(c)' = Whole(c) /\ Carried(c)' = Carried(c)
  BY <1>2, UnderStays
<1> HIDE DEF got, size
<1>7. CASE decoding.count + 1 = size
  <2>1. Work' = {}
    BY <1>4, <1>5, <1>7
  <2>2. Sorted(Whole(c), got) = Whole(c)
    <3>1. PICK s : s = Whole(c)
      OBVIOUS
    <3>2. s \in Seq(Action) /\ got \in SUBSET (1..Len(s)) /\ got = 1..Len(s)
      BY <1>1, <1>4, <1>7, <3>1, WholeHas DEF size
    <3>3. Sorted(s, got) = s
      BY <3>2, SortedIs
    <3> QED BY <3>1, <3>3
  <2>3. sheet'.pages = Whole(c)
    BY <1>1, <1>2, <1>7, <2>2 DEF Shown, Closed
  <2>4. AloneSigned(c)'
    BY <1>1, <1>2, <1>6, <2>1, <2>3 DEF AloneSigned, Passwords, Closed, Under
  <2> QED BY <1>2, <2>4, ToPhase, NoAct DEF Phase
<1>8. CASE decoding.count + 1 # size
  <2>1. AloneDecoded(c)'
    BY <1>1, <1>2, <1>3, <1>4, <1>5, <1>6, <1>8 DEF AloneDecoded, Closed, Under
  <2> QED BY <1>2, <2>1, ToPhase, NoAct DEF Phase
<1> QED BY <1>7, <1>8

\* The only job ends, or turns into another.
LEMMA OneLeft ==
  ASSUME NEW j, Work = {j}
  PROVE  /\ jobs' = jobs \ {j} => Work' = {}
         /\ \A i : jobs' = (jobs \ {j}) \cup {i} /\ i.kind \notin ReadKinds => Work' = {i}
BY DEF Work

\* A run that goes on is that of the list.
LEMMA ToRun ==
  ASSUME NEW c, Under(c), NEW k, RunOf(c, k), Exact', Before', UNCHANGED <<sheet, windows>>,
         DOMAIN runs' = DOMAIN runs, runs'[k].by = runs[k].by, runs'[k].meant = runs[k].meant,
         Work' = {} \/ RunEncoded(c, k)' \/ \E j \in Work' : j.run = k /\ RunAt(c, j)'
  PROVE  AloneOK'
<1>1. RunOf(c, k)'
  BY UnderStays DEF RunOf, Under, Passwords, View
<1>2. AloneExecuted(c)'
  BY <1>1 DEF AloneExecuted, RunOf
<1> QED BY <1>2, ToPhase DEF Phase

\* With the chain's information, each action of the list is sent to be encoded.
LEMMA InfoAlone ==
  ASSUME NEW c, Under(c), NEW j \in jobs, InfoAnswer(j), RunOf(c, j.run), RunAt(c, j)
  PROVE  AloneOK'
<1> DEFINE k == j.run
           whole == Whole(c)
           run == [runs[k] EXCEPT !.acts = whole]
<1>1. /\ Work = {j} /\ j.by = c /\ execs.array = whole /\ ~Carried(c) /\ j.kind = "info"
      /\ k \in DOMAIN runs /\ runs[k].got = {} /\ runs \in Seq(RunType) /\ runs[k] \in RunType
      /\ execs \in ExecsType
  <2>1. j.kind = "info" /\ runs \in Seq(RunType) /\ execs \in ExecsType /\ Numbered
    BY DEF InfoAnswer, Under, TypeInv, Typed
  <2>2. /\ Work = {j} /\ j.by = c /\ execs.array = whole /\ ~Carried(c) /\ k \in DOMAIN runs
    BY <2>1 DEF RunAt, RunOf
  <2>3. runs[k].got = {} /\ runs[k] \in RunType
    BY <2>1, <2>2 DEF Numbered
  <2> QED BY <2>1, <2>2, <2>3
<1>2. whole \in Seq(Action) /\ DOMAIN whole = 1..Size(c)
  BY WholeHas DEF Under
<1>3. /\ runs' = [runs EXCEPT ![k] = run]
      /\ execs' = [execs EXCEPT !.count = 0, !.final = <<>>]
      /\ jobs' = (jobs \ {j}) \cup {[Job("encode", c, k) EXCEPT !.n = n] : n \in 1..Size(c)}
      /\ UNCHANGED <<sheet, windows, acts>>
  BY <1>1, <1>2 DEF InfoAnswer
<1> HIDE DEF whole
<1>4. run \in RunType /\ run.acts = whole /\ run.got = {} /\ run.by = runs[k].by /\ run.meant = runs[k].meant
  BY <1>1, <1>2 DEF RunType
<1> HIDE DEF run
<1>5. DOMAIN runs' = DOMAIN runs /\ runs'[k] = run /\ \A i \in DOMAIN runs : i # k => runs'[i] = runs[i]
  BY <1>1, <1>3, <1>4, RunTyped
<1>6. execs'.count = 0 /\ execs'.array = whole
  BY <1>1, <1>3 DEF ExecsType
<1>7. Work' \subseteq {[Job("encode", c, k) EXCEPT !.n = n] : n \in 1..Size(c)}
  BY <1>1, <1>3 DEF Work
<1>8. Size(c)' = Size(c) /\ Whole(c)' = whole /\ Carried(c)' = Carried(c)
  BY <1>3, UnderStays DEF whole
<1>9. RunEncoded(c, k)'
  <2>1. Cardinality({}) = 0
    BY FS_EmptySet
  <2> QED BY <1>1, <1>4, <1>5, <1>6, <1>7, <1>8, <2>1 DEF RunEncoded
<1>10. Exact' /\ Before'
  BY <1>3, <1>4, <1>5, NoAct
<1> QED BY <1>3, <1>4, <1>5, <1>9, <1>10, ToRun

\* The last action encoded makes the list whole; another leaves the rest to come.
LEMMA EncodeAlone ==
  ASSUME NEW c, Under(c), NEW j \in jobs, EncodeAnswer(j), RunOf(c, j.run), RunEncoded(c, j.run),
         j.by = c, j.n \in (1..Size(c)) \ runs[j.run].got
  PROVE  AloneOK'
<1> DEFINE k == j.run
           old == runs[k].got
           size == Size(c)
           one == j.n
           got == old \cup {one}
           whole == Whole(c)
           run == [runs[k] EXCEPT !.got = got]
           enough == execs.count + 1 = size
           final == IF enough THEN Kept(whole, got) ELSE execs.final
           i == Job("keys", c, k)
<1>1. /\ size \in Nat \ {0} /\ one \in (1..size) \ old /\ old \in SUBSET (1..size)
      /\ execs.count = Cardinality(old) /\ execs.array = whole /\ ~Carried(c)
      /\ k \in DOMAIN runs /\ runs \in Seq(RunType) /\ runs[k] \in RunType /\ runs[k].acts = whole
      /\ execs \in ExecsType /\ j \in Work /\ k \in Nat
      /\ Len(whole) = size /\ Kept(whole, 1..size) = whole /\ DOMAIN whole = 1..size
      /\ Work \subseteq {[Job("encode", c, k) EXCEPT !.n = n] : n \in (1..size) \ old}
  <2>1. /\ runs \in Seq(RunType) /\ execs \in ExecsType /\ Numbered /\ c \in Requests
        /\ j.kind = "encode"
    BY DEF EncodeAnswer, Under, TypeInv, Typed
  <2>2. /\ execs.count = Cardinality(old) /\ execs.array = whole /\ ~Carried(c)
        /\ k \in DOMAIN runs /\ runs[k].acts = whole
        /\ Work \subseteq {[Job("encode", c, k) EXCEPT !.n = n] : n \in (1..size) \ old}
    BY DEF RunOf, RunEncoded
  <2>3. runs[k] \in RunType /\ k \in Nat
    BY <2>1, <2>2
  <2>4. Len(whole) = size /\ Kept(whole, 1..size) = whole /\ size \in Nat \ {0} /\ DOMAIN whole = 1..size
    BY <2>1, WholeHas
  <2>5. old \subseteq 1..size
    BY <2>1, <2>2, <2>4 DEF Numbered
  <2>6. j \in Work
    BY <2>1 DEF Work, ReadKinds
  <2> QED BY <2>1, <2>2, <2>3, <2>4, <2>5, <2>6
<1>2. /\ runs' = [runs EXCEPT ![k] = run]
      /\ execs' = [execs EXCEPT !.count = execs.count + 1, !.final = final]
      /\ jobs' = (jobs \ {j}) \cup IF enough THEN {i} ELSE {}
      /\ UNCHANGED <<sheet, windows, acts>>
  BY <1>1 DEF EncodeAnswer
<1>3. run.acts = whole /\ run.got = got /\ run.by = runs[k].by /\ run.meant = runs[k].meant /\ run \in RunType
  <2>1. got \subseteq Nat
    BY <1>1
  <2> HIDE DEF got
  <2> QED BY <1>1, <2>1 DEF RunType
<1>4. i.kind = "keys" /\ i.by = c /\ i.run = k
  BY DEF Job
<1> HIDE DEF run, i, final
<1>5. DOMAIN runs' = DOMAIN runs /\ runs'[k] = run /\ \A q \in DOMAIN runs : q # k => runs'[q] = runs[q]
  BY <1>1, <1>2, <1>3, RunTyped
<1>6. execs'.count = execs.count + 1 /\ execs'.array = whole /\ execs'.final = final
  BY <1>1, <1>2 DEF ExecsType
<1>7. /\ got \in SUBSET (1..size) /\ Cardinality(got) = execs.count + 1
      /\ Cardinality(got) = size => got = 1..size
  <2>1. size \in Nat /\ old \in SUBSET (1..size) /\ one \in (1..size) \ old
    BY <1>1
  <2> HIDE DEF old, size, one
  <2>2. /\ old \cup {one} \in SUBSET (1..size)
        /\ Cardinality(old \cup {one}) = Cardinality(old) + 1 /\ Cardinality(old) \in Nat
        /\ Cardinality(old \cup {one}) = size => old \cup {one} = 1..size
    BY <2>1, OneMore, Zenon
  <2> QED BY <1>1, <2>2
<1>8. Work \ {j} \subseteq {[Job("encode", c, k) EXCEPT !.n = n] : n \in (1..size) \ got}
  <2> HIDE DEF old, size, k
  <2> QED BY <1>1, OnlyOne
<1>9. Size(c)' = size /\ Whole(c)' = whole /\ Carried(c)' = Carried(c)
  BY <1>2, UnderStays
<1>10. Exact' /\ Before'
  BY <1>2, <1>3, <1>5, NoAct
<1> HIDE DEF got, size, whole
<1>11. CASE enough
  <2>1. Work \ {j} = {} /\ Work' = {i}
    BY <1>2, <1>4, <1>7, <1>8, <1>11 DEF Work, ReadKinds
  <2>2. execs'.final = whole
    BY <1>1, <1>6, <1>7, <1>11 DEF final
  <2>3. RunAt(c, i)'
    BY <1>1, <1>4, <1>9, <2>1, <2>2 DEF RunAt
  <2> QED BY <1>2, <1>3, <1>4, <1>5, <1>10, <2>1, <2>3, ToRun
<1>12. CASE ~enough
  <2>1. Work' = Work \ {j}
    BY <1>2, <1>12 DEF Work
  <2>2. RunEncoded(c, k)'
    BY <1>1, <1>3, <1>5, <1>6, <1>7, <1>8, <1>9, <2>1 DEF RunEncoded
  <2> QED BY <1>2, <1>3, <1>5, <1>10, <2>2, ToRun
<1> QED BY <1>11, <1>12

\* With its list whole, a run is pushed, or its password opens no key.
LEMMA KeysAlone ==
  ASSUME NEW c, Under(c), NEW j \in jobs, KeysAnswer(j), RunOf(c, j.run), RunAt(c, j)
  PROVE  AloneOK'
<1>1. Work = {j} /\ j.by = c /\ execs.final = Whole(c) /\ ~Carried(c)
  BY DEF KeysAnswer, RunAt
<1>2. PICK i : Made(i, "push", c, j.run, execs.final)
  BY DEF Made
<1>3. i.kind = "push" /\ i.run = j.run /\ i.by = c /\ i.done = Whole(c)
  BY <1>1, <1>2, MadeIsJob
<1>4. /\ jobs' = jobs \ {j} \/ jobs' = (jobs \ {j}) \cup {i}
      /\ UNCHANGED <<sheet, windows, acts, runs>>
  BY <1>1, <1>2 DEF KeysAnswer, Made
<1>5. Work' = {} \/ Work' = {i}
  BY <1>1, <1>3, <1>4, OneLeft DEF ReadKinds
<1>6. Exact' /\ Before'
  BY <1>4, NoAct
<1>7. Work' = {i} => RunAt(c, i)'
  BY <1>1, <1>3, <1>4, UnderStays DEF RunAt
<1> QED BY <1>3, <1>4, <1>5, <1>6, <1>7, ToRun

\* What is carried out is the one request, as a whole, as it was shown.
LEMMA CarriedAlone ==
  ASSUME NEW c, Under(c), UNCHANGED runs, ~Carried(c), NEW meant,
         method[c] \in {"sign", "actions"} => meant = Whole(c),
         acts' = acts \/ acts' = Append(acts, Act(c, meant, Whole(c)))
  PROVE  Exact' /\ Before'
<1>1. acts \in Seq(ActType) /\ Exact /\ Before /\ ArrivedStay /\ UNCHANGED method /\ Arrived(c)
  BY DEF Under, TypeInv, Typed, AloneOK, Alone
<1>2. CASE acts' = acts
  BY <1>2, NoAct
<1>3. CASE acts' = Append(acts, Act(c, meant, Whole(c)))
  BY <1>1, <1>3, ExactGrows
<1> QED BY <1>2, <1>3

\* A list that is pushed is executed, or not.
LEMMA ExecuteAtNodeAlone ==
  ASSUME NEW c, Under(c), NEW j \in jobs, ExecuteAtNode(j), RunOf(c, j.run), RunAt(c, j)
  PROVE  AloneOK'
<1>1. /\ Work = {j} /\ j.by = c /\ j.done = Whole(c) /\ ~Carried(c) /\ runs[j.run].meant = Whole(c)
      /\ j \in JobType
  BY DEF ExecuteAtNode, RunAt, RunOf, Under, TypeInv, Typed
<1>2. PICK ok \in BOOLEAN :
        /\ jobs' = (jobs \ {j}) \cup {[j EXCEPT !.kind = "pushed", !.ok = ok]}
        /\ acts' = IF ok THEN Append(acts, Act(j.by, runs[j.run].meant, j.done)) ELSE acts
  BY DEF ExecuteAtNode
<1>3. PICK i : i = [j EXCEPT !.kind = "pushed", !.ok = ok]
  OBVIOUS
<1>4. i.kind = "pushed" /\ i.by = c /\ i.run = j.run
  BY <1>1, <1>3 DEF JobType
<1>5. Work' = {i}
  BY <1>1, <1>2, <1>3, <1>4, OneLeft DEF ReadKinds
<1>6. UNCHANGED <<sheet, windows, runs>>
  BY DEF ExecuteAtNode
<1>7. acts' = acts \/ acts' = Append(acts, Act(c, Whole(c), Whole(c)))
  BY <1>1, <1>2
<1>8. Exact' /\ Before'
  BY <1>1, <1>6, <1>7, CarriedAlone
<1>9. RunAt(c, i)'
  BY <1>4, <1>5 DEF RunAt
<1> QED BY <1>4, <1>5, <1>6, <1>8, <1>9, ToRun

\* The end of a list takes the sheet away.
LEMMA ExecutedAlone ==
  ASSUME NEW c, Under(c), NEW j \in jobs, Executed(j), RunOf(c, j.run), RunAt(c, j)
  PROVE  AloneOK'
<1>1. Work' = {}
  BY OneLeft DEF Executed, RunAt
<1>2. sheet' = NoSheet /\ UNCHANGED <<windows, runs, acts>>
  BY DEF Executed
<1>3. Exact' /\ Before'
  BY <1>2, NoAct
<1>4. RunOf(c, j.run)'
  BY <1>2, UnderStays DEF RunOf, Under, Passwords, View, NoSheet
<1>5. AloneExecuted(c)'
  BY <1>1, <1>4 DEF AloneExecuted, RunOf
<1> QED BY <1>3, <1>5, ToPhase DEF Phase

\* A transfer that goes on.
LEMMA ToTransfer ==
  ASSUME NEW c, Under(c), TransferOf(c), Exact', Before', UNCHANGED <<sheet, windows>>,
         NEW i, Work' = {i}, TransferAt(c, i)'
  PROVE  AloneOK'
<1>1. AloneTransferred(c)'
  BY DEF AloneTransferred, TransferOf, Closed, Under
<1> QED BY <1>1, ToPhase DEF Phase

\* The data of a transfer is encoded, and the service given its contract,
LEMMA AbiAlone ==
  ASSUME NEW c, Under(c), NEW j \in jobs, AbiAnswer(j), TransferOf(c), TransferAt(c, j)
  PROVE  AloneOK'
<1>1. Work = {j} /\ j.by = c /\ j.of = c /\ ~Carried(c) /\ models.transfer = c /\ j \in JobType
  BY DEF AbiAnswer, TransferAt, TransferOf, Under, TypeInv, Typed
<1>2. PICK i : i = [j EXCEPT !.kind = "args"]
  OBVIOUS
<1>3. i.kind = "args" /\ i.by = c /\ i.of = c
  BY <1>1, <1>2 DEF JobType
<1>4. /\ jobs' = (jobs \ {j}) \cup {i} /\ transfers'.code = c
      /\ UNCHANGED <<sheet, windows, runs, acts>>
  BY <1>1, <1>2 DEF AbiAnswer, Under, TypeInv, Typed
<1>5. Work' = {i}
  BY <1>1, <1>3, <1>4, OneLeft DEF ReadKinds
<1>6. Exact' /\ Before'
  BY <1>4, NoAct
<1>7. TransferAt(c, i)'
  BY <1>1, <1>3, <1>4, <1>5, UnderStays DEF TransferAt
<1> QED BY <1>4, <1>5, <1>6, <1>7, ToTransfer

\* and then its data.
LEMMA ArgsAlone ==
  ASSUME NEW c, Under(c), NEW j \in jobs, SetArgs(j), TransferOf(c), TransferAt(c, j)
  PROVE  AloneOK'
<1>1. Work = {j} /\ j.by = c /\ j.of = c /\ transfers.code = c /\ ~Carried(c) /\ j \in JobType
  BY DEF SetArgs, TransferAt, Under, TypeInv, Typed
<1>2. PICK i : i = [j EXCEPT !.kind = "send"]
  OBVIOUS
<1>3. i.kind = "send" /\ i.by = c
  BY <1>1, <1>2 DEF JobType
<1>4. /\ jobs' = (jobs \ {j}) \cup {i} /\ transfers' = [code |-> c, data |-> c]
      /\ UNCHANGED <<sheet, windows, runs, acts>>
  BY <1>1, <1>2 DEF SetArgs, Under, TypeInv, Typed
<1>5. Work' = {i}
  BY <1>1, <1>3, <1>4, OneLeft DEF ReadKinds
<1>6. Exact' /\ Before'
  BY <1>4, NoAct
<1>7. TransferAt(c, i)'
  BY <1>1, <1>3, <1>4, <1>5, UnderStays DEF TransferAt
<1> QED BY <1>4, <1>5, <1>6, <1>7, ToTransfer

\* What is sent is the transfer as a whole.
LEMMA SendAlone ==
  ASSUME NEW c, Under(c), NEW j \in jobs, Send(j), TransferOf(c), TransferAt(c, j)
  PROVE  AloneOK'
<1>1. Work = {j} /\ j.by = c /\ transfers = [code |-> c, data |-> c] /\ ~Carried(c)
  BY DEF Send, TransferAt
<1>2. PICK done : done = <<[code |-> c, data |-> c, n |-> 1]>>
  OBVIOUS
<1>3. done = Whole(c)
  <2>1. Whole(c) = [n \in 1..1 |-> ActionOf(c, n)]
    BY NobodyAssumption DEF Under, TransferOf, Whole, Size
  <2> QED BY <1>2, <2>1 DEF ActionOf
<1>4. PICK i : Made(i, "transfer", c, 0, done)
  BY DEF Made
<1>5. i.kind = "transfer" /\ i.by = c /\ i.done = done
  BY <1>4, MadeIsJob
<1>6. jobs' = (jobs \ {j}) \cup {i} /\ UNCHANGED <<sheet, windows, runs, acts>>
  BY <1>1, <1>2, <1>4 DEF Send, Made
<1>7. Work' = {i}
  BY <1>1, <1>5, <1>6, OneLeft DEF ReadKinds
<1>8. Exact' /\ Before'
  BY <1>6, NoAct
<1>9. TransferAt(c, i)'
  BY <1>1, <1>3, <1>5, <1>6, <1>7, UnderStays DEF TransferAt
<1> QED BY <1>6, <1>7, <1>8, <1>9, ToTransfer

\* A transfer that is sent is executed, or not.
LEMMA TransferAtNodeAlone ==
  ASSUME NEW c, Under(c), NEW j \in jobs, TransferAtNode(j), TransferOf(c), TransferAt(c, j)
  PROVE  AloneOK'
<1>1. Work = {j} /\ j.by = c /\ j.done = Whole(c) /\ ~Carried(c) /\ j \in JobType
  BY DEF TransferAtNode, TransferAt, Under, TypeInv, Typed
<1>2. PICK ok \in BOOLEAN :
        /\ jobs' = (jobs \ {j}) \cup {[j EXCEPT !.kind = "transferred", !.ok = ok]}
        /\ acts' = IF ok THEN Append(acts, Act(j.by, Whole(j.by), j.done)) ELSE acts
  BY DEF TransferAtNode
<1>3. PICK i : i = [j EXCEPT !.kind = "transferred", !.ok = ok]
  OBVIOUS
<1>4. i.kind = "transferred" /\ i.by = c
  BY <1>1, <1>3 DEF JobType
<1>5. Work' = {i}
  BY <1>1, <1>2, <1>3, <1>4, OneLeft DEF ReadKinds
<1>6. UNCHANGED <<sheet, windows, runs>>
  BY DEF TransferAtNode
<1>7. acts' = acts \/ acts' = Append(acts, Act(c, Whole(c), Whole(c)))
  BY <1>1, <1>2
<1>8. Exact' /\ Before'
  BY <1>1, <1>6, <1>7, CarriedAlone
<1>9. TransferAt(c, i)'
  BY <1>4, <1>5 DEF TransferAt
<1> QED BY <1>5, <1>6, <1>8, <1>9, ToTransfer

\* The end of a transfer is to be told of the latest request.
LEMMA TransferredAlone ==
  ASSUME NEW c, Under(c), NEW j \in jobs, Transferred(j), TransferOf(c), TransferAt(c, j)
  PROVE  AloneOK'
<1>1. Work = {j} /\ j.by = c /\ j \in JobType
  BY DEF TransferAt, Under, TypeInv, Typed
<1>2. PICK i : i = [j EXCEPT !.kind = "report", !.of = models.latest]
  OBVIOUS
<1>3. i.kind = "report" /\ i.by = c
  BY <1>1, <1>2 DEF JobType
<1>4. jobs' = (jobs \ {j}) \cup {i} /\ UNCHANGED <<sheet, windows, runs, acts>>
  BY <1>2 DEF Transferred
<1>5. Work' = {i}
  BY <1>1, <1>3, <1>4, OneLeft DEF ReadKinds
<1>6. Exact' /\ Before'
  BY <1>4, NoAct
<1>7. TransferAt(c, i)'
  BY <1>3, <1>5 DEF TransferAt
<1> QED BY <1>4, <1>5, <1>6, <1>7, ToTransfer

\* Work that ends without another leaves the rest, or nothing.
LEMMA LessAlone ==
  ASSUME NEW c, Under(c), NEW j \in Work, jobs' = jobs \ {j},
         UNCHANGED <<decoding, list, sheet, windows, transfers, execs, runs, acts>>
  PROVE  AloneOK'
<1>1. Exact' /\ Before'
  BY NoAct
<1>2. Work' = Work \ {j}
  BY DEF Work
<1>3. CASE AloneDecoded(c)
  <2>1. AloneDecoded(c)'
    BY <1>2, <1>3, UnderStays DEF AloneDecoded, Closed, Under
  <2> QED BY <1>1, <2>1, ToPhase DEF Phase
<1>4. CASE AloneExecuted(c)
  <2>1. PICK k \in DOMAIN runs : RunOf(c, k) /\ (RunEncoded(c, k) \/ \E i \in Work : RunAt(c, i))
    BY <1>4 DEF AloneExecuted
  <2>2. CASE RunEncoded(c, k)
    <3>1. RunEncoded(c, k)'
      BY <1>2, <2>2, UnderStays DEF RunEncoded
    <3> QED BY <1>1, <2>1, <3>1, ToRun
  <2>3. CASE \E i \in Work : RunAt(c, i)
    <3>1. Work' = {}
      BY <1>2, <2>3 DEF RunAt
    <3> QED BY <1>1, <2>1, <3>1, ToRun
  <2> QED BY <2>1, <2>2, <2>3
<1>5. CASE AloneTransferred(c)
  <2>1. Quiet'
    BY <1>2, <1>5 DEF AloneTransferred, TransferOf, TransferAt, Quiet, Closed
  <2> QED BY <1>1, <2>1, ToPhase
<1>6. CASE AloneSigned(c) \/ AloneListed(c) \/ AlonePrompted(c) \/ AloneTexted(c)
  BY <1>6 DEF AloneSigned, AloneListed, AlonePrompted, AloneTexted
<1> QED BY <1>3, <1>4, <1>5, <1>6 DEF Under, Alone, Phase

\* Answers, one by one.
LEMMA AnsweredAlone ==
  ASSUME TypeInv, AloneOK, NEW j \in jobs, Answered(j),
         UNCHANGED <<method, promise, result, callback, toNative>>
  PROVE  AloneOK'
<1>1. ArrivedStay /\ UNCHANGED models
  <2>1. UNCHANGED models
    BY DEF Answered, NetAnswer, AccountAnswer, AccountReply, DecodeAnswer, InfoAnswer, EncodeAnswer,
           KeysAnswer, ExecuteAtNode, Executed, AbiAnswer, SetArgs, Send, TransferAtNode, Transferred,
           Report, Fail
  <2> QED BY <2>1, ArrivedWait
<1>2. CASE j \notin Work
  <2>1. NetAnswer(j) \/ AccountAnswer(j) \/ AccountReply(j) \/ Fail(j)
    BY <1>2 DEF Work, ReadKinds, Answered, DecodeAnswer, InfoAnswer, EncodeAnswer, KeysAnswer,
                ExecuteAtNode, Executed, AbiAnswer, SetArgs, Send, TransferAtNode, Transferred, Report
  <2>2. /\ UNCHANGED <<decoding, list, sheet, windows, transfers, execs, runs, acts>>
        /\ jobs' = jobs \ {j} \/ \E i : i.kind \in ReadKinds /\ jobs' = (jobs \ {j}) \cup {i}
    <3>1. CASE AccountAnswer(j)
      <4>1. PICK i : i = [j EXCEPT !.kind = "reply", !.of = models.latest]
        OBVIOUS
      <4>2. j \in JobType
        BY DEF TypeInv, Typed
      <4>3. i.kind \in ReadKinds
        BY <4>1, <4>2 DEF JobType, ReadKinds
      <4> QED BY <3>1, <4>1, <4>3 DEF AccountAnswer
    <3>2. CASE NetAnswer(j) \/ AccountReply(j) \/ Fail(j)
      BY <3>2 DEF NetAnswer, AccountReply, Fail
    <3> QED BY <2>1, <3>1, <3>2
  <2>3. Work' = Work /\ Mine' = Mine
    BY <1>1, <1>2, <2>2 DEF Work, Mine
  <2> QED BY <1>1, <2>2, <2>3, AloneStays
<1>3. ASSUME j \in Work PROVE AloneOK'
  <2>0. ~NetAnswer(j) /\ ~AccountAnswer(j) /\ ~AccountReply(j)
    BY <1>3 DEF Work, ReadKinds, NetAnswer, AccountAnswer, AccountReply
  <2>1. PICK c \in Requests : Alone(c)
    BY <1>3 DEF AloneOK, Quiet
  <2>2. Under(c)
    BY <1>1, <2>1 DEF Under
  <2>3. CASE Fail(j) \/ Report(j)
    <3>1. /\ jobs' = jobs \ {j}
          /\ UNCHANGED <<decoding, list, sheet, windows, transfers, execs, runs, acts>>
      BY <2>3 DEF Fail, Report
    <3> QED BY <1>3, <2>2, <3>1, LessAlone
  <2>4. ASSUME ~ (Fail(j) \/ Report(j)) PROVE AloneOK'
    <3>1. CASE /\ j.kind = "decode" /\ AloneDecoded(c) /\ j.by = c
               /\ j.n \in (1..Size(c)) \ decoding.got[c]
      <4>1. DecodeAnswer(j)
        BY <2>0, <2>4, <3>1 DEF Answered, InfoAnswer, EncodeAnswer, KeysAnswer, ExecuteAtNode, Executed,
                                AbiAnswer, SetArgs, Send, TransferAtNode, Transferred
      <4> QED BY <2>2, <3>1, <4>1, DecodeAlone
    <3>2. CASE /\ j.kind = "encode" /\ RunOf(c, j.run) /\ RunEncoded(c, j.run) /\ j.by = c
               /\ j.n \in (1..Size(c)) \ runs[j.run].got
      <4>1. EncodeAnswer(j)
        BY <2>0, <2>4, <3>2 DEF Answered, DecodeAnswer, InfoAnswer, KeysAnswer, ExecuteAtNode, Executed,
                                AbiAnswer, SetArgs, Send, TransferAtNode, Transferred
      <4> QED BY <2>2, <3>2, <4>1, EncodeAlone
    <3>3. CASE RunOf(c, j.run) /\ RunAt(c, j)
      <4>1. InfoAnswer(j) \/ KeysAnswer(j) \/ ExecuteAtNode(j) \/ Executed(j)
        BY <2>0, <2>4, <3>3 DEF RunAt, Answered, DecodeAnswer, EncodeAnswer, AbiAnswer, SetArgs, Send,
                                TransferAtNode, Transferred
      <4> QED BY <2>2, <3>3, <4>1, InfoAlone, KeysAlone, ExecuteAtNodeAlone, ExecutedAlone
    <3>4. CASE TransferOf(c) /\ TransferAt(c, j)
      <4>1. AbiAnswer(j) \/ SetArgs(j) \/ Send(j) \/ TransferAtNode(j) \/ Transferred(j)
        BY <2>0, <2>4, <3>4 DEF TransferAt, Answered, DecodeAnswer, InfoAnswer, EncodeAnswer, KeysAnswer,
                                ExecuteAtNode, Executed
      <4> QED BY <2>2, <3>4, <4>1, AbiAlone, ArgsAlone, SendAlone, TransferAtNodeAlone, TransferredAlone
    <3> QED BY <1>3, <2>2, <3>1, <3>2, <3>3, <3>4, AtWork
  <2> QED BY <2>3, <2>4
<1> QED BY <1>2, <1>3
(* Touches                                                                  *)

\* A request whose actions are shown, or were.
Shows(c) == AloneSigned(c) \/ AloneListed(c) \/ AloneExecuted(c)

\* What is on top tells the phase of the one request.
LEMMA OnTopAlone ==
  ASSUME NEW c, Phase(c)
  PROVE  /\ SheetOnTop \/ OnTop("nopass") => Shows(c)
         /\ OnTop("nopass") => Front(windows) = <<>>
         /\ OnTop("prompt") => AlonePrompted(c) /\ Front(windows) = <<>>
         /\ OnTop("message") => AloneTexted(c) /\ Front(windows) = <<>>
<1>1. PICK nop : nop = View("nopass", Nobody)
  OBVIOUS
<1>2. PICK prompt : prompt = View("prompt", c)
  OBVIOUS
<1>3. PICK message : message = View("message", c)
  OBVIOUS
<1>4. nop.name = "nopass" /\ prompt.name = "prompt" /\ message.name = "message"
  BY <1>1, <1>2, <1>3 DEF View
<1>5. /\ Last(<<nop>>) = nop /\ Last(<<prompt>>) = prompt /\ Last(<<message>>) = message
      /\ Front(<<nop>>) = <<>> /\ Front(<<prompt>>) = <<>> /\ Front(<<message>>) = <<>>
      /\ <<nop>> # <<>> /\ <<prompt>> # <<>> /\ <<message>> # <<>>
  BY OneCall
<1>6. CASE AloneDecoded(c) \/ AloneTransferred(c)
  BY <1>6 DEF AloneDecoded, AloneTransferred, TransferOf, Closed, SheetOnTop, OnTop
<1>7. CASE Shows(c)
  <2>1. windows = <<>> \/ windows = <<nop>>
    BY <1>1, <1>7 DEF Shows, AloneSigned, AloneListed, AloneExecuted, RunOf, Passwords
  <2> QED BY <1>4, <1>5, <1>7, <2>1 DEF OnTop
<1>8. CASE AlonePrompted(c)
  <2>1. windows = <<prompt>> /\ ~sheet.up
    BY <1>2, <1>8 DEF AlonePrompted
  <2> QED BY <1>4, <1>5, <1>8, <2>1 DEF OnTop, SheetOnTop
<1>9. CASE AloneTexted(c)
  <2>1. windows = <<message>> /\ ~sheet.up
    BY <1>3, <1>9 DEF AloneTexted
  <2> QED BY <1>4, <1>5, <1>9, <2>1 DEF OnTop, SheetOnTop
<1> QED BY <1>6, <1>7, <1>8, <1>9 DEF Phase, Shows

\* A touch that leaves the sheet with its pages leaves the phase.
LEMMA PagesStay ==
  ASSUME NEW c, Under(c), Shows(c), UNCHANGED <<list, execs, runs, jobs, acts>>,
         sheet'.pages = sheet.pages, sheet'.up => sheet.up, Passwords'
  PROVE  AloneOK'
<1>1. Exact' /\ Before'
  BY NoAct
<1>2. Work' = Work
  BY DEF Work
<1>3. CASE AloneSigned(c)
  <2>1. AloneSigned(c)'
    BY <1>2, <1>3, UnderStays DEF AloneSigned, Under
  <2> QED BY <1>1, <2>1, ToPhase DEF Phase
<1>4. CASE AloneListed(c)
  <2>1. AloneListed(c)'
    BY <1>2, <1>4, UnderStays DEF AloneListed, Under
  <2> QED BY <1>1, <2>1, ToPhase DEF Phase
<1>5. CASE AloneExecuted(c)
  <2>1. PICK k \in DOMAIN runs :
          RunOf(c, k) /\ (Work = {} \/ RunEncoded(c, k) \/ \E j \in Work : j.run = k /\ RunAt(c, j))
    BY <1>5 DEF AloneExecuted
  <2>2. RunOf(c, k)'
    BY <2>1, UnderStays DEF RunOf, Under
  <2>3. RunEncoded(c, k) => RunEncoded(c, k)'
    BY <1>2, UnderStays DEF RunEncoded
  <2>4. \A j : RunAt(c, j) => RunAt(c, j)'
    BY <1>2, UnderStays DEF RunAt
  <2>5. AloneExecuted(c)'
    BY <1>2, <2>1, <2>2, <2>3, <2>4 DEF AloneExecuted
  <2> QED BY <1>1, <2>5, ToPhase DEF Phase
<1> QED BY <1>3, <1>4, <1>5 DEF Shows

\* A touch that takes the sheet and its password away ends what has not started.
LEMMA PagesGo ==
  ASSUME NEW c, Under(c), Shows(c), UNCHANGED <<list, execs, runs, jobs, acts>>,
         sheet' = NoSheet, windows' = <<>>
  PROVE  AloneOK'
<1>1. Exact' /\ Before'
  BY NoAct
<1>2. Work' = Work
  BY DEF Work
<1>3. sheet'.pages = <<>> /\ ~sheet'.up
  BY DEF NoSheet
<1>4. CASE AloneSigned(c) \/ AloneListed(c)
  <2>1. Quiet'
    BY <1>2, <1>3, <1>4 DEF AloneSigned, AloneListed, Quiet, Closed
  <2> QED BY <1>1, <2>1, ToPhase
<1>5. CASE AloneExecuted(c)
  <2>1. PICK k \in DOMAIN runs :
          RunOf(c, k) /\ (Work = {} \/ RunEncoded(c, k) \/ \E j \in Work : j.run = k /\ RunAt(c, j))
    BY <1>5 DEF AloneExecuted
  <2>2. RunOf(c, k)'
    BY <1>3, <2>1, UnderStays DEF RunOf, Under, Passwords
  <2>3. RunEncoded(c, k) => RunEncoded(c, k)'
    BY <1>2, UnderStays DEF RunEncoded
  <2>4. \A j : RunAt(c, j) => RunAt(c, j)'
    BY <1>2, UnderStays DEF RunAt
  <2>5. AloneExecuted(c)'
    BY <1>2, <2>1, <2>2, <2>3, <2>4 DEF AloneExecuted
  <2> QED BY <1>1, <2>5, ToPhase DEF Phase
<1> QED BY <1>4, <1>5 DEF Shows

\* The actions shown are signed, all of them, and the sheet goes.
LEMMA SignedAlone ==
  ASSUME NEW c, Under(c), AloneSigned(c), SignActions(sheet.pages), sheet' = NoSheet, windows' = <<>>
  PROVE  AloneOK'
<1>1. acts' = acts \/ acts' = Append(acts, Act(c, Whole(c), Whole(c)))
  BY DEF SignActions, AloneSigned
<1>2. UNCHANGED <<runs, jobs>> /\ ~Carried(c) /\ Work = {}
  BY DEF SignActions, AloneSigned
<1>3. Exact' /\ Before'
  BY <1>1, <1>2, CarriedAlone
<1>4. Quiet'
  BY <1>2 DEF NoSheet, Quiet, Closed, Work
<1> QED BY <1>3, <1>4, ToPhase

\* The list shown starts to be executed, all of it, once.
LEMMA StartedAlone ==
  ASSUME NEW c, Under(c), AloneListed(c), Execute(sheet.pages), windows' = <<>>,
         sheet' = NoSheet \/ sheet' = sheet
  PROVE  AloneOK'
<1>0. PICK k : k = Len(runs) + 1
  OBVIOUS
<1> DEFINE run == [by |-> c, meant |-> Whole(c), acts |-> <<>>, got |-> {}]
<1>1. /\ method[c] = "actions" /\ models.actions = c /\ list = Whole(c) /\ ~Carried(c)
      /\ Work = {} /\ sheet.pages = Whole(c) /\ c \in Requests
      /\ execs \in ExecsType /\ runs \in Seq(RunType)
  BY DEF AloneListed, Under, TypeInv, Typed
<1>2. PICK i : i = Job("info", c, k)
  OBVIOUS
<1>3. i.kind = "info" /\ i.by = c /\ i.run = k
  BY <1>2 DEF Job
<1>4. /\ runs' = Append(runs, run) /\ jobs' = jobs \cup {i} /\ UNCHANGED <<models, acts>>
      /\ execs' = [execs EXCEPT !.array = list, !.aliased = TRUE, !.right = nopass.right]
  BY <1>0, <1>1, <1>2 DEF Execute
<1>5. execs'.array = Whole(c)
  BY <1>1, <1>4 DEF ExecsType
<1>6. run.by = c /\ run.meant = Whole(c)
  OBVIOUS
<1> HIDE DEF run
<1>7. /\ DOMAIN runs = 1..Len(runs) /\ Len(runs) \in Nat /\ DOMAIN runs' = 1..(Len(runs) + 1)
      /\ \A q \in 1..Len(runs) : runs'[q] = runs[q]
      /\ runs'[k] = run
  <2>1. Indexed(runs)
    BY <1>1 DEF Indexed
  <2> QED BY <1>0, <1>4, <2>1, AppendIndexed
<1>8. k \in DOMAIN runs' /\ \A q \in DOMAIN runs' : (q \in DOMAIN runs /\ runs'[q] = runs[q]) \/ runs'[q] = run
  BY <1>0, <1>7
<1>9. Exact' /\ Before'
  <2>1. Exact'
    BY <1>4, ExactStays DEF Under, AloneOK
  <2>2. Arrived(c)'
    BY UnderStays
  <2>3. Before'
    BY <1>4, <1>6, <1>8, <2>2 DEF Before, Under, AloneOK, ArrivedStay
  <2> QED BY <2>1, <2>3
<1>10. Work' = {i}
  BY <1>1, <1>3, <1>4 DEF Work, ReadKinds
<1>11. sheet'.pages = <<>> => ~sheet'.up
  BY <1>1, WholeSome DEF NoSheet
<1>12. Whole(c)' = Whole(c) /\ ~Carried(c)'
  BY <1>1, <1>4, UnderStays
<1>13. RunAt(c, i)'
  BY <1>3, <1>5, <1>10, <1>12 DEF RunAt
<1>14. RunOf(c, k)'
  BY <1>1, <1>4, <1>6, <1>7, <1>8, <1>11, <1>12 DEF RunOf, Under, Passwords
<1>15. AloneExecuted(c)'
  BY <1>3, <1>8, <1>10, <1>13, <1>14 DEF AloneExecuted
<1> QED BY <1>9, <1>15, ToPhase DEF Phase
\* What is confirmed is the one request's, or a read's, for which nothing is done.
LEMMA ConfirmedAlone ==
  ASSUME TypeInv, AloneOK, NEW c \in Requests, Alone(c), Shows(c), ArrivedStay,
         UNCHANGED <<method, decoding, list, transfers>>, ~crossed',
         Confirmed(sheet.pages, <<>>), sheet' = NoSheet \/ (sheet' = sheet /\ method[Mine] # "sign")
  PROVE  AloneOK'
<1>1. Mine \in Requests /\ (method[Mine] \in ConsentMethods => Mine = c) /\ Mine = models.latest
  BY DEF Alone, NeedsConsent, Mine
<1>2. method[c] \in {"sign", "actions"}
  BY DEF Shows, AloneSigned, AloneListed, AloneExecuted, RunOf
<1>3. Mine # Nobody
  BY <1>1, NobodyAssumption
<1>4. method[Mine] # "message"
  BY <1>1, <1>2 DEF ConsentMethods
<1>5. CASE /\ method[Mine] \notin {"sign", "actions", "message"}
           /\ windows' = <<>> /\ UNCHANGED <<models, execs, text, runs, jobs, acts, crossed, toPage>>
  <2>1. Under(c)
    BY <1>5 DEF Under
  <2>2. CASE sheet' = NoSheet
    BY <1>5, <2>1, <2>2, PagesGo
  <2>3. CASE sheet' = sheet
    BY <1>5, <2>1, <2>3, PagesStay DEF Passwords
  <2> QED BY <2>2, <2>3
<1>6. CASE method[Mine] = "sign" /\ SignActions(sheet.pages) /\ windows' = <<>>
  <2>1. Mine = c /\ AloneSigned(c)
    BY <1>1, <1>6 DEF ConsentMethods, Shows, AloneListed, AloneExecuted, RunOf
  <2>2. Under(c)
    BY <1>6 DEF SignActions, Under
  <2> QED BY <1>6, <2>1, <2>2, SignedAlone
<1>7. CASE method[Mine] = "actions" /\ Execute(sheet.pages) /\ windows' = <<>>
  <2>1. Mine = c /\ (AloneListed(c) \/ AloneExecuted(c))
    BY <1>1, <1>7 DEF ConsentMethods, Shows, AloneSigned
  <2>2. Under(c)
    BY <1>7 DEF Execute, Under
  <2>3. ~AloneExecuted(c)
    <3> SUFFICES ASSUME AloneExecuted(c) PROVE FALSE
      OBVIOUS
    <3>1. models.actions = c /\ \E k \in DOMAIN runs : runs[k].by = c
      BY DEF AloneExecuted, RunOf
    <3>2. crossed' = (crossed \/ Working \/ \E k \in DOMAIN runs : runs[k].by = models.actions)
      BY <1>7 DEF Execute
    <3> QED BY <3>1, <3>2
  <2> QED BY <1>7, <2>1, <2>2, <2>3, StartedAlone
<1> QED BY <1>1, <1>3, <1>4, <1>5, <1>6, <1>7 DEF Confirmed

\* Touches of the sheet and its password.
LEMMA SheetAlone ==
  ASSUME TypeInv, AloneOK, NEW c \in Requests, Alone(c), ArrivedStay, UNCHANGED method, ~crossed',
         \/ LookAtAll \/ ConfirmSheet \/ CloseSheet \/ HideSheet
         \/ CancelPassword \/ ConfirmPassword
  PROVE  AloneOK'
<1>1. Shows(c) /\ (OnTop("nopass") => Front(windows) = <<>>)
  <2>1. SheetOnTop \/ OnTop("nopass")
    BY DEF LookAtAll, ConfirmSheet, CloseSheet, HideSheet, CancelPassword, ConfirmPassword
  <2> QED BY <2>1, OnTopAlone DEF Alone
<1>2. sheet \in SheetType /\ Passwords
  BY <1>1 DEF TypeInv, Typed, Shows, AloneSigned, AloneListed, AloneExecuted, RunOf
<1>3. CASE LookAtAll \/ HideSheet
  <2>1. UNCHANGED <<models, list, execs, runs, jobs, acts, windows>>
    BY <1>3 DEF LookAtAll, HideSheet
  <2>2. sheet'.pages = sheet.pages /\ (sheet'.up => sheet.up)
    BY <1>2, <1>3 DEF LookAtAll, HideSheet, SheetType
  <2> QED BY <1>1, <1>2, <2>1, <2>2, PagesStay DEF Under, Passwords, View
<1>4. CASE CancelPassword
  <2>1. UNCHANGED <<models, list, execs, runs, jobs, acts, sheet>> /\ windows' = <<>>
    BY <1>1, <1>4 DEF CancelPassword
  <2> QED BY <1>1, <2>1, PagesStay DEF Under, Passwords
<1>5. CASE CloseSheet
  <2>1. UNCHANGED <<models, list, execs, runs, jobs, acts>> /\ sheet' = NoSheet /\ windows' = <<>>
    BY <1>5 DEF CloseSheet, SheetOnTop
  <2> QED BY <1>1, <2>1, PagesGo DEF Under
<1>6. CASE ConfirmPassword
  <2>1. Confirmed(sheet.pages, <<>>) /\ sheet' = NoSheet /\ UNCHANGED <<decoding, list, transfers>>
    BY <1>1, <1>6 DEF ConfirmPassword
  <2> QED BY <1>1, <2>1, ConfirmedAlone
<1>7. CASE ConfirmSheet
  <2>1. UNCHANGED <<decoding, list, transfers>> /\ windows = <<>>
    BY <1>7 DEF ConfirmSheet, SheetOnTop
  <2>2. CASE windows' = <<View("nopass", Nobody)>> /\ UNCHANGED <<models, sheet, execs, runs, jobs, acts>>
    BY <1>1, <2>1, <2>2, PagesStay DEF Under, Passwords, View
  <2>3. CASE /\ Confirmed(sheet.pages, <<>>)
             /\ sheet' = IF toPage' # toPage /\ method[Mine] = "sign" THEN NoSheet ELSE sheet
    <3>1. method[Mine] = "sign" => toPage' # toPage
      <4> SUFFICES ASSUME method[Mine] = "sign" PROVE toPage' # toPage
        OBVIOUS
      <4>1. Mine # Nobody
        BY NobodyAssumption DEF Alone
      <4>2. PICK a : Reply(models.latest, a)
        BY <2>3, <4>1 DEF Confirmed, SignActions, Mine
      <4>3. PICK call : call = [serial |-> models.latest, answer |-> a]
        OBVIOUS
      <4>4. toPage' = Append(toPage, call) /\ toPage \in Seq(Call)
        BY <4>2, <4>3 DEF Reply, TypeInv, Typed, ChannelOK
      <4>5. Indexed(toPage)
        BY <4>4 DEF Indexed
      <4>6. Len(toPage) \in Nat /\ DOMAIN toPage = 1..Len(toPage) /\ DOMAIN toPage' = 1..(Len(toPage) + 1)
        BY <4>4, <4>5, AppendIndexed
      <4> QED BY <4>6
    <3>2. sheet' = NoSheet \/ (sheet' = sheet /\ method[Mine] # "sign")
      BY <2>3, <3>1
    <3> QED BY <1>1, <2>1, <2>3, <3>2, ConfirmedAlone
  <2> QED BY <1>7, <2>1, <2>2, <2>3 DEF ConfirmSheet, Mine
<1> QED BY <1>3, <1>4, <1>5, <1>6, <1>7

\* Touches of the prompt of a transfer, and of the view of a message.
LEMMA ViewAlone ==
  ASSUME TypeInv, AloneOK, NEW c \in Requests, Alone(c), ArrivedStay, UNCHANGED method,
         PromptRefused \/ PromptCancelled \/ PromptConfirmed \/ LeaveMessage \/ ConfirmMessage
  PROVE  AloneOK'
<1>1. UNCHANGED <<models, sheet, runs>> /\ windows' = Front(windows)
  BY DEF PromptRefused, PromptCancelled, PromptConfirmed, LeaveMessage, ConfirmMessage
<1>2. Under(c)
  BY <1>1 DEF Under
<1>3. AlonePrompted(c) \/ AloneTexted(c)
  BY OnTopAlone DEF Alone, PromptRefused, PromptCancelled, PromptConfirmed, LeaveMessage, ConfirmMessage
<1>4. windows' = <<>>
  BY <1>1, OnTopAlone
     DEF Alone, PromptRefused, PromptCancelled, PromptConfirmed, LeaveMessage, ConfirmMessage
<1>5. Closed' /\ Work = {} /\ ~Carried(c)
  BY <1>1, <1>3, <1>4 DEF AlonePrompted, AloneTexted, Closed
<1>6. CASE PromptRefused \/ PromptCancelled \/ LeaveMessage
  <2>1. UNCHANGED <<jobs, acts>>
    BY <1>6 DEF PromptRefused, PromptCancelled, LeaveMessage
  <2>2. Quiet'
    BY <1>5, <2>1 DEF Quiet, Work
  <2> QED BY <1>1, <1>2, <2>1, <2>2, NoAct, ToPhase
<1>7. CASE PromptConfirmed
  <2>1. AlonePrompted(c) /\ models.transfer = c /\ UNCHANGED acts
    BY <1>7, OnTopAlone DEF Alone, PromptConfirmed, AlonePrompted
  <2>2. Last(windows).of = c
    <3>1. PICK prompt : prompt = View("prompt", c)
      OBVIOUS
    <3>2. windows = <<prompt>> /\ prompt.of = c
      BY <2>1, <3>1 DEF AlonePrompted, View
    <3> QED BY <3>2, OneCall
  <2>3. PICK i : i = [Job("abi", c, 0) EXCEPT !.of = c]
    OBVIOUS
  <2>4. i.kind = "abi" /\ i.by = c /\ i.of = c
    BY <2>3 DEF Job
  <2>5. jobs' = jobs \cup {i}
    BY <1>7, <2>1, <2>2, <2>3 DEF PromptConfirmed
  <2>6. Work' = {i}
    BY <1>5, <2>4, <2>5 DEF Work, ReadKinds
  <2>7. TransferAt(c, i)'
    BY <1>2, <1>5, <2>1, <2>4, <2>6, UnderStays DEF TransferAt
  <2>8. AloneTransferred(c)'
    BY <1>1, <1>2, <1>5, <2>1, <2>6, <2>7 DEF AloneTransferred, TransferOf, AlonePrompted, Under
  <2> QED BY <1>1, <1>2, <2>1, <2>8, NoAct, ToPhase DEF Phase
<1>8. CASE ConfirmMessage
  <2>1. AloneTexted(c) /\ UNCHANGED jobs
    BY <1>8, OnTopAlone DEF Alone, ConfirmMessage
  <2>2. method[c] = "message" /\ models.message = c
    BY <2>1 DEF AloneTexted
  <2>3. acts' = acts \/ acts' = Append(acts, Act(c, Whole(text), Whole(c)))
    BY <1>8, <2>2 DEF ConfirmMessage
  <2>4. Exact' /\ Before'
    BY <1>1, <1>2, <1>5, <2>2, <2>3, CarriedAlone
  <2>5. Quiet'
    BY <1>5, <2>1 DEF Quiet, Work
  <2> QED BY <1>2, <2>4, <2>5, ToPhase
<1> QED BY <1>6, <1>7, <1>8

\* Whatever is touched.
LEMMA TouchAlone ==
  ASSUME TypeInv, AloneOK, Touch, ~crossed', UNCHANGED <<method, promise, result, callback, toNative>>
  PROVE  AloneOK'
<1>1. ArrivedStay
  BY ArrivedWait
<1>2. ~Quiet
  <2> SUFFICES ASSUME windows = <<>>, ~sheet.up, Touch PROVE FALSE
    BY DEF Quiet, Closed
  <2> QED BY DEF Touch, OnTop, SheetOnTop, LookAtAll, ConfirmSheet, CloseSheet, HideSheet, TypePassword,
               CancelPassword, ConfirmPassword, PromptRefused, PromptCancelled, PromptConfirmed,
               LeaveMessage, ConfirmMessage
<1>3. PICK c \in Requests : Alone(c)
  BY <1>2 DEF AloneOK
<1>4. CASE \E right, tick \in BOOLEAN : TypePassword(right, tick)
  <2>1. UNCHANGED <<decoding, list, sheet, windows, transfers, execs, runs, jobs, acts, models>>
    BY <1>4 DEF TypePassword
  <2>2. Work' = Work /\ Mine' = Mine
    BY <2>1 DEF Work, Mine
  <2> QED BY <1>1, <2>1, <2>2, AloneStays
<1> QED BY <1>1, <1>3, <1>4, SheetAlone, ViewAlone DEF Touch

-----------------------------------------------------------------------------

\* LoneInv holds at first and is kept by every step.
LEMMA LoneInductive ==
  (Init => LoneInv) /\ (LoneInv /\ [Next]_vars => LoneInv')
<1>1. Init => LoneInv
  <2> SUFFICES ASSUME Init PROVE LoneInv
    OBVIOUS
  <2>1. /\ toNative = <<>> /\ acts = <<>> /\ runs = <<>> /\ jobs = {} /\ windows = <<>>
        /\ sheet.pages = <<>> /\ ~sheet.up
    BY DEF Init, ChannelInit, NoSheet
  <2>2. Queued /\ Exact /\ Before /\ Quiet
    BY <2>1 DEF Queued, Exact, Before, Quiet, Closed, Work
  <2> QED BY <2>2, TypeInductive DEF LoneInv, AloneOK
<1>2. ASSUME LoneInv, [Next]_vars PROVE LoneInv'
  <2>0. TypeInv /\ TypeInv' /\ Queued /\ (~crossed => AloneOK) /\ crossed \in BOOLEAN /\ toPage \in Seq(Call)
    BY <1>2, TypeInductive DEF LoneInv, TypeInv, Typed, ChannelOK
  <2>1. ASSUME NEW r \in Requests, Message(r) PROVE LoneInv'
    <3>1. Queued'
      BY <2>0, <2>1, ArrivedNow DEF Message
    <3> QED BY <1>2, <2>0, <2>1, <3>1, MessageAlone DEF LoneInv
  <2>2. ASSUME NEW j \in jobs, Answered(j), UNCHANGED <<method, promise, result, callback, toNative>>
        PROVE  LoneInv'
    <3>1. UNCHANGED crossed
      BY <2>2 DEF Answered, NetAnswer, AccountAnswer, AccountReply, DecodeAnswer, InfoAnswer,
                  EncodeAnswer, KeysAnswer, ExecuteAtNode, Executed, AbiAnswer, SetArgs, Send,
                  TransferAtNode, Transferred, Report, Fail
    <3>2. Queued'
      BY <2>0, <2>2, ArrivedWait
    <3> QED BY <2>0, <2>2, <3>1, <3>2, AnsweredAlone DEF LoneInv
  <2>3. ASSUME Touch, UNCHANGED <<method, promise, result, callback, toNative>> PROVE LoneInv'
    <3>1. crossed => crossed'
      <4>1. \A meant, others : Confirmed(meant, others) => (crossed => crossed')
        BY DEF Confirmed, SignActions, Execute
      <4> QED BY <2>3, <4>1 DEF Touch, LookAtAll, ConfirmSheet, CloseSheet, HideSheet, TypePassword,
                   CancelPassword, ConfirmPassword, PromptRefused, PromptCancelled, PromptConfirmed,
                   LeaveMessage, ConfirmMessage
    <3>2. Queued'
      BY <2>0, <2>3, ArrivedWait
    <3> QED BY <2>0, <2>3, <3>1, <3>2, TouchAlone DEF LoneInv
  <2>4. ASSUME ArrivedStay, Queued', UNCHANGED method, UNCHANGED native PROVE LoneInv'
    <3>1. /\ UNCHANGED <<decoding, list, sheet, windows, transfers, execs, runs, jobs, acts, models>>
          /\ crossed' = crossed
      BY <2>4 DEF native
    <3>2. Work' = Work /\ Mine' = Mine
      BY <3>1 DEF Work, Mine
    <3>3. AloneOK => AloneOK'
      BY <2>4, <3>1, <3>2, AloneStays
    <3> QED BY <2>0, <2>4, <3>1, <3>3 DEF LoneInv
  <2>5. ASSUME NEW r \in Requests, Ask(r), UNCHANGED native PROVE LoneInv'
    <3>1. UNCHANGED method
      BY <2>5 DEF Ask
    <3> QED BY <2>0, <2>4, <2>5, <3>1, ArrivedLater
  <2>6. CASE Evaluate
    <3>1. /\ \A r \in Requests : promise[r] # "unborn" => promise'[r] # "unborn"
          /\ UNCHANGED <<method, toNative>> /\ UNCHANGED native /\ toNative \in Seq(Requests)
      BY <2>0, <2>6 DEF Evaluate, CallBack, TypeInv, Typed, ChannelOK
    <3> QED BY <2>0, <2>4, <3>1, BornWait
  <2>7. CASE Load /\ UNCHANGED native
    <3>1. /\ \A r \in Requests : promise[r] # "unborn" => promise'[r] # "unborn"
          /\ UNCHANGED <<method, toNative>> /\ toNative \in Seq(Requests)
      BY <2>0, <2>7 DEF Load, TypeInv, Typed, ChannelOK
    <3> QED BY <2>0, <2>4, <2>7, <3>1, BornWait
  <2>8. CASE UNCHANGED vars
    <3>1. UNCHANGED <<method, promise, toNative>> /\ UNCHANGED native
      BY <2>8 DEF vars, channel
    <3> QED BY <2>0, <2>4, <3>1, ArrivedWait
  <2> QED BY <1>2, <2>1, <2>2, <2>3, <2>5, <2>6, <2>7, <2>8 DEF Next, App, Page
<1> QED BY <1>1, <1>2

\* As long as no consent was asked for, or given once more, while another was open,
\* what is signed or executed is one request of the page, all of it, once, and its
\* actions are those the sheet has shown (DAppDetailViewController.m, the services
\* and the views it shares between requests): for any requests, lists and bounds,
\* whatever the page reads meanwhile, and however late and disordered answers come.
THEOREM LoneConsentsExact == Spec => []LoneConsentsAreExact
<1>1. LoneInv => LoneConsentsAreExact
  BY DEF LoneInv, AloneOK, Exact, LoneConsentsAreExact
<1> QED BY <1>1, LoneInductive, PTL DEF Spec

=============================================================================
