--------------------------- MODULE DappBridgeProofs ---------------------------
(***************************************************************************)
(* Proofs about DappBridge, for any requests, methods, lists and bounds:     *)
(* that an overtaken request stays pending, and the types of the bridge.     *)
(***************************************************************************)
EXTENDS DappBridge, SequenceTheorems, FiniteSetTheorems, TLAPS

(* Sequences of anything *)

\* A sequence, of whatever it holds.
Indexed(s) == s \in Seq({s[i] : i \in DOMAIN s})

\* What a sequence of one element is made of.
LEMMA OneCall ==
  ASSUME NEW e
  PROVE  /\ Append(<<>>, e) = <<e>>
         /\ <<e>> # <<>> /\ Head(<<e>>) = e /\ Tail(<<e>>) = <<>> /\ Last(<<e>>) = e
         /\ Front(<<e>>) = <<>>
<1>1. <<e>> \in Seq({e}) /\ Len(<<e>>) = 1 /\ <<>> \in Seq({e})
  OBVIOUS
<1>2. Front(<<e>>) = <<>>
  BY <1>1 DEF Front
<1> QED BY <1>1, <1>2 DEF Last

\* The empty sequence is one.
LEMMA EmptyIndexed == Indexed(<<>>)
BY DEF Indexed

\* So is one with an element added, which keeps the others in their places.
LEMMA AppendIndexed ==
  ASSUME NEW s, Indexed(s), NEW e
  PROVE  /\ Indexed(Append(s, e))
         /\ DOMAIN s = 1..Len(s) /\ Len(s) \in Nat
         /\ DOMAIN Append(s, e) = 1..(Len(s) + 1)
         /\ \A i \in 1..Len(s) : Append(s, e)[i] = s[i]
         /\ Append(s, e)[Len(s) + 1] = e
<1> DEFINE S == {s[i] : i \in DOMAIN s} \cup {e}
<1>1. s \in Seq(S)
  BY DEF Indexed
<1>2. /\ DOMAIN s = 1..Len(s) /\ Len(s) \in Nat
      /\ Append(s, e) \in Seq(S)
      /\ Len(Append(s, e)) = Len(s) + 1
      /\ \A i \in 1..Len(s) : Append(s, e)[i] = s[i]
      /\ Append(s, e)[Len(s) + 1] = e
  BY <1>1, AppendProperties
<1>3. DOMAIN Append(s, e) = 1..(Len(s) + 1)
  BY <1>2
<1>4. S = {Append(s, e)[i] : i \in DOMAIN Append(s, e)}
  BY <1>2, <1>3
<1> QED BY <1>2, <1>3, <1>4 DEF Indexed

-----------------------------------------------------------------------------
(* The page *)

Status == {"unborn", "pending", "settled", "lost"}

\* Every request has a promise, and a method of the page.
PromiseOK ==
  /\ method \in [Requests -> Methods]
  /\ promise \in [Requests -> Status]

\* The app's own steps do not touch the page.
LEMMA AppKeepsPage ==
  ASSUME App
  PROVE  UNCHANGED <<method, promise, result, callback>>
BY DEF App, Message, Receive

\* PromiseOK holds at first and is kept by every step.
LEMMA PromiseInductive ==
  (Init => PromiseOK) /\ (PromiseOK /\ [Next]_vars => PromiseOK')
<1>1. Init => PromiseOK
  BY DEF Init, ChannelInit, PromiseOK, Status
<1>2. ASSUME PromiseOK, [Next]_vars PROVE PromiseOK'
  <2>1. CASE App
    BY <1>2, <2>1, AppKeepsPage DEF PromiseOK
  <2>2. ASSUME NEW r \in Requests, Ask(r) PROVE PromiseOK'
    BY <1>2, <2>2 DEF Ask, PromiseOK, Status
  <2>3. CASE CallBack(Head(toPage))
    BY <1>2, <2>3 DEF CallBack, PromiseOK, Status
  <2>4. CASE Load
    BY <1>2, <2>4 DEF Load, PromiseOK, Status
  <2>5. CASE UNCHANGED vars
    BY <1>2, <2>5 DEF vars, channel, PromiseOK
  <2> QED BY <1>2, <2>1, <2>2, <2>3, <2>4, <2>5 DEF Next, Page, Evaluate
<1> QED BY <1>1, <1>2

-----------------------------------------------------------------------------

\* Whatever the app answers, and however often, a request that another has
\* overtaken keeps waiting until its page goes: CallBack only settles the request
\* that holds callback, and no answer gives it back (scatter_pe2.js:20).
THEOREM OvertakenWaits == Spec => OvertakenStayPending
<1> DEFINE Overtaking == \A r \in Requests : Overtaken(r) => promise'[r] = "lost" \/ Overtaken(r)'
<1>1. ASSUME PromiseOK, [Next]_vars PROVE [Overtaking]_vars
  <2> USE <1>1 DEF PromiseOK, Overtaken, Pending, Status
  <2>1. CASE App
    BY <2>1, AppKeepsPage
  <2>2. ASSUME NEW r \in Requests, Ask(r) PROVE Overtaking
    BY <2>2 DEF Ask
  <2>3. CASE CallBack(Head(toPage))
    BY <2>3 DEF CallBack
  <2>4. CASE Load
    BY <2>4 DEF Load
  <2> QED BY <2>1, <2>2, <2>3, <2>4 DEF Next, Page, Evaluate
<1> QED BY <1>1, PromiseInductive, PTL DEF Spec, OvertakenStayPending, Overtaking

-----------------------------------------------------------------------------
(* Lists of actions                                                         *)

\* The places of a list in order: each rank is that of one place.
LEMMA RankExists ==
  ASSUME NEW size \in Nat, NEW places \in SUBSET (1..size), NEW i \in 1..Cardinality(places)
  PROVE  \E n \in places : Cardinality({m \in places : m <= n}) = i
<1> DEFINE upTo(n) == {m \in places : m <= n}
           rank == [n \in places |-> Cardinality(upTo(n))]
           card == Cardinality(places)
<1>0. IsFiniteSet(1..size) /\ \A n \in places : n \in Nat
  BY FS_Interval
<1>1. IsFiniteSet(places) /\ card \in Nat
  BY <1>0, FS_Subset, FS_CardinalityType
<1>2. ASSUME NEW n \in places
      PROVE  IsFiniteSet(upTo(n)) /\ Cardinality(upTo(n)) \in 1..card
  <2>1. IsFiniteSet(upTo(n)) /\ Cardinality(upTo(n)) \in Nat /\ Cardinality(upTo(n)) <= card
    BY <1>1, FS_Subset, FS_CardinalityType
  <2>2. n \in upTo(n)
    OBVIOUS
  <2>3. Cardinality(upTo(n)) # 0
    BY <2>1, <2>2, FS_EmptySet
  <2> QED BY <1>1, <2>1, <2>3
<1>3. ASSUME NEW n \in places, NEW o \in places, n < o
      PROVE  Cardinality(upTo(n)) < Cardinality(upTo(o))
  <2>0. n \in Nat /\ o \in Nat /\ ~ (o <= n)
    BY <1>0, <1>3
  <2>1. upTo(n) \in SUBSET upTo(o) /\ o \in upTo(o) /\ o \notin upTo(n)
    <3>1. \A m \in places : m <= n => m <= o
      BY <1>0, <1>3
    <3>2. upTo(n) \subseteq upTo(o)
      BY <3>1
    <3>3. o \in upTo(o) /\ o \notin upTo(n)
      BY <2>0
    <3> QED BY <3>2, <3>3
  <2>2. Cardinality(upTo(n)) <= Cardinality(upTo(o)) /\ Cardinality(upTo(o)) # Cardinality(upTo(n))
    BY <1>2, <2>1, FS_Subset
  <2>3. Cardinality(upTo(n)) \in Nat /\ Cardinality(upTo(o)) \in Nat
    BY <1>2
  <2> QED BY <2>2, <2>3
<1>4. rank \in [places -> 1..card]
  BY <1>2
<1>5. ASSUME NEW n \in places, NEW o \in places, rank[n] = rank[o] PROVE n = o
  <2>1. n \in Nat /\ o \in Nat
    OBVIOUS
  <2>2. Cardinality(upTo(n)) = Cardinality(upTo(o))
    BY <1>5
  <2>3. ~ (n < o) /\ ~ (o < n)
    BY <1>2, <1>3, <2>2
  <2> QED BY <2>1, <2>3
<1> HIDE DEF rank
<1>6. rank \in Injection(places, 1..card)
  BY <1>4, <1>5 DEF Injection, IsInjective
<1>7. IsFiniteSet(1..card) /\ Cardinality(1..card) = card
  BY <1>1, FS_Interval
<1>8. rank \in Surjection(places, 1..card)
  BY <1>6, <1>7, FS_Injection
<1>9. PICK n \in places : rank[n] = i
  BY <1>8 DEF Surjection
<1> QED BY <1>9 DEF rank

\* What is sorted is a list of the actions in those places; of all places, the list.
LEMMA SortedIs ==
  ASSUME NEW S, NEW s \in Seq(S), NEW places \in SUBSET (1..Len(s))
  PROVE  /\ Sorted(s, places) \in Seq(S)
         /\ Len(Sorted(s, places)) = Cardinality(places)
         /\ places = 1..Len(s) => Sorted(s, places) = s
<1> DEFINE upTo(n) == {m \in places : m <= n}
           ith(i) == CHOOSE n \in places : Cardinality(upTo(n)) = i
           card == Cardinality(places)
<1>0. Len(s) \in Nat /\ \A n \in places : s[n] \in S
  OBVIOUS
<1>1. IsFiniteSet(1..Len(s)) /\ Cardinality(1..Len(s)) = Len(s)
  BY <1>0, FS_Interval
<1>9. Len(s) \in Nat /\ card \in Nat
  BY <1>0, <1>1, FS_Subset, FS_CardinalityType
<1>2. ASSUME NEW i \in 1..card PROVE ith(i) \in places /\ Cardinality(upTo(ith(i))) = i
  <2>1. \E n \in places : Cardinality(upTo(n)) = i
    BY <1>9, RankExists
  <2> QED BY <2>1
<1>3. Sorted(s, places) = [i \in 1..card |-> s[ith(i)]]
  BY DEF Sorted
<1>4. ASSUME NEW i \in 1..card PROVE s[ith(i)] \in S
  <2> HIDE DEF ith
  <2> QED BY <1>0, <1>2, <1>4
<1>5. Sorted(s, places) \in Seq(S) /\ Len(Sorted(s, places)) = card
  <2> HIDE DEF ith, card
  <2>1. [i \in 1..card |-> s[ith(i)]] \in [1..card -> S]
    BY <1>4
  <2> QED BY <1>9, <1>3, <2>1, SeqDef
<1>6. ASSUME places = 1..Len(s) PROVE Sorted(s, places) = s
  <2>1. card = Len(s)
    BY <1>1, <1>6
  <2>2. ASSUME NEW i \in 1..card PROVE ith(i) = i
    <3>1. ith(i) \in places /\ Cardinality(upTo(ith(i))) = i /\ ith(i) \in 1..Len(s)
      BY <1>2, <1>6
    <3> HIDE DEF ith
    <3>2. upTo(ith(i)) = 1..ith(i)
      BY <1>9, <1>6, <3>1
    <3>3. Cardinality(1..ith(i)) = ith(i)
      BY <1>9, <3>1, FS_Interval
    <3> QED BY <3>1, <3>2, <3>3
  <2>3. \A i \in 1..Len(s) : Sorted(s, places)[i] = s[i]
    <3> HIDE DEF ith, card
    <3> QED BY <1>3, <2>1, <2>2
  <2> QED BY <1>5, <2>1, <2>3, SeqEqual
<1> QED BY <1>5, <1>6

-----------------------------------------------------------------------------
(* Types.  TypeOK is not inductive: that the page is told and the chain does *)
(* something for a request, and for its actions only, needs that the views   *)
(* and services were given one (Held), and that what is counted are places   *)
(* of a list (Numbered).                                                     *)

MaybeRequest == Requests \cup {Nobody}
Parts == UNION {[places -> Action] : places \in SUBSET Nat}

RunJobs == {"info", "encode", "keys", "push", "pushed"}
JobKinds == RunJobs \cup {"net", "reply", "decode", "abi", "args", "send", "transfer",
                          "transferred", "report"}
JobType == [kind : JobKinds, by : Requests, run : Nat, of : MaybeRequest, n : Nat, done : Parts,
            ok : BOOLEAN]
ModelType == [latest : MaybeRequest, toSign : MaybeRequest, actions : MaybeRequest,
              transfer : MaybeRequest, message : MaybeRequest]
DecodingType == [count : Nat, got : [Requests -> SUBSET Nat]]
SheetType == [up : BOOLEAN, pages : Seq(Action), length : Nat, viewed : BOOLEAN]
WindowType == [name : {"nopass", "message"}, of : MaybeRequest] \cup [name : {"prompt"}, of : Requests]
ExecsType == [array : Seq(Action), aliased : BOOLEAN, right : BOOLEAN, count : Nat, final : Parts]
RunType == [by : Requests, meant : Seq(Action), acts : Seq(Action), got : SUBSET Nat]
ActType == [by : Requests, meant : Seq(Action), done : Parts]

Typed ==
  /\ ChannelOK
  /\ models \in ModelType
  /\ decoding \in DecodingType
  /\ list \in Seq(Action) /\ sheet \in SheetType
  /\ windows \in Seq(WindowType) /\ nopass \in [right : BOOLEAN, tick : BOOLEAN]
  /\ text \in MaybeRequest
  /\ transfers \in [code : MaybeRequest, data : MaybeRequest]
  /\ execs \in ExecsType /\ runs \in Seq(RunType)
  /\ jobs \subseteq JobType
  /\ acts \in Seq(ActType)
  /\ crossed \in BOOLEAN

\* The latest message is the latest of its kind, and a message to authorize has
\* been received before there is a view of it.
Held ==
  /\ LET r == models.latest IN
     r # Nobody => /\ method[r] = "sign" => models.toSign = r
                   /\ method[r] = "actions" => models.actions = r
                   /\ method[r] = "transfer" => models.transfer = r
                   /\ method[r] = "message" => models.message = r
  /\ \A k \in DOMAIN windows : windows[k].name = "message" => models.message # Nobody /\ text # Nobody

\* A run asks for information once, before anything of it is encoded.
Numbered ==
  /\ \A r \in Requests : decoding.got[r] \subseteq 1..Size(r)
  /\ \A k \in DOMAIN runs : runs[k].got \subseteq DOMAIN runs[k].acts
  /\ \A j \in jobs :
       /\ j.kind = "decode" => j.n \in 1..Size(j.by)
       /\ j.kind \in RunJobs => j.run \in DOMAIN runs
       /\ j.kind = "encode" => j.n \in DOMAIN runs[j.run].acts
       /\ j.kind = "info" => /\ runs[j.run].got = {}
                             /\ \A i \in jobs : i.kind \in RunJobs /\ i.run = j.run => i = j

TypeInv == Typed /\ Held /\ Numbered

(* What the operators return *)

\* A list of actions, or some of it in its places, is what is signed or executed.
LEMMA PartsAre ==
  ASSUME NEW s \in Seq(Action)
  PROVE  /\ s \in Parts /\ <<>> \in Parts /\ <<>> \in Seq(Action)
         /\ \A places \in SUBSET DOMAIN s : Kept(s, places) \in Parts
<1>1. Len(s) \in Nat /\ s \in [1..Len(s) -> Action] /\ DOMAIN s = 1..Len(s)
  BY LenProperties
<1>2. s \in Parts
  <2>1. 1..Len(s) \in SUBSET Nat
    OBVIOUS
  <2> QED BY <1>1, <2>1 DEF Parts
<1>3. <<>> \in Seq(Action)
  OBVIOUS
<1>4. <<>> \in Parts
  <2>1. <<>> \in [1..0 -> Action] /\ 1..0 \in SUBSET Nat
    OBVIOUS
  <2> QED BY <2>1 DEF Parts
<1>5. ASSUME NEW places \in SUBSET DOMAIN s PROVE Kept(s, places) \in Parts
  <2>1. \A i \in places : s[i] \in Action
    BY <1>1
  <2>2. [i \in places |-> s[i]] \in [places -> Action] /\ places \in SUBSET Nat
    BY <1>1, <2>1
  <2> QED BY <2>2 DEF Kept, Parts
<1> QED BY <1>2, <1>3, <1>4, <1>5

\* A request as a whole is its actions, in their places.
LEMMA WholeHas ==
  ASSUME NEW m \in Requests
  PROVE  /\ Size(m) \in Nat \ {0}
         /\ DOMAIN Whole(m) = 1..Size(m) /\ Len(Whole(m)) = Size(m)
         /\ Kept(Whole(m), 1..Size(m)) = Whole(m)
         /\ Whole(m) \in Seq(Action)
<1>1. Size(m) \in Nat \ {0}
  BY ActionsAssumption DEF Size
<1>2. Whole(m) = [n \in 1..Size(m) |-> ActionOf(m, n)]
  BY NobodyAssumption DEF Whole
<1> DEFINE W == [n \in 1..Size(m) |-> ActionOf(m, n)]
<1>3. DOMAIN W = 1..Size(m) /\ Len(W) = Size(m) /\ Kept(W, 1..Size(m)) = W
  BY <1>1 DEF Kept
<1>4. W \in [1..Size(m) -> Action]
  BY DEF ActionOf, Action
<1>5. W \in Seq(Action)
  <2> HIDE DEF W
  <2> QED BY <1>1, <1>4, SeqDef
<1> QED BY <1>1, <1>2, <1>3, <1>5

\* Also that of nobody.
LEMMA WholeType ==
  ASSUME NEW m \in MaybeRequest
  PROVE  Whole(m) \in Seq(Action)
<1>1. CASE m = Nobody
  BY <1>1 DEF Whole
<1> QED BY <1>1, WholeHas DEF MaybeRequest

\* Nothing is a part.
LEMMA NoPart == <<>> \in Parts
<1>1. <<>> \in Seq(Action)
  OBVIOUS
<1> QED BY <1>1, PartsAre

\* Jobs as they are made, and what is written into them.
LEMMA JobTyped ==
  ASSUME NEW kind \in JobKinds, NEW r \in Requests, NEW run \in Nat
  PROVE  /\ Job(kind, r, run) \in JobType /\ Job(kind, r, run).kind = kind
         /\ Job(kind, r, run).run = run /\ Job(kind, r, run).by = r
         /\ \A n \in Nat : LET j == [Job(kind, r, run) EXCEPT !.n = n] IN
            j \in JobType /\ j.kind = kind /\ j.by = r /\ j.run = run /\ j.n = n
         /\ \A of \in MaybeRequest : LET j == [Job(kind, r, run) EXCEPT !.of = of] IN
            j \in JobType /\ j.kind = kind /\ j.by = r /\ j.of = of
         /\ \A done \in Parts : LET j == [Job(kind, r, run) EXCEPT !.done = done] IN
            j \in JobType /\ j.kind = kind /\ j.by = r /\ j.run = run /\ j.done = done
<1> HIDE DEF Parts
<1> QED BY NoPart DEF Job, JobType, JobKinds, MaybeRequest

\* A job that moves on keeps its other fields.
LEMMA JobMoves ==
  ASSUME NEW j \in JobType, NEW kind \in JobKinds, NEW i, i = [j EXCEPT !.kind = kind]
  PROVE  i \in JobType /\ i.kind = kind /\ i.run = j.run /\ i.by = j.by /\ i.done = j.done
<1> HIDE DEF Parts, MaybeRequest
<1> QED BY DEF JobType, JobKinds

\* Answers of the app are answers.
LEMMA AnswersAre ==
  ASSUME NEW r \in MaybeRequest, NEW clear \in BOOLEAN, NEW good \in BOOLEAN
  PROVE  /\ Good(r) \in Answer /\ Bad(r) \in Answer /\ [Good(r) EXCEPT !.clear = clear] \in Answer
         /\ [of |-> r, good |-> good, clear |-> clear] \in Answer
BY DEF Good, Bad, Answer, MaybeRequest

\* A reply is one call more.
LEMMA ReplyType ==
  ASSUME toPage \in Seq(Call), NEW r \in MaybeRequest, NEW a \in Answer, Reply(r, a)
  PROVE  toPage' \in Seq(Call)
<1>1. [serial |-> r, answer |-> a] \in Call
  BY DEF Call, MaybeRequest
<1> QED BY <1>1 DEF Reply

\* What the sheet shows, also over the pages of another list.
LEMMA ShownType ==
  ASSUME sheet \in SheetType, NEW actions \in Seq(Action)
  PROVE  Shown(actions) \in SheetType
<1> DEFINE old == sheet.pages
           pages == [i \in DOMAIN old |-> IF i <= Len(actions) THEN actions[i] ELSE old[i]]
<1>1. /\ old \in Seq(Action) /\ Len(old) \in Nat /\ DOMAIN old = 1..Len(old)
      /\ old \in [1..Len(old) -> Action]
      /\ Len(actions) \in Nat /\ actions \in [1..Len(actions) -> Action]
  BY LenProperties DEF SheetType
<1>2. pages \in [1..Len(old) -> Action]
  <2> HIDE DEF old
  <2>1. ASSUME NEW i \in 1..Len(old)
        PROVE  (IF i <= Len(actions) THEN actions[i] ELSE old[i]) \in Action
    BY <1>1
  <2> QED BY <1>1, <2>1
<1>3. pages \in Seq(Action)
  <2> HIDE DEF pages, old
  <2> QED BY <1>1, <1>2, SeqDef
<1> HIDE DEF pages
<1>4. Shown(actions) = [up |-> TRUE, pages |-> IF old = <<>> THEN actions ELSE pages,
                        length |-> Len(actions), viewed |-> sheet.viewed \/ Len(actions) = 1]
  BY DEF Shown, pages
<1> QED BY <1>1, <1>3, <1>4 DEF SheetType

\* A view that comes to the front is one of the views, with the others.
LEMMA UponIs ==
  ASSUME NEW S, NEW views \in Seq(S), NEW view \in S
  PROVE  /\ Upon(views, view) \in Seq(S)
         /\ \A k \in DOMAIN Upon(views, view) :
              Upon(views, view)[k] = view \/ \E i \in DOMAIN views : Upon(views, view)[k] = views[i]
<1> DEFINE there == {i \in DOMAIN views : views[i].name = view.name}
           i == CHOOSE i \in there : TRUE
           rest == IF there = {} THEN views ELSE RemoveAt(views, i)
<1>1. rest \in Seq(S) /\ \A k \in DOMAIN rest : \E n \in DOMAIN views : rest[k] = views[n]
  <2>1. CASE there = {}
    BY <2>1
  <2>2. CASE there # {}
    <3>1. i \in there /\ i \in 1..Len(views) /\ Len(views) \in Nat
      BY <2>2
    <3> HIDE DEF i
    <3> DEFINE front == SubSeq(views, 1, i - 1)
               back == SubSeq(views, i + 1, Len(views))
    <3>2. /\ front \in Seq(S) /\ Len(front) = i - 1
          /\ \A k \in 1..(i - 1) : front[k] = views[k]
      BY <3>1
    <3>3. /\ back \in Seq(S) /\ Len(back) = Len(views) - i
          /\ \A k \in 1..(Len(views) - i) : back[k] = views[i + k]
      BY <3>1
    <3>4. rest = front \o back
      BY <2>2 DEF RemoveAt
    <3> HIDE DEF front, back, rest
    <3>5. /\ rest \in Seq(S) /\ Len(rest) = Len(views) - 1
          /\ \A k \in 1..Len(rest) : rest[k] = IF k <= i - 1 THEN front[k] ELSE back[k - (i - 1)]
      BY <3>1, <3>2, <3>3, <3>4, ConcatProperties
    <3>6. ASSUME NEW k \in 1..Len(rest) PROVE \E n \in 1..Len(views) : rest[k] = views[n]
      <4>1. CASE k <= i - 1
        BY <3>1, <3>2, <3>5, <4>1
      <4>2. CASE ~ (k <= i - 1)
        <5>1. k - (i - 1) \in 1..(Len(views) - i)
          BY <3>1, <3>5, <4>2
        <5>2. rest[k] = views[i + (k - (i - 1))] /\ i + (k - (i - 1)) \in 1..Len(views)
          BY <3>1, <3>3, <3>5, <4>2, <5>1
        <5> QED BY <5>2
      <4> QED BY <4>1, <4>2
    <3> QED BY <3>5, <3>6
  <2> QED BY <2>1, <2>2
<1>2. Upon(views, view) = Append(rest, view)
  BY DEF Upon
<1> HIDE DEF rest
<1>3. /\ Append(rest, view) \in Seq(S) /\ DOMAIN Append(rest, view) = 1..(Len(rest) + 1)
      /\ DOMAIN rest = 1..Len(rest) /\ Len(rest) \in Nat
      /\ \A k \in 1..Len(rest) : Append(rest, view)[k] = rest[k]
      /\ Append(rest, view)[Len(rest) + 1] = view
  BY <1>1, AppendProperties
<1>4. ASSUME NEW k \in DOMAIN Append(rest, view)
      PROVE  Append(rest, view)[k] = view \/ \E n \in DOMAIN views : Append(rest, view)[k] = views[n]
  <2>1. k \in 1..Len(rest) \/ k = Len(rest) + 1
    BY <1>3
  <2> QED BY <1>1, <1>3, <2>1
<1> QED BY <1>2, <1>3, <1>4

(* Steps of the app *)

\* The page's own variables, but for the messages that were posted, stay.
PageWaits == UNCHANGED <<method, promise, result, callback>> /\ toNative' \in Seq(Requests)

\* What is held is held still when no view is added and no message is received.
LEMMA HeldKept ==
  ASSUME Held, UNCHANGED <<method, models, text>>,
         \A k \in DOMAIN windows' : \E i \in DOMAIN windows : windows'[k] = windows[i]
  PROVE  Held'
<1>1. UNCHANGED models.latest /\ UNCHANGED models.message
  OBVIOUS
<1>2. \A k \in DOMAIN windows' : windows'[k].name = "message" => models'.message # Nobody /\ text' # Nobody
  BY DEF Held
<1> QED BY <1>1, <1>2 DEF Held

\* What is numbered stays so when no action is sent to be decoded or encoded.
LEMMA NumberedKept ==
  ASSUME Numbered, UNCHANGED <<method, decoding, runs>>,
         NEW made, jobs' \subseteq jobs \cup made,
         \A j \in made : /\ j.kind \notin {"decode", "encode", "info"}
                         /\ j.kind \in RunJobs => \E q \in jobs : /\ q.kind \in RunJobs \ {"info"}
                                                                   /\ q.run = j.run
  PROVE  Numbered'
<1>1. \A r \in Requests : decoding'.got[r] \subseteq 1..Size(r)'
  BY DEF Numbered, Size
<1>2. \A k \in DOMAIN runs' : runs'[k].got \subseteq DOMAIN runs'[k].acts
  BY DEF Numbered
<1>3. ASSUME NEW j \in jobs'
      PROVE  /\ j.kind = "decode" => j.n \in 1..Size(j.by)'
             /\ j.kind \in RunJobs => j.run \in DOMAIN runs'
             /\ j.kind = "encode" => j.n \in DOMAIN runs'[j.run].acts
             /\ j.kind = "info" => runs'[j.run].got = {}
  BY <1>3 DEF Numbered, Size
<1>4. ASSUME NEW j \in jobs', j.kind = "info", NEW i \in jobs', i.kind \in RunJobs, i.run = j.run
      PROVE  i = j
  <2>1. j \in jobs
    BY <1>4
  <2>2. CASE i \in jobs
    BY <1>4, <2>1, <2>2 DEF Numbered
  <2>3. CASE i \in made
    <3>1. PICK q \in jobs : q.kind \in RunJobs \ {"info"} /\ q.run = i.run
      BY <1>4, <2>3
    <3>2. q = j
      BY <1>4, <2>1, <3>1 DEF Numbered
    <3> QED BY <1>4, <3>1, <3>2
  <2> QED BY <1>4, <2>2, <2>3
<1> QED BY <1>1, <1>2, <1>3, <1>4 DEF Numbered

\* Nor when only jobs end.
LEMMA NumberedStays ==
  ASSUME Numbered, UNCHANGED <<method, decoding, runs>>, jobs' \subseteq jobs
  PROVE  Numbered'
<1>1. PICK made : made = {}
  OBVIOUS
<1> QED BY <1>1, NumberedKept

\* The latest message, alone or with the latest of its kind.
LEMMA ModelsTyped ==
  ASSUME models \in ModelType, NEW r \in Requests
  PROVE  LET latest == [models EXCEPT !.latest = r]
             sign == [models EXCEPT !.latest = r, !.toSign = r]
             list_ == [models EXCEPT !.latest = r, !.actions = r]
             send == [models EXCEPT !.latest = r, !.transfer = r]
             read == [models EXCEPT !.latest = r, !.message = r] IN
         /\ latest \in ModelType /\ latest.latest = r /\ latest.message = models.message
         /\ sign \in ModelType /\ sign.latest = r /\ sign.toSign = r /\ sign.message = models.message
         /\ list_ \in ModelType /\ list_.latest = r /\ list_.actions = r /\ list_.message = models.message
         /\ send \in ModelType /\ send.latest = r /\ send.transfer = r /\ send.message = models.message
         /\ read \in ModelType /\ read.latest = r /\ read.message = r
BY DEF ModelType, MaybeRequest

\* A message that says nothing of the others is held.
LEMMA HeldLatest ==
  ASSUME Held, NEW r \in Requests, UNCHANGED <<method, text>>,
         models'.latest = r, models'.message = models.message \/ models'.message = r,
         method[r] = "sign" => models'.toSign = r,
         method[r] = "actions" => models'.actions = r,
         method[r] = "transfer" => models'.transfer = r,
         method[r] = "message" => models'.message = r,
         \A k \in DOMAIN windows' : windows'[k].name = "message" =>
            \E i \in DOMAIN windows : windows'[k] = windows[i]
  PROVE  Held'
<1>1. r # Nobody
  BY NobodyAssumption
<1>2. ASSUME NEW k \in DOMAIN windows', windows'[k].name = "message"
      PROVE  models'.message # Nobody /\ text' # Nobody
  BY <1>1, <1>2 DEF Held
<1> QED BY <1>1, <1>2 DEF Held

\* A message to authorize brings its view.
LEMMA AuthorizeTyped ==
  ASSUME TypeInv, PageWaits, NEW r \in Requests, NEW others \in Seq(WindowType),
         \A k \in DOMAIN others : \E i \in DOMAIN windows : others[k] = windows[i],
         method[r] = "message", AuthorizeMessage(r, others)
  PROVE  /\ models' \in ModelType /\ windows' \in Seq(WindowType) /\ text' \in MaybeRequest
         /\ toPage' \in Seq(Call)
         /\ Held'
<1>1. /\ models' \in ModelType /\ models'.latest = r /\ models'.message = r
      /\ text \in MaybeRequest /\ toPage \in Seq(Call) /\ method' = method /\ Held
  BY ModelsTyped DEF AuthorizeMessage, TypeInv, Typed, PageWaits, ChannelOK
<1>2. CASE Reply(r, Bad(r)) /\ windows' = others /\ UNCHANGED text
  <2>1. Bad(r) \in Answer
    BY AnswersAre DEF MaybeRequest
  <2>2. toPage' \in Seq(Call)
    BY <1>1, <1>2, <2>1, ReplyType DEF MaybeRequest
  <2>3. Held'
    BY <1>1, <1>2, HeldLatest
  <2> QED BY <1>1, <1>2, <2>2, <2>3
<1>3. CASE /\ windows' = Upon(others, View("message", r))
           /\ text' = IF text = Nobody THEN r ELSE text
           /\ UNCHANGED toPage
  <2>1. View("message", r) \in WindowType
    BY DEF View, WindowType, MaybeRequest
  <2>2. windows' \in Seq(WindowType)
    BY <1>3, <2>1, UponIs
  <2>3. text' \in MaybeRequest /\ text' # Nobody /\ r # Nobody
    BY <1>1, <1>3, NobodyAssumption DEF MaybeRequest
  <2>4. Held'
    BY <1>1, <2>3 DEF Held
  <2> QED BY <1>1, <1>3, <2>2, <2>3, <2>4
<1> QED BY <1>2, <1>3 DEF AuthorizeMessage

\* A message that is taken is one the page has posted.
LEMMA ReceiveTyped ==
  ASSUME TypeInv, NEW r \in Requests, Receive(r)
  PROVE  PageWaits
<1>1. toNative \in Seq(Requests) /\ toNative # <<>>
  BY DEF TypeInv, Typed, ChannelOK, Receive
<1>2. Tail(toNative) \in Seq(Requests)
  BY <1>1, HeadTailProperties
<1> QED BY <1>2 DEF Receive, PageWaits

\* Each kind of message.
LEMMA MessageTyped ==
  ASSUME TypeInv, NEW r \in Requests, Message(r)
  PROVE  TypeInv'
<1>1. PageWaits
  BY ReceiveTyped DEF Message
<1>2. ChannelOK' \/ toPage' \notin Seq(Call)
  BY <1>1 DEF PageWaits, TypeInv, Typed, ChannelOK
<1>3. models \in ModelType /\ Held /\ Numbered /\ toPage \in Seq(Call) /\ method' = method
  BY <1>1 DEF TypeInv, Typed, ChannelOK, PageWaits
<1>4. CASE Read(r)
  <2>1. models' = [models EXCEPT !.latest = r] /\ UNCHANGED <<windows, text, decoding, runs, jobs>>
        /\ method[r] \in {"read", "wallet"}
    BY <1>4 DEF Read, Latest
  <2>2. Held'
    BY <1>3, <2>1, ModelsTyped, HeldLatest
  <2>3. PICK clear \in BOOLEAN : Reply(r, [Good(r) EXCEPT !.clear = clear])
    BY <1>4 DEF Read
  <2>4. toPage' \in Seq(Call)
    BY <1>3, <2>3, AnswersAre, ReplyType DEF MaybeRequest
  <2>5. Numbered'
    BY <1>3, <2>1, NumberedStays
  <2>6. Typed'
    BY <1>2, <1>3, <1>4, <2>1, <2>4, ModelsTyped DEF Read, TypeInv, Typed
  <2> QED BY <2>2, <2>5, <2>6 DEF TypeInv
<1>5. CASE ReadNet(r)
  <2>1. /\ models' = [models EXCEPT !.latest = r] /\ UNCHANGED <<windows, text, decoding, runs>>
        /\ method[r] = "net" /\ jobs' = jobs \cup {Job("net", r, 0)}
    BY <1>5 DEF ReadNet, Latest
  <2>2. Held'
    BY <1>3, <2>1, ModelsTyped, HeldLatest
  <2>3. Job("net", r, 0) \in JobType /\ Job("net", r, 0).kind = "net"
    <3>1. "net" \in JobKinds
      BY DEF JobKinds
    <3> QED BY <3>1, JobTyped
  <2>4. Numbered'
    <3>1. \A j \in {Job("net", r, 0)} : j.kind = "net"
      BY <2>3
    <3>2. PICK made : made = {Job("net", r, 0)}
      OBVIOUS
    <3>3. \A j \in made : j.kind \notin {"decode", "encode", "info"} /\ j.kind \notin RunJobs
      BY <3>1, <3>2 DEF RunJobs
    <3> QED BY <1>3, <2>1, <3>2, <3>3, NumberedKept
  <2>5. Typed'
    BY <1>2, <1>3, <1>5, <2>1, <2>3, ModelsTyped DEF ReadNet, TypeInv, Typed
  <2> QED BY <2>2, <2>4, <2>5 DEF TypeInv
<1>6. CASE PushActions(r)
  <2>1. /\ models' = [models EXCEPT !.latest = r, !.actions = r]
        /\ UNCHANGED <<windows, text, decoding, runs, jobs>> /\ method[r] = "actions"
    BY <1>6 DEF PushActions
  <2>2. Held'
    BY <1>3, <2>1, ModelsTyped, HeldLatest
  <2>3. Numbered'
    BY <1>3, <2>1, NumberedStays
  <2>4. list' \in Seq(Action) /\ sheet' \in SheetType
    BY <1>6, WholeHas, ShownType DEF PushActions, TypeInv, Typed
  <2>5. execs' \in ExecsType
    <3>1. <<>> \in Seq(Action)
      OBVIOUS
    <3> HIDE DEF Parts
    <3> QED BY <1>6, <3>1 DEF PushActions, TypeInv, Typed, ExecsType
  <2>6. crossed' \in BOOLEAN
    BY <1>6 DEF PushActions, TypeInv, Typed, Open, Working
  <2>7. Typed'
    <3>1. models' \in ModelType
      BY <1>3, <2>1, ModelsTyped
    <3> QED BY <1>2, <1>3, <1>6, <2>1, <2>4, <2>5, <2>6, <3>1 DEF PushActions, TypeInv, Typed
  <2> QED BY <2>2, <2>3, <2>7 DEF TypeInv
<1>7. CASE PushTransfer(r)
  <2>1. /\ models' = [models EXCEPT !.latest = r, !.transfer = r]
        /\ UNCHANGED <<text, decoding, runs, jobs>> /\ method[r] = "transfer"
        /\ windows' = Append(windows, View("prompt", r))
    BY <1>7 DEF PushTransfer
  <2>2. View("prompt", r) \in WindowType /\ View("prompt", r).name = "prompt"
    BY DEF View, WindowType
  <2>3. /\ windows' \in Seq(WindowType)
        /\ \A k \in DOMAIN windows' : \/ windows'[k] = View("prompt", r)
                                      \/ \E i \in DOMAIN windows : windows'[k] = windows[i]
    <3>1. windows \in Seq(WindowType)
      BY DEF TypeInv, Typed
    <3>2. /\ windows' \in Seq(WindowType) /\ DOMAIN windows' = 1..(Len(windows) + 1)
          /\ Len(windows) \in Nat /\ DOMAIN windows = 1..Len(windows)
          /\ \A k \in 1..Len(windows) : windows'[k] = windows[k]
          /\ windows'[Len(windows) + 1] = View("prompt", r)
      BY <2>1, <2>2, <3>1, AppendProperties
    <3> QED BY <3>2
  <2>4. Held'
    BY <1>3, <2>1, <2>2, <2>3, ModelsTyped, HeldLatest
  <2>5. Numbered'
    BY <1>3, <2>1, NumberedStays
  <2>6. crossed' \in BOOLEAN
    BY <1>7 DEF PushTransfer, TypeInv, Typed, Open, Working
  <2>7. Typed'
    <3>1. models' \in ModelType
      BY <1>3, <2>1, ModelsTyped
    <3> QED BY <1>2, <1>3, <1>7, <2>1, <2>3, <2>6, <3>1 DEF PushTransfer, TypeInv, Typed
  <2> QED BY <2>4, <2>5, <2>7 DEF TypeInv
<1>8. CASE SignMessage(r)
  <2>1. /\ models' \in ModelType /\ windows' \in Seq(WindowType) /\ text' \in MaybeRequest
        /\ toPage' \in Seq(Call) /\ Held'
    BY <1>1, <1>8, AuthorizeTyped DEF SignMessage, TypeInv, Typed
  <2>2. Numbered'
    BY <1>3, <1>8, NumberedStays DEF SignMessage
  <2>3. crossed' \in BOOLEAN
    BY <1>8 DEF SignMessage, TypeInv, Typed, Open, Working
  <2>4. Typed'
    BY <1>2, <1>8, <2>1, <2>3 DEF SignMessage, TypeInv, Typed
  <2> QED BY <2>1, <2>2, <2>4 DEF TypeInv
<1>9. CASE Sign(r)
  <2> DEFINE made == {[Job("decode", r, 0) EXCEPT !.n = n] : n \in 1..Size(r)}
  <2>1. /\ models' = [models EXCEPT !.latest = r, !.toSign = r]
        /\ decoding' = [decoding EXCEPT !.count = 0, !.got[r] = {}]
        /\ UNCHANGED <<windows, text, runs>> /\ method[r] = "sign"
        /\ jobs' = jobs \cup made
    BY <1>9 DEF Sign
  <2>2. Held'
    BY <1>3, <2>1, ModelsTyped, HeldLatest
  <2>3. \A j \in made : j \in JobType /\ j.kind = "decode" /\ j.by = r /\ j.n \in 1..Size(r)
    <3>1. "decode" \in JobKinds
      BY DEF JobKinds
    <3>2. ASSUME NEW n \in 1..Size(r), NEW j, j = [Job("decode", r, 0) EXCEPT !.n = n]
          PROVE  j \in JobType /\ j.kind = "decode" /\ j.by = r /\ j.n = n
      BY <3>1, <3>2, JobTyped
    <3> QED BY <3>2
  <2>4. decoding' \in DecodingType /\ \A q \in Requests : decoding'.got[q] \in {{}, decoding.got[q]}
    BY <2>1 DEF TypeInv, Typed, DecodingType
  <2> HIDE DEF made
  <2>5. \A q : Size(q)' = Size(q)
    BY <1>3 DEF Size
  <2>6. Numbered'
    <3>1. \A q \in Requests : decoding'.got[q] \subseteq 1..Size(q)'
      BY <1>3, <2>4, <2>5 DEF Numbered
    <3>2. ASSUME NEW j \in jobs'
          PROVE  /\ j.kind = "decode" => j.n \in 1..Size(j.by)'
                 /\ j.kind \in RunJobs => j \in jobs
                 /\ j.kind \in {"encode", "info"} => j \in jobs
      BY <1>3, <2>1, <2>3, <2>5, <3>2 DEF Numbered, RunJobs
    <3> QED BY <1>3, <2>1, <3>1, <3>2 DEF Numbered
  <2>7. crossed' \in BOOLEAN
    BY <1>9 DEF Sign, TypeInv, Typed, Open, Working
  <2>8. Typed'
    <3>1. models' \in ModelType
      BY <1>3, <2>1, ModelsTyped
    <3> QED BY <1>2, <1>3, <1>9, <2>1, <2>3, <2>4, <2>7, <3>1 DEF Sign, TypeInv, Typed
  <2> QED BY <2>2, <2>6, <2>8 DEF TypeInv
<1> QED BY <1>4, <1>5, <1>6, <1>7, <1>8, <1>9 DEF Message

\* One job more, after another of the same run if it belongs to one.
LEMMA NumberedOne ==
  ASSUME Numbered, UNCHANGED <<method, decoding, runs>>, NEW i, jobs' \subseteq jobs \cup {i},
         i.kind \notin {"decode", "encode", "info"},
         i.kind \in RunJobs => \E q \in jobs : q.kind \in RunJobs \ {"info"} /\ q.run = i.run
  PROVE  Numbered'
<1>1. PICK made : made = {i}
  OBVIOUS
<1> QED BY <1>1, NumberedKept

\* What an answer writes keeps its type, and views and messages are left alone.
LEMMA AnswerFrame ==
  ASSUME TypeInv, PageWaits, UNCHANGED <<models, list, windows, nopass, text, crossed>>,
         decoding' \in DecodingType, sheet' \in SheetType, execs' \in ExecsType,
         transfers' \in [code : MaybeRequest, data : MaybeRequest],
         runs' \in Seq(RunType), acts' \in Seq(ActType), toPage' \in Seq(Call),
         jobs' \subseteq JobType, Numbered'
  PROVE  TypeInv'
<1>1. Held'
  BY HeldKept DEF TypeInv, PageWaits
<1>2. Typed'
  BY DEF TypeInv, Typed, PageWaits, ChannelOK
<1> QED BY <1>1, <1>2 DEF TypeInv

\* Answers that end a job, and may tell the page.
LEMMA EndTyped ==
  ASSUME TypeInv, PageWaits, NEW j \in jobs,
         NetAnswer(j) \/ AccountReply(j) \/ Executed(j) \/ Report(j) \/ Fail(j)
  PROVE  TypeInv'
<1>1. /\ j \in JobType /\ j.by \in MaybeRequest /\ j.of \in MaybeRequest /\ j.ok \in BOOLEAN
      /\ models.latest \in MaybeRequest /\ models.actions \in MaybeRequest
      /\ toPage \in Seq(Call) /\ NoSheet \in SheetType
  <2>1. NoSheet \in SheetType
    BY DEF NoSheet, SheetType
  <2>2. j \in JobType /\ models \in ModelType /\ toPage \in Seq(Call)
    BY DEF TypeInv, Typed, ChannelOK
  <2> QED BY <2>1, <2>2 DEF JobType, ModelType, MaybeRequest
<1>2. jobs' = jobs \ {j} /\ UNCHANGED <<models, decoding, list, windows, nopass, text, transfers, execs,
                                        runs, acts, crossed>>
      /\ sheet' \in {sheet, NoSheet}
  BY DEF NetAnswer, AccountReply, Executed, Report, Fail
<1>3. toPage' \in Seq(Call)
  <2>1. CASE NetAnswer(j)
    BY <1>1, <2>1, AnswersAre, ReplyType DEF NetAnswer
  <2>2. CASE Executed(j)
    <3>1. PICK clear \in BOOLEAN : Reply(models.actions, [of |-> j.by, good |-> j.ok, clear |-> clear])
      BY <2>2 DEF Executed
    <3> QED BY <1>1, <3>1, AnswersAre, ReplyType
  <2>3. CASE Report(j)
    <3>1. PICK good \in BOOLEAN, clear \in BOOLEAN :
            Reply(j.of, [of |-> j.by, good |-> good, clear |-> clear])
      BY <1>1, <2>3 DEF Report
    <3> QED BY <1>1, <3>1, AnswersAre, ReplyType
  <2>4. CASE AccountReply(j)
    BY <1>1, <2>4, AnswersAre, ReplyType DEF AccountReply
  <2>5. CASE Fail(j)
    BY <1>1, <2>5 DEF Fail
  <2> QED BY <2>1, <2>2, <2>3, <2>4, <2>5
<1>4. Numbered'
  BY <1>2, NumberedStays DEF TypeInv, PageWaits
<1>5. /\ decoding \in DecodingType /\ sheet \in SheetType /\ execs \in ExecsType
      /\ transfers \in [code : MaybeRequest, data : MaybeRequest]
      /\ runs \in Seq(RunType) /\ acts \in Seq(ActType) /\ jobs \subseteq JobType
  BY DEF TypeInv, Typed
<1> QED BY <1>1, <1>2, <1>3, <1>4, <1>5, AnswerFrame

\* Answers after which a request goes on to its next server, or its next step.
LEMMA NextTyped ==
  ASSUME TypeInv, PageWaits, NEW j \in jobs,
         \/ KeysAnswer(j) \/ ExecuteAtNode(j) \/ AccountAnswer(j) \/ AbiAnswer(j) \/ SetArgs(j)
         \/ Send(j) \/ TransferAtNode(j) \/ Transferred(j)
  PROVE  TypeInv'
<1>1. /\ j \in JobType /\ j.by \in Requests /\ j.run \in Nat /\ j.of \in MaybeRequest
      /\ j.done \in Parts
      /\ toPage \in Seq(Call) /\ decoding \in DecodingType /\ sheet \in SheetType
      /\ execs \in ExecsType /\ transfers \in [code : MaybeRequest, data : MaybeRequest]
      /\ runs \in Seq(RunType) /\ acts \in Seq(ActType) /\ jobs \subseteq JobType
      /\ models.transfer \in MaybeRequest /\ models.latest \in MaybeRequest /\ execs.final \in Parts
  <2>1. j \in JobType
    BY DEF TypeInv, Typed
  <2>2. execs.final \in Parts
    <3> HIDE DEF Parts
    <3> QED BY DEF TypeInv, Typed, ExecsType
  <2>3. models.transfer \in MaybeRequest /\ models.latest \in MaybeRequest
    BY DEF TypeInv, Typed, ModelType, MaybeRequest
  <2>4. j.by \in Requests /\ j.run \in Nat /\ j.of \in MaybeRequest /\ j.done \in Parts
    <3> HIDE DEF Parts, MaybeRequest
    <3> QED BY <2>1 DEF JobType
  <2> QED BY <2>1, <2>2, <2>3, <2>4 DEF TypeInv, Typed, ChannelOK
<1>2. UNCHANGED <<models, decoding, list, sheet, windows, nopass, text, execs, runs, crossed, toPage>>
  BY DEF KeysAnswer, ExecuteAtNode, AccountAnswer, AbiAnswer, SetArgs, Send, TransferAtNode, Transferred
<1>3. transfers' \in [code : MaybeRequest, data : MaybeRequest]
  <2>1. transfers' \in {transfers, [transfers EXCEPT !.code = models.transfer],
                        [transfers EXCEPT !.data = j.of]}
    BY DEF KeysAnswer, ExecuteAtNode, AccountAnswer, AbiAnswer, SetArgs, Send, TransferAtNode, Transferred
  <2> HIDE DEF MaybeRequest
  <2> QED BY <1>1, <2>1
<1>4. acts' \in Seq(ActType)
  <2>1. ASSUME NEW meant \in Seq(Action) PROVE Act(j.by, meant, j.done) \in ActType
    <3> HIDE DEF Parts
    <3> QED BY <1>1 DEF Act, ActType
  <2>2. CASE ExecuteAtNode(j)
    <3>1. j.run \in DOMAIN runs
      BY <2>2 DEF ExecuteAtNode, TypeInv, Numbered, RunJobs
    <3>2. runs[j.run].meant \in Seq(Action)
      <4>1. runs[j.run] \in RunType
        BY <1>1, <3>1
      <4> QED BY <4>1 DEF RunType
    <3>3. PICK act : act = Act(j.by, runs[j.run].meant, j.done)
      OBVIOUS
    <3>4. acts' = acts \/ acts' = Append(acts, act)
      BY <2>2, <3>3 DEF ExecuteAtNode
    <3>5. act \in ActType
      BY <2>1, <3>2, <3>3
    <3>6. acts \in Seq(ActType)
      BY <1>1
    <3>7. Append(acts, act) \in Seq(ActType)
      BY <3>5, <3>6
    <3> QED BY <3>4, <3>6, <3>7
  <2>3. CASE TransferAtNode(j)
    <3>1. Whole(j.by) \in Seq(Action)
      BY <1>1, WholeHas
    <3>2. PICK act : act = Act(j.by, Whole(j.by), j.done)
      OBVIOUS
    <3>3. acts' = acts \/ acts' = Append(acts, act)
      BY <2>3, <3>2 DEF TransferAtNode
    <3>4. act \in ActType
      BY <2>1, <3>1, <3>2
    <3>5. acts \in Seq(ActType)
      BY <1>1
    <3>6. Append(acts, act) \in Seq(ActType)
      BY <3>4, <3>5
    <3> QED BY <3>3, <3>5, <3>6
  <2>4. CASE UNCHANGED acts
    BY <1>1, <2>4
  <2> QED BY <2>2, <2>3, <2>4 DEF KeysAnswer, AccountAnswer, AbiAnswer, SetArgs, Send, Transferred
<1>5. \E i : /\ jobs' \subseteq jobs \cup {i} /\ i \in JobType
             /\ i.kind \notin {"decode", "encode", "info"}
             /\ i.kind \in RunJobs => \E q \in jobs : q.kind \in RunJobs \ {"info"} /\ q.run = i.run
  <2>1. CASE KeysAnswer(j)
    <3>1. PICK i : i = [Job("push", j.by, j.run) EXCEPT !.done = execs.final]
      OBVIOUS
    <3>2. "push" \in JobKinds
      BY DEF JobKinds, RunJobs
    <3>3. i \in JobType /\ i.kind = "push" /\ i.run = j.run
      BY <1>1, <3>1, <3>2, JobTyped
    <3>4. j.kind \in RunJobs \ {"info"} /\ jobs' \subseteq jobs \cup {i}
      BY <2>1, <3>1 DEF KeysAnswer, RunJobs
    <3> QED BY <3>3, <3>4
  <2>2. CASE ExecuteAtNode(j)
    <3>1. PICK ok \in BOOLEAN : jobs' = (jobs \ {j}) \cup {[j EXCEPT !.kind = "pushed", !.ok = ok]}
      BY <2>2 DEF ExecuteAtNode
    <3>2. PICK i : i = [j EXCEPT !.kind = "pushed", !.ok = ok]
      OBVIOUS
    <3>3. i \in JobType
      BY <1>1, <3>1, <3>2 DEF JobType, JobKinds, RunJobs
    <3>4. i.kind = "pushed" /\ i.run = j.run /\ i \in JobType
      BY <1>1, <3>1, <3>2, <3>3 DEF JobType
    <3>5. j.kind \in RunJobs \ {"info"} /\ jobs' \subseteq jobs \cup {i}
      BY <2>2, <3>1, <3>2 DEF ExecuteAtNode, RunJobs
    <3> QED BY <3>4, <3>5
  <2>3. CASE AbiAnswer(j)
    <3>1. PICK i : i = [j EXCEPT !.kind = "args"]
      OBVIOUS
    <3>2. "args" \in JobKinds
      BY DEF JobKinds
    <3>3. i \in JobType /\ i.kind = "args"
      BY <1>1, <3>1, <3>2, JobMoves
    <3>4. jobs' \subseteq jobs \cup {i}
      BY <2>3, <3>1 DEF AbiAnswer
    <3> QED BY <3>3, <3>4 DEF RunJobs
  <2>4. CASE Send(j)
    <3>1. PICK done : done = <<[code |-> transfers.code, data |-> transfers.data, n |-> 1]>>
      OBVIOUS
    <3>2. done \in Parts
      <4>1. [code |-> transfers.code, data |-> transfers.data, n |-> 1] \in Action
        BY <1>1 DEF Action, MaybeRequest
      <4>2. done \in Seq(Action)
        BY <3>1, <4>1
      <4> QED BY <4>2, PartsAre
    <3>3. PICK i : i = [Job("transfer", j.by, 0) EXCEPT !.done = done]
      OBVIOUS
    <3>4. "transfer" \in JobKinds
      BY DEF JobKinds
    <3>5. i \in JobType /\ i.kind = "transfer"
      BY <1>1, <3>2, <3>3, <3>4, JobTyped
    <3>6. jobs' \subseteq jobs \cup {i}
      BY <2>4, <3>1, <3>3 DEF Send
    <3> QED BY <3>5, <3>6 DEF RunJobs
  <2>5. CASE TransferAtNode(j)
    <3>1. PICK ok \in BOOLEAN : jobs' = (jobs \ {j}) \cup {[j EXCEPT !.kind = "transferred", !.ok = ok]}
      BY <2>5 DEF TransferAtNode
    <3>2. PICK i : i = [j EXCEPT !.kind = "transferred", !.ok = ok]
      OBVIOUS
    <3>3. i \in JobType
      BY <1>1, <3>1, <3>2 DEF JobType, JobKinds, RunJobs
    <3>4. i.kind = "transferred" /\ i \in JobType
      BY <1>1, <3>1, <3>2, <3>3 DEF JobType
    <3>5. jobs' \subseteq jobs \cup {i}
      BY <3>1, <3>2
    <3> QED BY <3>4, <3>5 DEF RunJobs
  <2>6. CASE SetArgs(j)
    <3>1. PICK i : i = [j EXCEPT !.kind = "send"]
      OBVIOUS
    <3>2. "send" \in JobKinds
      BY DEF JobKinds
    <3>3. i \in JobType /\ i.kind = "send"
      BY <1>1, <3>1, <3>2, JobMoves
    <3>4. jobs' \subseteq jobs \cup {i}
      BY <2>6, <3>1 DEF SetArgs
    <3> QED BY <3>3, <3>4 DEF RunJobs
  <2>7. CASE AccountAnswer(j)
    <3>1. PICK r \in MaybeRequest : r = models.latest
      BY <1>1
    <3>2. PICK i : i = [j EXCEPT !.kind = "reply", !.of = r]
      OBVIOUS
    <3>3. i \in JobType
      <4> HIDE DEF Parts, MaybeRequest
      <4> QED BY <1>1, <3>1, <3>2 DEF JobType, JobKinds
    <3>4. i.kind = "reply"
      BY <1>1, <3>2, <3>3 DEF JobType
    <3>5. jobs' \subseteq jobs \cup {i}
      BY <2>7, <3>1, <3>2 DEF AccountAnswer
    <3> QED BY <3>3, <3>4, <3>5 DEF RunJobs
  <2>8. CASE Transferred(j)
    <3>1. PICK r \in MaybeRequest : r = models.latest
      BY <1>1
    <3>2. PICK i : i = [j EXCEPT !.kind = "report", !.of = r]
      OBVIOUS
    <3>3. i \in JobType
      <4> HIDE DEF Parts, MaybeRequest
      <4> QED BY <1>1, <3>1, <3>2 DEF JobType, JobKinds
    <3>4. i.kind = "report"
      BY <1>1, <3>2, <3>3 DEF JobType
    <3>5. jobs' \subseteq jobs \cup {i}
      BY <2>8, <3>1, <3>2 DEF Transferred
    <3> QED BY <3>3, <3>4, <3>5 DEF RunJobs
  <2> QED BY <2>1, <2>2, <2>3, <2>4, <2>5, <2>6, <2>7, <2>8
<1>6. PICK i : /\ jobs' \subseteq jobs \cup {i} /\ i \in JobType
               /\ i.kind \notin {"decode", "encode", "info"}
               /\ i.kind \in RunJobs => \E q \in jobs : q.kind \in RunJobs \ {"info"} /\ q.run = i.run
  BY <1>5
<1>7. Numbered'
  BY <1>2, <1>6, NumberedOne DEF TypeInv, PageWaits
<1> QED BY <1>1, <1>2, <1>3, <1>4, <1>6, <1>7, AnswerFrame

\* An action that was decoded is one of its list.
LEMMA DecodeTyped ==
  ASSUME TypeInv, PageWaits, NEW j \in jobs, DecodeAnswer(j)
  PROVE  TypeInv'
<1> DEFINE old == decoding.got[j.by]
           got == old \cup {j.n}
<1>1. /\ j \in JobType /\ j.by \in Requests /\ j.n \in 1..Size(j.by)
      /\ decoding \in DecodingType /\ sheet \in SheetType
      /\ old \subseteq 1..Size(j.by) /\ Size(j.by) \in Nat
  <2>1. j \in JobType /\ j.kind = "decode" /\ Numbered /\ decoding \in DecodingType /\ sheet \in SheetType
    BY DEF DecodeAnswer, TypeInv, Typed
  <2>2. j.by \in Requests
    BY <2>1 DEF JobType
  <2> QED BY <2>1, <2>2, WholeHas DEF Numbered
<1>2. got \subseteq 1..Size(j.by) /\ got \subseteq Nat
  BY <1>1
<1>3. decoding' = [count |-> decoding.count + 1, got |-> [decoding.got EXCEPT ![j.by] = got]]
  BY DEF DecodeAnswer
<1> HIDE DEF got
<1>4. /\ decoding' \in DecodingType
      /\ \A r \in Requests : decoding'.got[r] = IF r = j.by THEN got ELSE decoding.got[r]
  BY <1>1, <1>2, <1>3 DEF DecodingType
<1>5. Sorted(Whole(j.by), got) \in Seq(Action)
  <2>1. PICK s : s = Whole(j.by)
    OBVIOUS
  <2>2. s \in Seq(Action) /\ got \in SUBSET (1..Len(s))
    BY <1>1, <1>2, <2>1, WholeHas
  <2>3. Sorted(s, got) \in Seq(Action)
    BY <2>2, SortedIs
  <2> QED BY <2>1, <2>3
<1>6. sheet' \in SheetType
  BY <1>1, <1>5, ShownType DEF DecodeAnswer, got
<1>7. Numbered'
  <2>1. UNCHANGED <<method, runs>> /\ jobs' \subseteq jobs
    BY DEF DecodeAnswer, PageWaits
  <2>2. \A r : Size(r)' = Size(r)
    BY <2>1 DEF Size
  <2>3. \A r \in Requests : decoding'.got[r] \subseteq 1..Size(r)'
    BY <1>2, <1>4, <2>2 DEF TypeInv, Numbered
  <2> QED BY <2>1, <2>2, <2>3 DEF TypeInv, Numbered
<1>8. /\ UNCHANGED <<models, list, windows, nopass, text, crossed, transfers, execs, runs, acts, toPage>>
      /\ jobs' \subseteq jobs
  BY DEF DecodeAnswer
<1>9. /\ execs \in ExecsType /\ transfers \in [code : MaybeRequest, data : MaybeRequest]
      /\ runs \in Seq(RunType) /\ acts \in Seq(ActType) /\ jobs \subseteq JobType /\ toPage \in Seq(Call)
  BY DEF TypeInv, Typed, ChannelOK
<1> QED BY <1>4, <1>6, <1>7, <1>8, <1>9, AnswerFrame

\* A place of a sequence is written over.
LEMMA RunTyped ==
  ASSUME runs \in Seq(RunType), NEW k \in DOMAIN runs, NEW run \in RunType, runs' = [runs EXCEPT ![k] = run]
  PROVE  /\ runs' \in Seq(RunType) /\ DOMAIN runs' = DOMAIN runs /\ runs'[k] = run
         /\ \A i \in DOMAIN runs : i # k => runs'[i] = runs[i]
<1>1. DOMAIN runs = 1..Len(runs)
  OBVIOUS
<1> HIDE DEF RunType
<1>2. runs' \in Seq(RunType)
  BY <1>1, ExceptSeq
<1> QED BY <1>2

\* With the chain's information, the actions that the service holds by now are
\* those of the run.
LEMMA InfoTyped ==
  ASSUME TypeInv, PageWaits, NEW j \in jobs, InfoAnswer(j)
  PROVE  TypeInv'
<1> DEFINE k == j.run
           made == {[Job("encode", j.by, k) EXCEPT !.n = n] : n \in DOMAIN execs.array}
           run == [runs[k] EXCEPT !.acts = execs.array]
<1>1. /\ j \in JobType /\ j.by \in Requests /\ k \in Nat /\ j.kind = "info"
      /\ k \in DOMAIN runs /\ runs[k].got = {} /\ runs \in Seq(RunType) /\ runs[k] \in RunType
      /\ \A i \in jobs : i.kind \in RunJobs /\ i.run = k => i = j
      /\ execs \in ExecsType /\ execs.array \in Seq(Action) /\ Numbered
  <2>1. /\ j \in JobType /\ j.kind = "info" /\ runs \in Seq(RunType) /\ execs \in ExecsType /\ Numbered
    BY DEF InfoAnswer, TypeInv, Typed
  <2>2. j.by \in Requests /\ k \in Nat
    BY <2>1 DEF JobType
  <2>3. execs.array \in Seq(Action)
    BY <2>1 DEF ExecsType
  <2>4. k \in DOMAIN runs /\ runs[k].got = {} /\ \A i \in jobs : i.kind \in RunJobs /\ i.run = k => i = j
    BY <2>1 DEF Numbered, RunJobs
  <2>5. runs[k] \in RunType
    BY <2>1, <2>4
  <2> QED BY <2>1, <2>2, <2>3, <2>4, <2>5
<1>2. run \in RunType /\ run.acts = execs.array /\ run.got = {}
  BY <1>1 DEF RunType
<1>3. runs' = [runs EXCEPT ![k] = run]
  BY DEF InfoAnswer
<1> HIDE DEF run
<1>4. /\ runs' \in Seq(RunType) /\ DOMAIN runs' = DOMAIN runs /\ runs'[k] = run
      /\ \A i \in DOMAIN runs : i # k => runs'[i] = runs[i]
  BY <1>1, <1>2, <1>3, RunTyped
<1>5. execs' \in ExecsType
  <2>1. execs' = [execs EXCEPT !.count = 0, !.final = <<>>]
    BY DEF InfoAnswer
  <2> HIDE DEF Parts
  <2> QED BY <1>1, <2>1, NoPart DEF ExecsType
<1>6. \A i \in made : i \in JobType /\ i.kind = "encode" /\ i.run = k /\ i.n \in DOMAIN execs.array
  <2>1. "encode" \in JobKinds
    BY DEF JobKinds, RunJobs
  <2>2. DOMAIN execs.array \subseteq Nat
    BY <1>1
  <2>3. ASSUME NEW n \in DOMAIN execs.array, NEW i, i = [Job("encode", j.by, k) EXCEPT !.n = n]
        PROVE  i \in JobType /\ i.kind = "encode" /\ i.run = k /\ i.n = n
    BY <1>1, <2>1, <2>2, <2>3, JobTyped
  <2> QED BY <2>3
<1>7. jobs' = (jobs \ {j}) \cup made
  BY DEF InfoAnswer
<1> HIDE DEF made
<1>8. Numbered'
  <2>1. UNCHANGED <<method, decoding>>
    BY DEF InfoAnswer, PageWaits
  <2>2. \A r : Size(r)' = Size(r)
    BY <2>1 DEF Size
  <2>3. \A i \in DOMAIN runs' : runs'[i].got \subseteq DOMAIN runs'[i].acts
    BY <1>1, <1>2, <1>4 DEF Numbered
  <2>4. ASSUME NEW i \in jobs'
        PROVE  /\ i.kind = "decode" => i.n \in 1..Size(i.by)'
               /\ i.kind \in RunJobs => i.run \in DOMAIN runs'
               /\ i.kind = "encode" => i.n \in DOMAIN runs'[i.run].acts
               /\ i.kind = "info" => /\ runs'[i.run].got = {}
                                     /\ \A q \in jobs' : q.kind \in RunJobs /\ q.run = i.run => q = i
    <3>1. CASE i \in made
      BY <1>1, <1>2, <1>4, <1>6, <3>1 DEF RunJobs
    <3>2. CASE i \in jobs \ {j}
      <4>1. i.kind \in RunJobs => i.run # k /\ i.run \in DOMAIN runs
        BY <1>1, <3>2 DEF Numbered
      <4>2. i.kind = "decode" => i.n \in 1..Size(i.by)'
        BY <1>1, <2>2, <3>2 DEF Numbered
      <4>3. i.kind = "encode" => i.n \in DOMAIN runs'[i.run].acts
        BY <1>1, <1>4, <3>2, <4>1 DEF Numbered, RunJobs
      <4>4. i.kind = "info" => /\ runs'[i.run].got = {}
                               /\ \A q \in jobs' : q.kind \in RunJobs /\ q.run = i.run => q = i
        BY <1>1, <1>4, <1>6, <1>7, <3>2, <4>1 DEF Numbered, RunJobs
      <4> QED BY <1>4, <4>1, <4>2, <4>3, <4>4
    <3> QED BY <1>7, <3>1, <3>2
  <2> QED BY <1>1, <2>1, <2>2, <2>3, <2>4 DEF Numbered
<1>9. /\ UNCHANGED <<models, decoding, list, sheet, windows, nopass, text, crossed, transfers, acts, toPage>>
  BY DEF InfoAnswer
<1>10. /\ transfers \in [code : MaybeRequest, data : MaybeRequest] /\ decoding \in DecodingType
       /\ sheet \in SheetType /\ acts \in Seq(ActType) /\ jobs \subseteq JobType /\ toPage \in Seq(Call)
  BY DEF TypeInv, Typed, ChannelOK
<1>11. jobs' \subseteq JobType
  BY <1>6, <1>7, <1>10
<1> QED BY <1>4, <1>5, <1>8, <1>9, <1>10, <1>11, AnswerFrame

\* An action that was encoded is one of its run.
LEMMA EncodeTyped ==
  ASSUME TypeInv, PageWaits, NEW j \in jobs, EncodeAnswer(j)
  PROVE  TypeInv'
<1> DEFINE k == j.run
           got == runs[k].got \cup {j.n}
           run == [runs[k] EXCEPT !.got = got]
           enough == execs.count + 1 = Len(execs.array)
           final == IF enough THEN Kept(runs[k].acts, got) ELSE execs.final
           i == Job("keys", j.by, k)
<1>1. /\ j \in JobType /\ j.by \in Requests /\ k \in Nat /\ j.kind = "encode"
      /\ k \in DOMAIN runs /\ runs \in Seq(RunType) /\ runs[k] \in RunType
      /\ j.n \in Nat /\ j.n \in DOMAIN runs[k].acts /\ runs[k].got \subseteq DOMAIN runs[k].acts
      /\ runs[k].acts \in Seq(Action) /\ runs[k].got \subseteq Nat
      /\ execs \in ExecsType /\ Numbered
  <2>1. /\ j \in JobType /\ j.kind = "encode" /\ runs \in Seq(RunType) /\ execs \in ExecsType /\ Numbered
    BY DEF EncodeAnswer, TypeInv, Typed
  <2>2. j.by \in Requests /\ k \in Nat /\ j.n \in Nat
    BY <2>1 DEF JobType
  <2>3. k \in DOMAIN runs /\ j.n \in DOMAIN runs[k].acts /\ runs[k].got \subseteq DOMAIN runs[k].acts
    BY <2>1 DEF Numbered, RunJobs
  <2>4. runs[k] \in RunType
    BY <2>1, <2>3
  <2>5. runs[k].acts \in Seq(Action) /\ runs[k].got \subseteq Nat
    BY <2>4 DEF RunType
  <2> QED BY <2>1, <2>2, <2>3, <2>4, <2>5
<1>2. /\ run \in RunType /\ run.acts = runs[k].acts /\ run.got = got
      /\ got \subseteq DOMAIN run.acts
  BY <1>1 DEF RunType
<1>3. /\ runs' = [runs EXCEPT ![k] = run]
      /\ execs' = [execs EXCEPT !.count = @ + 1, !.final = final]
      /\ jobs' \subseteq jobs \cup {i}
  BY DEF EncodeAnswer
<1>4. final \in Parts
  <2>1. execs.final \in Parts
    <3> HIDE DEF Parts
    <3> QED BY <1>1 DEF ExecsType
  <2>2. Kept(runs[k].acts, got) \in Parts
    <3> HIDE DEF got
    <3> QED BY <1>1, <1>2, PartsAre
  <2> QED BY <2>1, <2>2
<1> HIDE DEF run, final, i
<1>5. /\ runs' \in Seq(RunType) /\ DOMAIN runs' = DOMAIN runs /\ runs'[k] = run
      /\ \A q \in DOMAIN runs : q # k => runs'[q] = runs[q]
  BY <1>1, <1>2, <1>3, RunTyped
<1>6. execs' \in ExecsType
  <2> HIDE DEF Parts
  <2>1. execs.count \in Nat
    BY <1>1 DEF ExecsType
  <2>2. PICK count \in Nat : count = execs.count + 1
    BY <2>1
  <2>3. execs' = [execs EXCEPT !.count = count, !.final = final]
    BY <1>3, <2>2
  <2> QED BY <1>1, <1>4, <2>3 DEF ExecsType
<1>7. i \in JobType /\ i.kind = "keys" /\ i.run = k
  <2>1. "keys" \in JobKinds
    BY DEF JobKinds, RunJobs
  <2> QED BY <1>1, <2>1, JobTyped DEF i
<1>8. Numbered'
  <2>1. UNCHANGED <<method, decoding>>
    BY DEF EncodeAnswer, PageWaits
  <2>2. \A r : Size(r)' = Size(r)
    BY <2>1 DEF Size
  <2>3. \A q \in DOMAIN runs' : runs'[q].got \subseteq DOMAIN runs'[q].acts /\ runs'[q].acts = runs[q].acts
    BY <1>1, <1>2, <1>5 DEF Numbered
  <2>4. ASSUME NEW q \in jobs, q.kind = "info" PROVE q.run # k
    BY <1>1, <2>4 DEF Numbered, RunJobs
  <2>5. ASSUME NEW q \in jobs'
        PROVE  /\ q.kind = "decode" => q.n \in 1..Size(q.by)'
               /\ q.kind \in RunJobs => q.run \in DOMAIN runs'
               /\ q.kind = "encode" => q.n \in DOMAIN runs'[q.run].acts
               /\ q.kind = "info" => /\ runs'[q.run].got = {}
                                     /\ \A o \in jobs' : o.kind \in RunJobs /\ o.run = q.run => o = q
    <3>1. CASE q = i
      BY <1>1, <1>5, <1>7, <3>1
    <3>2. CASE q \in jobs
      <4>1. q.kind \in RunJobs => q.run \in DOMAIN runs'
        BY <1>1, <1>5, <3>2 DEF Numbered
      <4>2. q.kind = "decode" => q.n \in 1..Size(q.by)'
        BY <1>1, <2>2, <3>2 DEF Numbered
      <4>3. q.kind = "encode" => q.n \in DOMAIN runs'[q.run].acts
        BY <1>1, <2>3, <3>2, <4>1 DEF Numbered, RunJobs
      <4>4. q.kind = "info" => /\ runs'[q.run].got = {}
                               /\ \A o \in jobs' : o.kind \in RunJobs /\ o.run = q.run => o = q
        BY <1>1, <1>3, <1>5, <1>7, <2>4, <3>2 DEF Numbered, RunJobs
      <4> QED BY <4>1, <4>2, <4>3, <4>4
    <3> QED BY <1>3, <3>1, <3>2
  <2> QED BY <1>1, <2>1, <2>2, <2>3, <2>5 DEF Numbered
<1>9. /\ UNCHANGED <<models, decoding, list, sheet, windows, nopass, text, crossed, transfers, acts, toPage>>
  BY DEF EncodeAnswer
<1>10. /\ transfers \in [code : MaybeRequest, data : MaybeRequest] /\ decoding \in DecodingType
       /\ sheet \in SheetType /\ acts \in Seq(ActType) /\ jobs \subseteq JobType /\ toPage \in Seq(Call)
  BY DEF TypeInv, Typed, ChannelOK
<1>11. jobs' \subseteq JobType
  BY <1>3, <1>7, <1>10
<1> QED BY <1>5, <1>6, <1>8, <1>9, <1>10, <1>11, AnswerFrame

(* Touches                                                                  *)

\* What a touch writes keeps its type; the lists that were collected are left alone.
LEMMA TouchFrame ==
  ASSUME TypeInv, PageWaits, UNCHANGED <<decoding, list, transfers>>,
         models' \in ModelType, sheet' \in SheetType, windows' \in Seq(WindowType),
         nopass' \in [right : BOOLEAN, tick : BOOLEAN], text' \in MaybeRequest,
         execs' \in ExecsType, runs' \in Seq(RunType), jobs' \subseteq JobType,
         acts' \in Seq(ActType), crossed' \in BOOLEAN, toPage' \in Seq(Call),
         Held', Numbered'
  PROVE  TypeInv'
BY DEF TypeInv, Typed, PageWaits, ChannelOK

\* The views without the topmost.
LEMMA FrontIs ==
  ASSUME NEW S, NEW s \in Seq(S), s # <<>>
  PROVE  /\ Front(s) \in Seq(S) /\ Last(s) \in S
         /\ \A k \in DOMAIN Front(s) : \E i \in DOMAIN s : Front(s)[k] = s[i]
         /\ \E i \in DOMAIN s : Last(s) = s[i]
<1>1. Len(s) \in Nat /\ Len(s) # 0 /\ DOMAIN s = 1..Len(s)
  BY EmptySeq
<1>2. /\ SubSeq(s, 1, Len(s) - 1) \in Seq(S) /\ Len(SubSeq(s, 1, Len(s) - 1)) = Len(s) - 1
      /\ \A k \in 1..(Len(s) - 1) : SubSeq(s, 1, Len(s) - 1)[k] = s[k]
  BY <1>1
<1>3. DOMAIN SubSeq(s, 1, Len(s) - 1) = 1..(Len(s) - 1)
  BY <1>2
<1> QED BY <1>1, <1>2, <1>3 DEF Front, Last

\* A list is executed once more: a run of its own, which asks for information.
LEMMA ExecuteTyped ==
  ASSUME TypeInv, PageWaits, UNCHANGED decoding, NEW meant \in Seq(Action),
         models.actions \in Requests, Execute(meant)
  PROVE  /\ execs' \in ExecsType /\ runs' \in Seq(RunType) /\ jobs' \subseteq JobType
         /\ crossed' \in BOOLEAN /\ Numbered'
<1> DEFINE k == Len(runs) + 1
           run == [by |-> models.actions, meant |-> meant, acts |-> <<>>, got |-> {}]
           i == Job("info", models.actions, k)
<1>1. /\ runs \in Seq(RunType) /\ execs \in ExecsType /\ list \in Seq(Action)
      /\ jobs \subseteq JobType /\ nopass.right \in BOOLEAN /\ crossed \in BOOLEAN /\ Numbered
  BY DEF TypeInv, Typed
<1>2. Len(runs) \in Nat /\ k \in Nat /\ DOMAIN runs = 1..Len(runs)
  BY <1>1
<1>3. execs' \in ExecsType
  <2>1. execs' = [execs EXCEPT !.array = list, !.aliased = TRUE, !.right = nopass.right]
    BY DEF Execute
  <2> HIDE DEF Parts
  <2> QED BY <1>1, <2>1 DEF ExecsType
<1>4. run \in RunType /\ run.got = {}
  <2>1. <<>> \in Seq(Action)
    OBVIOUS
  <2> QED BY <2>1 DEF RunType
<1>5. i \in JobType /\ i.kind = "info" /\ i.run = k
  <2>1. "info" \in JobKinds
    BY DEF JobKinds, RunJobs
  <2> QED BY <1>2, <2>1, JobTyped
<1>6. runs' = Append(runs, run) /\ jobs' = jobs \cup {i}
  BY DEF Execute
<1> HIDE DEF run, i
<1>7. /\ runs' \in Seq(RunType) /\ DOMAIN runs' = 1..k /\ runs'[k] = run
      /\ \A q \in DOMAIN runs : runs'[q] = runs[q]
  BY <1>1, <1>2, <1>4, <1>6, AppendProperties
<1>8. jobs' \subseteq JobType
  BY <1>1, <1>5, <1>6
<1>9. crossed' \in BOOLEAN
  BY <1>1 DEF Execute, Working
<1>10. Numbered'
  <2>1. UNCHANGED <<method, decoding>>
    BY DEF PageWaits
  <2>2. \A r : Size(r)' = Size(r)
    BY <2>1 DEF Size
  <2>3. \A q \in DOMAIN runs' : runs'[q].got \subseteq DOMAIN runs'[q].acts
    <3>1. \A q \in DOMAIN runs' : q \in DOMAIN runs \/ q = k
      BY <1>2, <1>7
    <3> QED BY <1>1, <1>4, <1>7, <3>1 DEF Numbered
  <2>4. \A q \in jobs : q.kind \in RunJobs => q.run \in DOMAIN runs /\ q.run # k
    BY <1>1, <1>2 DEF Numbered
  <2>5. ASSUME NEW q \in jobs'
        PROVE  /\ q.kind = "decode" => q.n \in 1..Size(q.by)'
               /\ q.kind \in RunJobs => q.run \in DOMAIN runs'
               /\ q.kind = "encode" => q.n \in DOMAIN runs'[q.run].acts
               /\ q.kind = "info" => /\ runs'[q.run].got = {}
                                     /\ \A o \in jobs' : o.kind \in RunJobs /\ o.run = q.run => o = q
    <3>1. CASE q = i
      BY <1>2, <1>4, <1>5, <1>6, <1>7, <2>4, <3>1
    <3>2. CASE q \in jobs
      <4>1. q.kind \in RunJobs => q.run \in DOMAIN runs /\ q.run \in DOMAIN runs'
        BY <1>2, <1>7, <2>4, <3>2
      <4>2. q.kind = "decode" => q.n \in 1..Size(q.by)'
        BY <1>1, <2>2, <3>2 DEF Numbered
      <4>3. q.kind = "encode" => q.n \in DOMAIN runs'[q.run].acts
        BY <1>1, <1>7, <3>2, <4>1 DEF Numbered, RunJobs
      <4>4. q.kind = "info" => /\ runs'[q.run].got = {}
                               /\ \A o \in jobs' : o.kind \in RunJobs /\ o.run = q.run => o = q
        BY <1>1, <1>5, <1>6, <1>7, <2>4, <3>2, <4>1 DEF Numbered, RunJobs
      <4> QED BY <4>1, <4>2, <4>3, <4>4
    <3> QED BY <1>6, <3>1, <3>2
  <2> QED BY <1>1, <2>1, <2>2, <2>3, <2>5 DEF Numbered
<1> QED BY <1>3, <1>7, <1>8, <1>9, <1>10

\* The signature asked for last is given to the latest message.
LEMMA SignedTyped ==
  ASSUME TypeInv, models.toSign \in Requests, NEW meant \in Seq(Action), SignActions(meant)
  PROVE  execs' \in ExecsType /\ acts' \in Seq(ActType) /\ toPage' \in Seq(Call)
<1> DEFINE r == models.toSign
<1>1. /\ execs \in ExecsType /\ acts \in Seq(ActType) /\ toPage \in Seq(Call)
      /\ nopass.right \in BOOLEAN /\ models.latest \in MaybeRequest
  BY DEF TypeInv, Typed, ChannelOK, ModelType
<1>2. Whole(r) \in Seq(Action) /\ Whole(r) \in Parts
  BY WholeHas, PartsAre
<1>3. execs' \in ExecsType
  <2>1. PICK array \in Seq(Action) : array = Whole(r)
    BY <1>2
  <2>2. execs' = [execs EXCEPT !.array = array, !.aliased = FALSE, !.right = nopass.right]
    BY <2>1 DEF SignActions
  <2> HIDE DEF Parts
  <2> QED BY <1>1, <2>2 DEF ExecsType
<1>4. acts' \in Seq(ActType)
  <2>1. PICK act : act = Act(r, meant, Whole(r))
    OBVIOUS
  <2>2. act \in ActType
    <3> HIDE DEF Parts
    <3> QED BY <1>2, <2>1 DEF Act, ActType
  <2>3. Append(acts, act) \in Seq(ActType)
    BY <1>1, <2>2
  <2> QED BY <1>1, <2>1, <2>3 DEF SignActions
<1>5. toPage' \in Seq(Call)
  <2>1. PICK who \in MaybeRequest : who = IF nopass.right THEN r ELSE Nobody
    BY DEF MaybeRequest
  <2>2. Good(who) \in Answer /\ Reply(models.latest, Good(who))
    BY <2>1, AnswersAre DEF SignActions
  <2> QED BY <1>1, <2>2, ReplyType
<1> QED BY <1>3, <1>4, <1>5

\* What is confirmed is what the latest message asks for.
LEMMA ConfirmedTyped ==
  ASSUME TypeInv, PageWaits, UNCHANGED decoding, NEW meant \in Seq(Action),
         NEW others \in Seq(WindowType),
         \A k \in DOMAIN others : \E i \in DOMAIN windows : others[k] = windows[i],
         Confirmed(meant, others)
  PROVE  /\ models' \in ModelType /\ windows' \in Seq(WindowType) /\ text' \in MaybeRequest
         /\ execs' \in ExecsType /\ runs' \in Seq(RunType) /\ jobs' \subseteq JobType
         /\ acts' \in Seq(ActType) /\ crossed' \in BOOLEAN /\ toPage' \in Seq(Call)
         /\ Held' /\ Numbered'
<1> DEFINE r == models.latest
           kind == IF r = Nobody THEN "none" ELSE method[r]
<1>1. /\ models \in ModelType /\ text \in MaybeRequest /\ execs \in ExecsType
      /\ runs \in Seq(RunType) /\ jobs \subseteq JobType /\ acts \in Seq(ActType)
      /\ crossed \in BOOLEAN /\ toPage \in Seq(Call) /\ Held /\ Numbered
      /\ method' = method
  BY DEF TypeInv, Typed, ChannelOK, PageWaits
<1>2. r \in MaybeRequest
  BY <1>1 DEF ModelType
<1>3. kind # "none" => r \in Requests /\ kind = method[r]
  BY <1>2 DEF MaybeRequest
<1>4. CASE kind = "sign" /\ SignActions(meant) /\ windows' = others
  <2>1. models.toSign \in Requests
    BY <1>1, <1>3, <1>4, NobodyAssumption DEF Held
  <2>2. execs' \in ExecsType /\ acts' \in Seq(ActType) /\ toPage' \in Seq(Call)
    BY <1>4, <2>1, SignedTyped
  <2>3. UNCHANGED <<models, text, runs, jobs, crossed>>
    BY <1>4 DEF SignActions
  <2>4. Held'
    BY <1>1, <1>4, <2>3, HeldKept
  <2>5. Numbered'
    BY <1>1, <2>3, NumberedStays
  <2> QED BY <1>1, <1>4, <2>2, <2>3, <2>4, <2>5
<1>5. CASE kind = "actions" /\ Execute(meant) /\ windows' = others
  <2>1. models.actions \in Requests
    BY <1>1, <1>3, <1>5, NobodyAssumption DEF Held
  <2>2. /\ execs' \in ExecsType /\ runs' \in Seq(RunType) /\ jobs' \subseteq JobType
        /\ crossed' \in BOOLEAN /\ Numbered'
    BY <1>5, <2>1, ExecuteTyped
  <2>3. UNCHANGED <<models, text, acts, toPage>>
    BY <1>5 DEF Execute
  <2>4. Held'
    BY <1>1, <1>5, <2>3, HeldKept
  <2> QED BY <1>1, <1>5, <2>2, <2>3, <2>4
<1>6. CASE /\ kind = "message" /\ AuthorizeMessage(r, others)
           /\ UNCHANGED <<execs, runs, jobs, acts, crossed>>
  <2>1. /\ models' \in ModelType /\ windows' \in Seq(WindowType) /\ text' \in MaybeRequest
        /\ toPage' \in Seq(Call) /\ Held'
    BY <1>3, <1>6, AuthorizeTyped
  <2>2. Numbered'
    BY <1>1, <1>6, NumberedStays
  <2> QED BY <1>1, <1>6, <2>1, <2>2
<1>7. CASE windows' = others /\ UNCHANGED <<models, execs, text, runs, jobs, acts, crossed, toPage>>
  <2>1. Held'
    BY <1>1, <1>7, HeldKept
  <2>2. Numbered'
    BY <1>1, <1>7, NumberedStays
  <2> QED BY <1>1, <1>7, <2>1, <2>2
<1> QED BY <1>4, <1>5, <1>6, <1>7 DEF Confirmed

\* The sheet and its password.
LEMMA SheetTyped ==
  ASSUME TypeInv, PageWaits,
         \/ LookAtAll \/ ConfirmSheet \/ CloseSheet \/ HideSheet
         \/ \E right, tick \in BOOLEAN : TypePassword(right, tick)
         \/ CancelPassword \/ ConfirmPassword
  PROVE  TypeInv'
<1>1. /\ models \in ModelType /\ text \in MaybeRequest /\ execs \in ExecsType
      /\ runs \in Seq(RunType) /\ jobs \subseteq JobType /\ acts \in Seq(ActType)
      /\ crossed \in BOOLEAN /\ toPage \in Seq(Call) /\ Held /\ Numbered
      /\ sheet \in SheetType /\ windows \in Seq(WindowType)
      /\ nopass \in [right : BOOLEAN, tick : BOOLEAN] /\ method' = method
  BY DEF TypeInv, Typed, ChannelOK, PageWaits
<1>2. sheet.pages \in Seq(Action) /\ models.latest \in MaybeRequest
  BY <1>1 DEF SheetType, ModelType
<1>3. NoSheet \in SheetType /\ NoPass \in [right : BOOLEAN, tick : BOOLEAN]
  <2>1. <<>> \in Seq(Action)
    OBVIOUS
  <2> QED BY <2>1 DEF NoSheet, NoPass, SheetType
<1>4. ASSUME NEW other, windows # <<>>, other = Front(windows)
      PROVE  /\ other \in Seq(WindowType)
             /\ \A k \in DOMAIN other : \E i \in DOMAIN windows : other[k] = windows[i]
  <2>1. /\ Front(windows) \in Seq(WindowType) /\ Last(windows) \in WindowType
        /\ \A k \in DOMAIN Front(windows) : \E i \in DOMAIN windows : Front(windows)[k] = windows[i]
        /\ \E i \in DOMAIN windows : Last(windows) = windows[i]
    <3>1. windows \in Seq(WindowType) /\ windows # <<>>
      BY <1>1, <1>4
    <3> QED BY <3>1, FrontIs
  <2> QED BY <1>4, <2>1
<1>5. CASE LookAtAll \/ HideSheet
  <2>1. sheet' \in SheetType
    BY <1>1, <1>5 DEF LookAtAll, HideSheet, SheetType
  <2>2. UNCHANGED <<models, windows, nopass, text, execs, runs, jobs, acts, crossed, toPage,
                    decoding, list, transfers>>
    BY <1>5 DEF LookAtAll, HideSheet
  <2>3. Held' /\ Numbered'
    BY <1>1, <2>2, HeldKept, NumberedStays
  <2> QED BY <1>1, <2>1, <2>2, <2>3, TouchFrame
<1>6. CASE CloseSheet
  <2>1. UNCHANGED <<models, windows, nopass, text, execs, runs, jobs, acts, crossed,
                    decoding, list, transfers>> /\ sheet' = NoSheet
    BY <1>6 DEF CloseSheet
  <2>2. Reply(models.latest, Bad(models.latest)) /\ Bad(models.latest) \in Answer
    BY <1>2, <1>6, AnswersAre DEF CloseSheet
  <2>3. toPage' \in Seq(Call)
    BY <1>1, <1>2, <2>2, ReplyType
  <2>4. Held' /\ Numbered'
    BY <1>1, <2>1, HeldKept, NumberedStays
  <2> QED BY <1>1, <1>3, <2>1, <2>3, <2>4, TouchFrame
<1>7. CASE \E right, tick \in BOOLEAN : TypePassword(right, tick)
  <2>1. PICK right \in BOOLEAN, tick \in BOOLEAN : TypePassword(right, tick)
    BY <1>7
  <2>2. UNCHANGED <<models, windows, sheet, text, execs, runs, jobs, acts, crossed, toPage,
                    decoding, list, transfers>> /\ nopass' = [right |-> right, tick |-> tick]
    BY <2>1 DEF TypePassword
  <2>3. Held' /\ Numbered'
    BY <1>1, <2>2, HeldKept, NumberedStays
  <2> QED BY <1>1, <2>2, <2>3, TouchFrame
<1>8. CASE CancelPassword
  <2>1. UNCHANGED <<models, sheet, text, execs, runs, jobs, acts, crossed, toPage,
                    decoding, list, transfers>>
        /\ windows # <<>> /\ windows' = Front(windows)
    BY <1>8 DEF CancelPassword, OnTop
  <2>2. nopass' \in [right : BOOLEAN, tick : BOOLEAN]
    BY <1>1, <1>3, <1>8 DEF CancelPassword, NopassGone
  <2>3. Held' /\ Numbered'
    BY <1>1, <1>4, <2>1, HeldKept, NumberedStays
  <2> QED BY <1>1, <1>4, <2>1, <2>2, <2>3, TouchFrame
<1>9. CASE ConfirmPassword
  <2>1. /\ windows # <<>> /\ Confirmed(sheet.pages, Front(windows)) /\ sheet' = NoSheet
        /\ UNCHANGED <<decoding, list, transfers>>
    BY <1>9 DEF ConfirmPassword, OnTop
  <2>2. nopass' \in [right : BOOLEAN, tick : BOOLEAN]
    BY <1>1, <1>3, <1>9 DEF ConfirmPassword, NopassGone
  <2>3. PICK others : others = Front(windows)
    OBVIOUS
  <2> QED BY <1>2, <1>3, <1>4, <2>1, <2>2, <2>3, ConfirmedTyped, TouchFrame
<1>10. CASE ConfirmSheet
  <2>1. sheet' \in SheetType /\ UNCHANGED <<decoding, list, nopass, transfers>>
    BY <1>1, <1>3, <1>10 DEF ConfirmSheet
  <2>2. CASE Confirmed(sheet.pages, windows)
    BY <1>1, <1>2, <2>1, <2>2, ConfirmedTyped, TouchFrame
  <2>3. CASE /\ windows' = <<View("nopass", Nobody)>>
             /\ UNCHANGED <<models, execs, text, runs, jobs, acts, crossed, toPage>>
    <3>1. View("nopass", Nobody) \in WindowType /\ View("nopass", Nobody).name = "nopass"
      BY DEF View, WindowType, MaybeRequest
    <3>2. windows' \in Seq(WindowType)
      BY <2>3, <3>1
    <3>3. Held'
      BY <1>1, <2>3, <3>1 DEF Held
    <3>4. Numbered'
      BY <1>1, <2>1, <2>3, NumberedStays
    <3> QED BY <1>1, <2>1, <2>3, <3>2, <3>3, <3>4, TouchFrame
  <2> QED BY <1>10, <2>2, <2>3 DEF ConfirmSheet
<1> QED BY <1>5, <1>6, <1>7, <1>8, <1>9, <1>10

\* The prompt of a transfer, and the view of a message.
LEMMA ViewTyped ==
  ASSUME TypeInv, PageWaits,
         PromptRefused \/ PromptCancelled \/ PromptConfirmed \/ LeaveMessage \/ ConfirmMessage
  PROVE  TypeInv'
<1>1. /\ models \in ModelType /\ text \in MaybeRequest /\ execs \in ExecsType
      /\ runs \in Seq(RunType) /\ jobs \subseteq JobType /\ acts \in Seq(ActType)
      /\ crossed \in BOOLEAN /\ toPage \in Seq(Call) /\ Held /\ Numbered
      /\ sheet \in SheetType /\ windows \in Seq(WindowType)
      /\ nopass \in [right : BOOLEAN, tick : BOOLEAN] /\ method' = method
  BY DEF TypeInv, Typed, ChannelOK, PageWaits
<1>2. models.latest \in MaybeRequest /\ models.transfer \in MaybeRequest /\ models.message \in MaybeRequest
  BY <1>1 DEF ModelType
<1>3. /\ windows # <<>> /\ windows' = Front(windows)
      /\ UNCHANGED <<models, sheet, nopass, text, execs, runs, crossed, decoding, list, transfers>>
  BY DEF PromptRefused, PromptCancelled, PromptConfirmed, LeaveMessage, ConfirmMessage, OnTop
<1>4. /\ windows' \in Seq(WindowType) /\ Last(windows) \in WindowType
      /\ \A k \in DOMAIN windows' : \E i \in DOMAIN windows : windows'[k] = windows[i]
      /\ \E i \in DOMAIN windows : Last(windows) = windows[i]
  <2>1. /\ Front(windows) \in Seq(WindowType) /\ Last(windows) \in WindowType
        /\ \A k \in DOMAIN Front(windows) : \E i \in DOMAIN windows : Front(windows)[k] = windows[i]
        /\ \E i \in DOMAIN windows : Last(windows) = windows[i]
    BY <1>1, <1>3, FrontIs
  <2> QED BY <1>3, <2>1
<1>5. Held'
  BY <1>1, <1>3, <1>4, HeldKept
<1>6. ASSUME Reply(models.latest, Bad(models.latest)) PROVE toPage' \in Seq(Call)
  <2>1. Bad(models.latest) \in Answer
    BY <1>2, AnswersAre
  <2> QED BY <1>1, <1>2, <1>6, <2>1, ReplyType
<1>7. CASE PromptRefused \/ LeaveMessage \/ PromptCancelled
  <2>1. UNCHANGED <<jobs, acts>> /\ toPage' \in Seq(Call)
    BY <1>1, <1>6, <1>7 DEF PromptRefused, LeaveMessage, PromptCancelled
  <2>2. Numbered'
    BY <1>1, <1>3, <2>1, NumberedStays
  <2> QED BY <1>1, <1>3, <1>4, <1>5, <2>1, <2>2, TouchFrame
<1>8. CASE PromptConfirmed
  <2> DEFINE of == Last(windows).of
  <2>1. Last(windows).name = "prompt" /\ UNCHANGED <<acts, toPage>>
    BY <1>8 DEF PromptConfirmed, OnTop
  <2>2. of \in Requests
    BY <1>4, <2>1 DEF WindowType
  <2>3. PICK i : i = [Job("abi", of, 0) EXCEPT !.of = models.transfer]
    OBVIOUS
  <2>4. "abi" \in JobKinds
    BY DEF JobKinds
  <2>5. i \in JobType /\ i.kind = "abi"
    <3> HIDE DEF of
    <3> QED BY <1>2, <2>2, <2>3, <2>4, JobTyped
  <2>6. jobs' = jobs \cup {i}
    BY <1>8, <2>3 DEF PromptConfirmed
  <2>7. Numbered'
    <3>1. "abi" \notin {"decode", "encode", "info"} /\ "abi" \notin RunJobs
      BY DEF RunJobs
    <3> QED BY <1>1, <1>3, <2>5, <2>6, <3>1, NumberedOne
  <2> QED BY <1>1, <1>3, <1>4, <1>5, <2>1, <2>5, <2>6, <2>7, TouchFrame
<1>9. CASE ConfirmMessage
  <2>1. UNCHANGED jobs /\ Last(windows).name = "message"
    BY <1>9 DEF ConfirmMessage, OnTop
  <2>2. models.message \in Requests
    BY <1>1, <1>2, <1>4, <2>1 DEF Held, MaybeRequest
  <2>3. Numbered'
    BY <1>1, <1>3, <2>1, NumberedStays
  <2>4. acts' \in Seq(ActType) /\ toPage' \in Seq(Call)
    <3>1. CASE UNCHANGED acts /\ Reply(models.latest, Bad(models.latest))
      BY <1>1, <1>6, <3>1
    <3>2. CASE /\ acts' = Append(acts, Act(models.message, Whole(text), Whole(models.message)))
               /\ Reply(models.latest, Good(models.message))
      <4>1. Whole(text) \in Seq(Action) /\ Whole(models.message) \in Parts
        <5>1. Whole(models.message) \in Seq(Action)
          BY <2>2, WholeHas
        <5> QED BY <1>1, <5>1, WholeType, PartsAre
      <4>2. PICK act : act = Act(models.message, Whole(text), Whole(models.message))
        OBVIOUS
      <4>3. act \in ActType
        <5> HIDE DEF Parts
        <5> QED BY <2>2, <4>1, <4>2 DEF Act, ActType
      <4>4. Append(acts, act) \in Seq(ActType)
        BY <1>1, <4>3
      <4>5. Good(models.message) \in Answer
        BY <1>2, AnswersAre
      <4>6. toPage' \in Seq(Call)
        BY <1>1, <1>2, <3>2, <4>5, ReplyType
      <4> QED BY <3>2, <4>2, <4>4, <4>6
    <3> QED BY <1>9, <3>1, <3>2 DEF ConfirmMessage
  <2> QED BY <1>1, <1>3, <1>4, <1>5, <2>1, <2>3, <2>4, TouchFrame
<1> QED BY <1>7, <1>8, <1>9

-----------------------------------------------------------------------------

\* TypeInv holds at first and is kept by every step.
LEMMA TypeInductive ==
  (Init => TypeInv) /\ (TypeInv /\ [Next]_vars => TypeInv')
<1>1. Init => TypeInv
  <2> SUFFICES ASSUME Init PROVE TypeInv
    OBVIOUS
  <2>1. <<>> \in Seq(Action) /\ <<>> \in Seq(WindowType) /\ <<>> \in Seq(RunType) /\ <<>> \in Seq(ActType)
        /\ <<>> \in Seq(Call) /\ <<>> \in Seq(Requests)
    OBVIOUS
  <2>2. ChannelOK
    BY <2>1 DEF Init, ChannelInit, ChannelOK, NoAnswer, Answer
  <2>3. models \in ModelType /\ models.latest = Nobody
    BY DEF Init, ModelType, MaybeRequest
  <2>4. decoding \in DecodingType /\ \A r \in Requests : decoding.got[r] = {}
    BY DEF Init, DecodingType
  <2>5. sheet \in SheetType /\ execs \in ExecsType
    <3> HIDE DEF Parts
    <3> QED BY <2>1, NoPart DEF Init, NoSheet, SheetType, ExecsType
  <2>6. /\ list \in Seq(Action) /\ windows \in Seq(WindowType) /\ text \in MaybeRequest
        /\ nopass \in [right : BOOLEAN, tick : BOOLEAN]
        /\ transfers \in [code : MaybeRequest, data : MaybeRequest]
        /\ runs \in Seq(RunType) /\ jobs \subseteq JobType /\ acts \in Seq(ActType) /\ crossed \in BOOLEAN
    BY <2>1 DEF Init, NoPass, MaybeRequest
  <2>7. Typed
    BY <2>2, <2>3, <2>4, <2>5, <2>6 DEF Typed
  <2>8. windows = <<>> /\ runs = <<>> /\ jobs = {}
    BY DEF Init
  <2>9. Held /\ Numbered
    BY <2>3, <2>4, <2>8 DEF Held, Numbered
  <2> QED BY <2>7, <2>9 DEF TypeInv
<1>2. ASSUME TypeInv, [Next]_vars PROVE TypeInv'
  <2>0. toNative \in Seq(Requests) /\ ChannelOK /\ Held /\ Numbered
    BY <1>2 DEF TypeInv, Typed, ChannelOK
  <2>1. CASE \E r \in Requests : Message(r)
    BY <1>2, <2>1, MessageTyped
  <2>2. ASSUME NEW j \in jobs, Answered(j), UNCHANGED <<method, promise, result, callback, toNative>>
        PROVE  TypeInv'
    <3>1. PageWaits
      BY <2>0, <2>2 DEF PageWaits
    <3> QED BY <1>2, <2>2, <3>1, EndTyped, NextTyped, DecodeTyped, InfoTyped, EncodeTyped DEF Answered
  <2>3. ASSUME Touch, UNCHANGED <<method, promise, result, callback, toNative>> PROVE TypeInv'
    <3>1. PageWaits
      BY <2>0, <2>3 DEF PageWaits
    <3> QED BY <1>2, <2>3, <3>1, SheetTyped, ViewTyped DEF Touch
  <2>4. ASSUME ChannelOK', UNCHANGED method, UNCHANGED native PROVE TypeInv'
    <3>1. Held' /\ Numbered'
      BY <2>0, <2>4 DEF native, Held, Numbered, Size
    <3>2. Typed'
      BY <1>2, <2>4 DEF native, TypeInv, Typed
    <3> QED BY <3>1, <3>2 DEF TypeInv
  <2>5. ASSUME NEW r \in Requests, Ask(r), UNCHANGED native PROVE TypeInv'
    <3>1. toNative' \in Seq(Requests)
      BY <2>0, <2>5 DEF Ask, Post
    <3>2. ChannelOK' /\ UNCHANGED method
      BY <2>0, <2>5, <3>1 DEF Ask, ChannelOK
    <3> QED BY <2>4, <2>5, <3>2
  <2>6. CASE Evaluate
    <3>1. toPage \in Seq(Call) /\ toPage # <<>>
      BY <2>0, <2>6 DEF Evaluate, ChannelOK
    <3>2. Head(toPage) \in Call /\ Tail(toPage) \in Seq(Call)
      BY <3>1, HeadTailProperties
    <3>3. PICK m \in Call : m = Head(toPage)
      BY <3>2
    <3>4. m.answer \in Answer
      BY DEF Call
    <3>5. CallBack(m) /\ toPage' \in Seq(Call)
      BY <2>6, <3>2, <3>3 DEF Evaluate, CallBack
    <3>6. ChannelOK' /\ UNCHANGED method
      BY <2>0, <3>4, <3>5 DEF CallBack, ChannelOK
    <3> QED BY <2>4, <2>6, <3>6 DEF Evaluate
  <2>7. CASE Load /\ UNCHANGED native
    <3>1. ChannelOK' /\ UNCHANGED method
      BY <2>0, <2>7 DEF Load, ChannelOK
    <3> QED BY <2>4, <2>7, <3>1
  <2>8. CASE UNCHANGED vars
    <3>1. ChannelOK' /\ UNCHANGED method /\ UNCHANGED native
      BY <2>0, <2>8 DEF vars, channel, ChannelOK
    <3> QED BY <2>4, <3>1
  <2> QED BY <1>2, <2>1, <2>2, <2>3, <2>5, <2>6, <2>7, <2>8 DEF Next, App, Page
<1> QED BY <1>1, <1>2

\* A sequence over a set is one over a wider set.
LEMMA SeqWider ==
  ASSUME NEW S, NEW T, S \subseteq T, NEW s \in Seq(S)
  PROVE  s \in Seq(T)
<1>1. Len(s) \in Nat /\ s \in [1..Len(s) -> S]
  BY LenProperties
<1>2. s \in [1..Len(s) -> T]
  BY <1>1
<1> QED BY <1>1, <1>2, SeqDef

\* The parts of the types that the runs check.
LEMMA TypesSuffice == TypeInv => TypeOK
<1> SUFFICES ASSUME TypeInv PROVE TypeOK
  OBVIOUS
<1>1. /\ models \in ModelType /\ decoding \in DecodingType /\ sheet \in SheetType
      /\ windows \in Seq(WindowType) /\ execs \in ExecsType /\ runs \in Seq(RunType)
      /\ acts \in Seq(ActType)
  BY DEF TypeInv, Typed
<1>2. models \in [{"latest", "toSign", "actions", "transfer", "message"} -> Requests \cup {Nobody}]
  BY <1>1 DEF ModelType, MaybeRequest
<1>3. decoding.count \in Nat /\ decoding.got \in [Requests -> SUBSET Nat]
  BY <1>1 DEF DecodingType
<1>4. sheet.pages \in Seq(Action) /\ sheet.length \in Nat /\ sheet.up \in BOOLEAN
  BY <1>1 DEF SheetType
<1>5. windows \in Seq([name : {"nopass", "prompt", "message"}, of : Requests \cup {Nobody}])
  <2>1. WindowType \subseteq [name : {"nopass", "prompt", "message"}, of : Requests \cup {Nobody}]
    BY DEF WindowType, MaybeRequest
  <2> QED BY <1>1, <2>1, SeqWider
<1>6. execs.array \in Seq(Action)
  BY <1>1 DEF ExecsType
<1>7. runs \in Seq([by : Requests \cup {Nobody}, meant : Seq(Action), acts : Seq(Action), got : SUBSET Nat])
  <2>1. RunType \subseteq [by : Requests \cup {Nobody}, meant : Seq(Action), acts : Seq(Action), got : SUBSET Nat]
    BY DEF RunType
  <2> QED BY <1>1, <2>1, SeqWider
<1>8. \A i \in DOMAIN acts : acts[i].by \in Requests /\ \A n \in DOMAIN acts[i].done : acts[i].done[n] \in Action
  <2>1. ASSUME NEW i \in DOMAIN acts PROVE acts[i].by \in Requests /\ acts[i].done \in Parts
    <3>1. acts[i] \in ActType
      BY <1>1
    <3> HIDE DEF Parts
    <3> QED BY <3>1 DEF ActType
  <2>2. \A done \in Parts : \A n \in DOMAIN done : done[n] \in Action
    BY DEF Parts
  <2> QED BY <2>1, <2>2
<1> QED BY <1>2, <1>3, <1>4, <1>5, <1>6, <1>7, <1>8 DEF TypeInv, Typed, TypeOK, MaybeRequest

\* What the page, its messages, the views, the services and the executions hold is
\* of its type however messages, answers and touches fall; and what is signed or
\* executed is so for a request of the page, and made of actions.
THEOREM BridgeTyped == Spec => []TypeOK
BY TypeInductive, TypesSuffice, PTL DEF Spec

=============================================================================
