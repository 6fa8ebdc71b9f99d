-------------------------- MODULE TransfersProofs --------------------------
(***************************************************************************)
(* Proofs about Transfers: a transfer that is taken is paid by the wallet  *)
(* it was confirmed for, a masked HUD keeps transfers of Ether and IOST    *)
(* apart, what is said to have succeeded was taken, Bitcoin's loop spends  *)
(* what the outputs are worth, and the page and the networks together      *)
(* implement Settlement.                                                   *)
(***************************************************************************)
EXTENDS Transfers, FiniteSetTheorems, WellFoundedInduction, TLAPS

Taken == {"pooled", "executed", "dropped"}

TypesOK ==
  /\ session \in Wallets
  /\ client \in Of("TRX") \cup {NoWallet}
  /\ sends \in Seq(Send)
  /\ mined \in [Of("ETH") -> Nat]
  /\ pool \in [Of("ETH") -> Nat]

\* Where a transfer of a brand can be, and whose key it has there.
StageOK(s) ==
  /\ s.owner = s.wallet
  /\ s.at \in {"unlock", "nonce", "gas"} => BrandOf[s.wallet] = "ETH"
  /\ s.at = "info" => BrandOf[s.wallet] = "IOST"
  /\ s.at \in {"create", "sign"} => BrandOf[s.wallet] = "TRX"
  /\ s.at = "create" => s.key = NoWallet
  /\ BrandOf[s.wallet] # "TRX" => s.key = s.wallet
  /\ s.fate \in Taken => s.key = s.wallet

\* What waits in the pool for an account is a transfer of it.
PoolOK == \A w \in Of("ETH") :
  pool[w] # 0 => pool[w] \in DOMAIN sends /\ sends[pool[w]].wallet = w

PayInv ==
  /\ TypesOK
  /\ BrandOf[session] = "TRX" => client = session
  /\ prompt # NoPrompt => BrandOf[session] = "BTC"
  /\ \A i \in DOMAIN sends : StageOK(sends[i])
  /\ PoolOK

\* A transfer that the HUD covers; a transfer of Tron that was not created.
Held(s)   == BrandOf[s.wallet] \in {"ETH", "IOST"} /\ s.at \notin {"stray", "end"}
Failed(s) == BrandOf[s.wallet] = "TRX" /\ s.at = "end" /\ s.key = NoWallet

\* Dismissals come of failed creations only.
MaskInv ==
  masked /\ ~(\E i \in DOMAIN sends : Failed(sends[i])) =>
    /\ dismissals = 0
    /\ \A i \in DOMAIN sends : Held(sends[i]) => hud
    /\ \A i, j \in DOMAIN sends : Held(sends[i]) /\ Held(sends[j]) => i = j

Inv == PayInv /\ MaskInv

-----------------------------------------------------------------------------
(* Changes of the list of transfers *)

\* One transfer moves on, and keeps its wallet.
LEMMA OneMoves ==
  ASSUME PayInv, NEW i \in DOMAIN sends, NEW s \in Send,
         sends' = [sends EXCEPT ![i] = s],
         s.wallet = sends[i].wallet, StageOK(s),
         UNCHANGED <<session, client, prompt, mined, pool>>
  PROVE  PayInv'
<1>1. sends' \in Seq(Send) /\ DOMAIN sends' = DOMAIN sends
  BY DEF PayInv, TypesOK
<1>2. \A j \in DOMAIN sends : sends'[j] = IF j = i THEN s ELSE sends[j]
  BY DEF PayInv, TypesOK
<1>3. TypesOK'
  BY <1>1 DEF PayInv, TypesOK
<1>4. \A j \in DOMAIN sends' : StageOK(sends'[j])
  BY <1>1, <1>2 DEF PayInv
<1>5. PoolOK'
  BY <1>1, <1>2 DEF PayInv, PoolOK
<1>6. QED
  BY <1>3, <1>4, <1>5 DEF PayInv, StageOK

\* Under the HUD a transfer goes on, or ends and may take the HUD with it.
LEMMA OneMovesUnderHud ==
  ASSUME PayInv, MaskInv, NEW i \in DOMAIN sends, NEW s \in Send,
         sends' = [sends EXCEPT ![i] = s], masked' = masked,
         Held(s) => Held(sends[i]),
         Failed(sends[i]) => Failed(s),
         (hud' <=> hud) \/ (Held(sends[i]) /\ ~Held(s)),
         dismissals' = dismissals \/ Failed(s)
  PROVE  MaskInv'
<1>1. DOMAIN sends' = DOMAIN sends
  BY DEF PayInv, TypesOK
<1>2. \A j \in DOMAIN sends : sends'[j] = IF j = i THEN s ELSE sends[j]
  BY DEF PayInv, TypesOK
<1>3. SUFFICES ASSUME masked, ~(\E j \in DOMAIN sends' : Failed(sends'[j]))
               PROVE  /\ dismissals' = 0
                      /\ \A j \in DOMAIN sends' : Held(sends'[j]) => hud'
                      /\ \A j, k \in DOMAIN sends' :
                           Held(sends'[j]) /\ Held(sends'[k]) => j = k
  BY DEF MaskInv, Failed, Held
<1>4. ~(\E j \in DOMAIN sends : Failed(sends[j])) /\ ~Failed(s)
  BY <1>1, <1>2, <1>3
<1>5. \A j \in DOMAIN sends : Held(sends'[j]) => Held(sends[j])
  BY <1>2
<1>6. QED
  BY <1>1, <1>2, <1>3, <1>4, <1>5 DEF MaskInv

\* What a confirmed transfer is from the start.
LEMMA FreshOK ==
  ASSUME PayInv
  PROVE  /\ BrandOf[session] = "IOST" => Fresh("info") \in Send /\ StageOK(Fresh("info"))
         /\ BrandOf[session] = "BTC" =>
              \A s \in {Fresh("raw"), [Fresh("end") EXCEPT !.told = "failure"]} :
                s \in Send /\ StageOK(s) /\ ~Held(s)
<1>1. session \in Wallets
  BY DEF PayInv, TypesOK
<1>2. BrandOf[session] = "IOST" => Fresh("info") \in Send /\ StageOK(Fresh("info"))
  BY <1>1 DEF Fresh, Send, StageOK, Taken
<1>3. BrandOf[session] = "BTC" => Fresh("raw") \in Send /\ StageOK(Fresh("raw")) /\ ~Held(Fresh("raw"))
  BY <1>1 DEF Fresh, Send, StageOK, Taken, Held
<1>4. ASSUME BrandOf[session] = "BTC"
      PROVE  LET s == [Fresh("end") EXCEPT !.told = "failure"] IN
             s \in Send /\ StageOK(s) /\ ~Held(s)
  BY <1>1, <1>4 DEF Fresh, Send, StageOK, Taken, Held
<1>5. QED
  BY <1>2, <1>3, <1>4

LEMMA FreshEthOK ==
  ASSUME PayInv, BrandOf[session] = "ETH", NEW price \in Prices, NEW alone \in BOOLEAN
  PROVE  LET s == [Fresh("unlock") EXCEPT !.price = price, !.alone = alone] IN
         s \in Send /\ StageOK(s)
BY DEF PayInv, TypesOK, Fresh, Send, StageOK, Taken

LEMMA FreshTronOK ==
  ASSUME PayInv, BrandOf[session] = "TRX"
  PROVE  LET s == [Fresh("create") EXCEPT !.owner = client, !.key = NoWallet] IN
         s \in Send /\ StageOK(s) /\ ~Held(s)
BY DEF PayInv, TypesOK, Fresh, Send, StageOK, Taken, Of, Held

\* One transfer more, after transfers that may have learnt that they are not alone.
LEMMA OneMore ==
  ASSUME PayInv, NEW q \in Seq(Send), DOMAIN q = DOMAIN sends,
         \A i \in DOMAIN q : q[i].wallet = sends[i].wallet /\ StageOK(q[i]),
         NEW s \in Send, StageOK(s), sends' = Append(q, s),
         UNCHANGED <<session, client, mined, pool>>,
         prompt' = prompt \/ BrandOf[session] = "BTC"
  PROVE  PayInv'
<1>1. /\ sends' \in Seq(Send)
      /\ \A i \in DOMAIN sends : i \in DOMAIN sends' /\ sends'[i] = q[i]
      /\ \A i \in DOMAIN sends' : i \in DOMAIN sends \/ sends'[i] = s
  BY DEF PayInv, TypesOK
<1>2. TypesOK'
  BY <1>1 DEF PayInv, TypesOK
<1>3. \A i \in DOMAIN sends' : StageOK(sends'[i])
  BY <1>1 DEF PayInv
<1>4. PoolOK'
  BY <1>1 DEF PayInv, PoolOK
<1>5. QED
  BY <1>2, <1>3, <1>4 DEF PayInv, StageOK

\* It is covered if it is alone under the HUD.
LEMMA OneMoreUnderHud ==
  ASSUME PayInv, MaskInv, NEW q \in Seq(Send), DOMAIN q = DOMAIN sends,
         \A i \in DOMAIN q : (Held(q[i]) <=> Held(sends[i])) /\ (Failed(q[i]) <=> Failed(sends[i])),
         NEW s \in Send, sends' = Append(q, s), masked' = masked,
         ~(hud /\ masked), Held(s) => hud',
         dismissals' = dismissals
  PROVE  MaskInv'
<1>1. /\ \A i \in DOMAIN sends : i \in DOMAIN sends' /\ sends'[i] = q[i]
      /\ \A i \in DOMAIN sends' : i \in DOMAIN sends \/ (i = Len(q) + 1 /\ sends'[i] = s)
  BY DEF PayInv, TypesOK
<1>2. SUFFICES ASSUME masked, ~(\E j \in DOMAIN sends' : Failed(sends'[j]))
               PROVE  /\ dismissals' = 0
                      /\ \A j \in DOMAIN sends' : Held(sends'[j]) => hud'
                      /\ \A j, k \in DOMAIN sends' :
                           Held(sends'[j]) /\ Held(sends'[k]) => j = k
  BY DEF MaskInv, Failed, Held
<1>3. ~(\E j \in DOMAIN sends : Failed(sends[j]))
  BY <1>1, <1>2
<1>4. \A j \in DOMAIN sends : ~Held(sends[j])
  BY <1>2, <1>3 DEF MaskInv
<1>5. \A j \in DOMAIN sends' : Held(sends'[j]) => j = Len(q) + 1 /\ sends'[j] = s
  BY <1>1, <1>4
<1>6. dismissals = 0
  BY <1>2, <1>3 DEF MaskInv
<1>7. QED
  BY <1>2, <1>5, <1>6

\* The page changes and no transfer does.
LEMMA NoneMoves ==
  ASSUME Inv, UNCHANGED <<masked, sends, mined, pool>>,
         session' \in Wallets, client' \in Of("TRX") \cup {NoWallet},
         BrandOf[session'] = "TRX" => client' = session',
         prompt' # NoPrompt => BrandOf[session'] = "BTC",
         UNCHANGED <<hud, dismissals>>
  PROVE  Inv'
<1>1. PayInv'
  BY DEF Inv, PayInv, TypesOK, StageOK, PoolOK
<1>2. MaskInv'
  BY DEF Inv, MaskInv, Held, Failed
<1>3. QED
  BY <1>1, <1>2 DEF Inv

-----------------------------------------------------------------------------
(* The page *)

LEMMA SwitchStep == ASSUME Inv, NEW w \in Wallets, Switch(w) PROVE Inv'
<1>1. /\ session' \in Wallets /\ client' \in Of("TRX") \cup {NoWallet}
      /\ BrandOf[session'] = "TRX" => client' = session'
      /\ prompt' = NoPrompt
  BY DEF Switch, Inv, PayInv, TypesOK, Of
<1>2. QED
  BY <1>1, NoneMoves DEF Switch, chain

LEMMA RemovePromptStep == ASSUME Inv, RemovePrompt PROVE Inv'
<1>1. UNCHANGED <<session, client, masked, hud, dismissals, sends, mined, pool>> /\ prompt' = NoPrompt
  BY DEF RemovePrompt, chain
<1>2. QED
  BY <1>1, NoneMoves DEF Inv, PayInv, TypesOK

LEMMA HudDismissedStep == ASSUME Inv, HudDismissed PROVE Inv'
<1>1. PayInv'
  BY DEF HudDismissed, Inv, PayInv, TypesOK, StageOK, PoolOK, page, chain
<1>2. masked => \E i \in DOMAIN sends : Failed(sends[i])
  BY DEF HudDismissed, Inv, MaskInv
<1>3. UNCHANGED <<masked, sends>>
  BY DEF HudDismissed
<1>4. MaskInv'
  BY <1>2, <1>3 DEF MaskInv, Failed, Held
<1>5. QED
  BY <1>1, <1>4 DEF Inv

\* A transfer learns that it is not alone, and nothing else.
LEMMA AloneOK ==
  ASSUME NEW t \in Send, NEW b \in BOOLEAN
  PROVE  LET u == [t EXCEPT !.alone = b] IN
         /\ u \in Send /\ u.wallet = t.wallet
         /\ StageOK(t) => StageOK(u)
         /\ (Held(u) <=> Held(t)) /\ (Failed(u) <=> Failed(t))
BY DEF Send, StageOK, Held, Failed

LEMMA EthTransferStep == ASSUME Inv, NEW price \in Prices, EthTransfer(price) PROVE Inv'
<1> DEFINE q == [i \in DOMAIN sends |-> [sends[i] EXCEPT !.alone = @ /\ ~Meets(i)]]
           s == [Fresh("unlock") EXCEPT !.price = price, !.alone = (Met = {})]
<1>1. \A i \in DOMAIN sends :
        /\ q[i] \in Send /\ q[i].wallet = sends[i].wallet /\ StageOK(q[i])
        /\ Held(q[i]) <=> Held(sends[i])
        /\ Failed(q[i]) <=> Failed(sends[i])
  <2> TAKE i \in DOMAIN sends
  <2>1. sends[i] \in Send /\ StageOK(sends[i])
    BY DEF Inv, PayInv, TypesOK
  <2>2. PICK b \in BOOLEAN : b <=> (sends[i].alone /\ ~Meets(i))
    OBVIOUS
  <2>3. sends[i].alone \in BOOLEAN
    BY <2>1 DEF Send
  <2>4. q[i] = [sends[i] EXCEPT !.alone = b]
    BY <2>2, <2>3
  <2>5. QED
    BY <2>1, <2>4, AloneOK
<1>2. q \in Seq(Send) /\ DOMAIN q = DOMAIN sends
  <2>1. DOMAIN sends = 1..Len(sends) /\ Len(sends) \in Nat
    BY DEF Inv, PayInv, TypesOK
  <2>2. q \in [DOMAIN sends -> Send]
    BY <1>1, Zenon
  <2>3. DOMAIN q = DOMAIN sends
    OBVIOUS
  <2> HIDE DEF q
  <2>4. QED
    BY <2>1, <2>2, <2>3
<1>3. s \in Send /\ StageOK(s)
  BY FreshEthOK DEF EthTransfer, Confirming, Inv
<1>4. sends' = Append(q, s)
  BY DEF EthTransfer
<1> HIDE DEF q, s
<1>5. PayInv'
  BY <1>1, <1>2, <1>3, <1>4, OneMore DEF EthTransfer, Inv, page, chain
<1>6. MaskInv'
  BY <1>1, <1>2, <1>3, <1>4, OneMoreUnderHud DEF EthTransfer, Confirming, Touchable, Inv
<1>7. QED
  BY <1>5, <1>6 DEF Inv

\* A transfer is entered behind the others.
LEMMA EnterStep ==
  ASSUME Inv, NEW s \in Send, NEW tx, StageOK(s), Enter(s, tx), masked' = masked,
         Touchable, Held(s) => hud', dismissals' = dismissals,
         UNCHANGED <<session, client, mined, pool>>,
         prompt' = prompt \/ BrandOf[session] = "BTC"
  PROVE  Inv'
<1>1. sends \in Seq(Send) /\ \A i \in DOMAIN sends : StageOK(sends[i])
  BY DEF Inv, PayInv, TypesOK
<1>2. sends' = Append(sends, s)
  BY DEF Enter
<1>3. PayInv'
  BY <1>1, <1>2, OneMore DEF Inv
<1>4. MaskInv'
  BY <1>1, <1>2, OneMoreUnderHud DEF Inv, Touchable
<1>5. QED
  BY <1>3, <1>4 DEF Inv

LEMMA TronTransferStep == ASSUME Inv, TronTransfer PROVE Inv'
<1> DEFINE s == [Fresh("create") EXCEPT !.owner = client, !.key = NoWallet]
<1>1. s \in Send /\ StageOK(s) /\ ~Held(s)
  BY FreshTronOK DEF TronTransfer, Confirming, Inv
<1>2. Enter(s, NoTx)
  BY DEF TronTransfer
<1> HIDE DEF s
<1>3. QED
  BY <1>1, <1>2, EnterStep DEF TronTransfer, Confirming, page, chain

LEMMA IostTransferStep == ASSUME Inv, IostTransfer PROVE Inv'
<1>1. Fresh("info") \in Send /\ StageOK(Fresh("info"))
  BY FreshOK DEF IostTransfer, Confirming, Inv
<1>2. QED
  BY <1>1, EnterStep DEF IostTransfer, Confirming, page, chain

\* Both ends of sendToAddress.
LEMMA BtcSendStep ==
  ASSUME Inv, NEW amount, NEW rate, BtcSend(amount, rate), BrandOf[session] = "BTC", Touchable,
         UNCHANGED <<session, client, masked, hud, dismissals, mined, pool>>
  PROVE  Inv'
<1>1. PICK s \in {Fresh("raw"), [Fresh("end") EXCEPT !.told = "failure"]} : \E tx : Enter(s, tx)
  BY DEF BtcSend
<1>2. s \in Send /\ StageOK(s) /\ ~Held(s)
  BY FreshOK DEF Inv
<1>3. QED
  BY <1>1, <1>2, EnterStep

LEMMA BtcTransferStep ==
  ASSUME Inv, NEW amount, NEW rate, BtcTransfer(amount, rate)
  PROVE  Inv'
BY BtcSendStep DEF BtcTransfer, Confirming, chain

LEMMA TapAgainStep == ASSUME Inv, TapAgain PROVE Inv'
<1>1. BrandOf[session] = "BTC"
  BY DEF TapAgain, Inv, PayInv
<1>2. QED
  BY <1>1, BtcSendStep DEF TapAgain, page, chain

-----------------------------------------------------------------------------
(* Answers *)

\* A transfer moves on, and the HUD goes only with the one it covers.
LEMMA MoveStep ==
  ASSUME Inv, NEW i \in DOMAIN sends, NEW s \in Send, sends' = [sends EXCEPT ![i] = s],
         s.wallet = sends[i].wallet, StageOK(s),
         Held(s) => Held(sends[i]), Failed(sends[i]) => Failed(s),
         (hud' <=> hud) \/ (Held(sends[i]) /\ ~Held(s)),
         dismissals' = dismissals \/ Failed(s),
         UNCHANGED <<page, masked, mined, pool>>
  PROVE  Inv'
<1>1. PayInv'
  BY OneMoves DEF Inv, page
<1>2. MaskInv'
  BY OneMovesUnderHud DEF Inv
<1>3. QED
  BY <1>1, <1>2 DEF Inv

LEMMA SendsTyped ==
  ASSUME Inv, NEW i \in DOMAIN sends
  PROVE  sends[i] \in Send /\ StageOK(sends[i])
BY DEF Inv, PayInv, TypesOK

LEMMA UnlockedStep == ASSUME Inv, NEW i \in DOMAIN sends, Unlocked(i) PROVE Inv'
<1> DEFINE s == [sends[i] EXCEPT !.at = "nonce"]
<1>1. /\ s \in Send /\ s.wallet = sends[i].wallet /\ StageOK(s)
      /\ Held(s) => Held(sends[i])
      /\ Failed(sends[i]) => Failed(s)
  BY SendsTyped DEF Unlocked, Send, StageOK, Held, Failed, Taken
<1>2. sends' = [sends EXCEPT ![i] = s]
  BY DEF Unlocked, Goto
<1> HIDE DEF s
<1>3. QED
  BY <1>1, <1>2, MoveStep DEF Unlocked, chain

LEMMA CountedStep == ASSUME Inv, NEW i \in DOMAIN sends, Counted(i) PROVE Inv'
<1> DEFINE s == [sends[i] EXCEPT !.at = "gas", !.nonce = mined[sends[i].owner]]
<1>1. /\ s \in Send /\ s.wallet = sends[i].wallet /\ StageOK(s)
      /\ Held(s) => Held(sends[i])
      /\ Failed(sends[i]) => Failed(s)
  BY SendsTyped DEF Counted, Send, StageOK, Held, Failed, Taken, Inv, PayInv, TypesOK, Of
<1>2. sends' = [sends EXCEPT ![i] = s]
  BY DEF Counted
<1> HIDE DEF s
<1>3. QED
  BY <1>1, <1>2, MoveStep DEF Counted, chain

LEMMA PricedStep == ASSUME Inv, NEW i \in DOMAIN sends, Priced(i) PROVE Inv'
<1> DEFINE s == [sends[i] EXCEPT !.at = "raw"]
<1>1. /\ s \in Send /\ s.wallet = sends[i].wallet /\ StageOK(s)
      /\ Held(s) => Held(sends[i])
      /\ Failed(sends[i]) => Failed(s)
  BY SendsTyped DEF Priced, Send, StageOK, Held, Failed, Taken
<1>2. sends' = [sends EXCEPT ![i] = s]
  BY DEF Priced, Goto
<1> HIDE DEF s
<1>3. QED
  BY <1>1, <1>2, MoveStep DEF Priced, chain

LEMMA EthFailsStep == ASSUME Inv, NEW i \in DOMAIN sends, EthFails(i) PROVE Inv'
<1> DEFINE s == [sends[i] EXCEPT !.at = "end", !.told = "failure"]
<1>1. /\ s \in Send /\ s.wallet = sends[i].wallet /\ StageOK(s)
      /\ Held(s) => Held(sends[i])
      /\ Failed(sends[i]) => Failed(s)
      /\ Held(sends[i]) /\ ~Held(s)
  BY SendsTyped DEF EthFails, Send, StageOK, Held, Failed, Taken
<1>2. sends' = [sends EXCEPT ![i] = s]
  BY DEF EthFails
<1> HIDE DEF s
<1>3. QED
  BY <1>1, <1>2, MoveStep DEF EthFails, chain

LEMMA CreatedStep == ASSUME Inv, NEW i \in DOMAIN sends, Created(i) PROVE Inv'
<1> DEFINE s == [sends[i] EXCEPT !.at = "sign", !.key = client]
<1>1. /\ s \in Send /\ s.wallet = sends[i].wallet /\ StageOK(s)
      /\ Held(s) => Held(sends[i])
      /\ Failed(sends[i]) => Failed(s)
  BY SendsTyped, WalletsAssumption DEF Created, Send, StageOK, Held, Failed, Taken, NoWallet, Inv, PayInv, TypesOK, Of
<1>2. sends' = [sends EXCEPT ![i] = s]
  BY DEF Created
<1> HIDE DEF s
<1>3. QED
  BY <1>1, <1>2, MoveStep DEF Created, chain

LEMMA CreationFailsStep == ASSUME Inv, NEW i \in DOMAIN sends, CreationFails(i) PROVE Inv'
<1> DEFINE s == [sends[i] EXCEPT !.at = "end"]
<1>1. /\ s \in Send /\ s.wallet = sends[i].wallet /\ StageOK(s)
      /\ Held(s) => Held(sends[i])
      /\ Failed(sends[i]) => Failed(s)
      /\ Failed(s)
  BY SendsTyped DEF CreationFails, Send, StageOK, Held, Failed, Taken
<1>2. sends' = [sends EXCEPT ![i] = s]
  BY DEF CreationFails, Goto
<1> HIDE DEF s
<1>3. QED
  BY <1>1, <1>2, MoveStep DEF CreationFails, chain

LEMMA SignedStep == ASSUME Inv, NEW i \in DOMAIN sends, Signed(i) PROVE Inv'
<1> DEFINE s == [sends[i] EXCEPT !.at = "raw"]
<1>1. /\ s \in Send /\ s.wallet = sends[i].wallet /\ StageOK(s)
      /\ Held(s) => Held(sends[i])
      /\ Failed(sends[i]) => Failed(s)
  BY SendsTyped DEF Signed, Send, StageOK, Held, Failed, Taken
<1>2. sends' = [sends EXCEPT ![i] = s]
  BY DEF Signed, Goto
<1> HIDE DEF s
<1>3. QED
  BY <1>1, <1>2, MoveStep DEF Signed, chain

LEMMA FailsSilentlyStep == ASSUME Inv, NEW i \in DOMAIN sends, FailsSilently(i) PROVE Inv'
<1> DEFINE s == [sends[i] EXCEPT !.at = "end"]
<1>1. /\ s \in Send /\ s.wallet = sends[i].wallet /\ StageOK(s)
      /\ Held(s) => Held(sends[i])
      /\ Failed(sends[i]) => Failed(s)
  BY SendsTyped DEF FailsSilently, Send, StageOK, Held, Failed, Taken
<1>2. sends' = [sends EXCEPT ![i] = s]
  BY DEF FailsSilently, Goto
<1> HIDE DEF s
<1>3. QED
  BY <1>1, <1>2, MoveStep DEF FailsSilently, chain

\* The HUD of Ether and IOST goes with the answer; Bitcoin and Tron have none.
LEMMA RepliedStep == ASSUME Inv, NEW i \in DOMAIN sends, Replied(i) PROVE Inv'
<1> DEFINE told == IF sends[i].fate = "refused" THEN "failure" ELSE "success"
           s == [sends[i] EXCEPT !.at = "end", !.told = told]
<1>1. /\ s \in Send /\ s.wallet = sends[i].wallet /\ StageOK(s) /\ ~Held(s)
      /\ sends[i].at = "reply" /\ ~Failed(sends[i])
  BY SendsTyped DEF Replied, Send, StageOK, Held, Failed, Taken
<1>2. sends' = [sends EXCEPT ![i] = s]
  BY DEF Replied
<1> HIDE DEF s
<1>3. CASE Held(sends[i])
  BY <1>1, <1>2, <1>3, MoveStep DEF Replied, chain
<1>4. CASE ~Held(sends[i])
  BY <1>1, <1>2, <1>4, MoveStep DEF Replied, HidesHud, Brand, Held, chain
<1>5. QED
  BY <1>3, <1>4

\* The error of the last request.
LEMMA LostStep == ASSUME Inv, NEW i \in DOMAIN sends, Lost(i) PROVE Inv'
<1>1. PICK at \in {"end", "stray"} :
        sends' = [sends EXCEPT ![i].at = at,
                    ![i].told = IF Brand(i) = "IOST" THEN "none" ELSE "failure"]
  BY DEF Lost
<1> DEFINE told == IF Brand(i) = "IOST" THEN "none" ELSE "failure"
           s == [sends[i] EXCEPT !.at = at, !.told = told]
<1>2. /\ s \in Send /\ s.wallet = sends[i].wallet /\ StageOK(s) /\ ~Held(s)
      /\ sends[i].at \in {"raw", "reply"} /\ ~Failed(sends[i])
  BY SendsTyped DEF Lost, Send, StageOK, Held, Failed, Taken
<1>3. sends' = [sends EXCEPT ![i] = s]
  BY <1>1
<1> HIDE DEF s
<1>4. CASE Brand(i) \in {"ETH", "IOST"}
  BY <1>2, <1>3, <1>4, MoveStep DEF Lost, Brand, Held, chain
<1>5. CASE Brand(i) \notin {"ETH", "IOST"}
  BY <1>2, <1>3, <1>5, MoveStep DEF Lost, Brand, chain
<1>6. QED
  BY <1>4, <1>5

LEMMA AnswerStep == ASSUME Inv, NEW i \in DOMAIN sends, Answer(i) PROVE Inv'
BY UnlockedStep, CountedStep, PricedStep, EthFailsStep, CreatedStep, CreationFailsStep,
   SignedStep, FailsSilentlyStep, RepliedStep, LostStep DEF Answer

-----------------------------------------------------------------------------
(* The networks *)

\* Nodes decide what becomes of transfers, and the application's side goes on.
LEMMA FatesStep ==
  ASSUME Inv, sends' \in [DOMAIN sends -> Send],
         \A j \in DOMAIN sends :
           /\ sends'[j].wallet = sends[j].wallet /\ StageOK(sends'[j])
           /\ Held(sends'[j]) => Held(sends[j])
           /\ Failed(sends[j]) => Failed(sends'[j]),
         pool' \in [Of("ETH") -> Nat], mined' \in [Of("ETH") -> Nat],
         \A w \in Of("ETH") :
           pool'[w] # 0 => pool'[w] \in DOMAIN sends /\ sends[pool'[w]].wallet = w,
         UNCHANGED <<page, masked, hud, dismissals>>
  PROVE  Inv'
<1>1. sends' \in Seq(Send) /\ DOMAIN sends' = DOMAIN sends
  BY DEF Inv, PayInv, TypesOK
<1>2. PayInv'
  <2>1. TypesOK'
    BY <1>1 DEF Inv, PayInv, TypesOK, page, Of, NoWallet
  <2>2. PoolOK'
    BY <1>1 DEF Inv, PayInv, PoolOK, Of
  <2>3. \A j \in DOMAIN sends' : StageOK(sends'[j])
    BY <1>1
  <2>4. QED
    BY <2>1, <2>2, <2>3 DEF Inv, PayInv, page, StageOK
<1>3. MaskInv'
  <2>1. SUFFICES ASSUME masked, ~(\E j \in DOMAIN sends' : Failed(sends'[j]))
                 PROVE  /\ dismissals' = 0
                        /\ \A j \in DOMAIN sends' : Held(sends'[j]) => hud'
                        /\ \A j, k \in DOMAIN sends' :
                             Held(sends'[j]) /\ Held(sends'[k]) => j = k
    BY DEF MaskInv, Failed, Held
  <2>2. ~(\E j \in DOMAIN sends : Failed(sends[j]))
    BY <1>1, <2>1
  <2>3. QED
    BY <1>1, <2>1, <2>2 DEF Inv, MaskInv
<1>4. QED
  BY <1>2, <1>3 DEF Inv

\* What waits for an account is a transfer of Ether.
LEMMA PoolTyped ==
  ASSUME Inv, NEW w \in Of("ETH"), pool[w] # 0
  PROVE  /\ pool[w] \in DOMAIN sends
         /\ sends[pool[w]].wallet = w /\ BrandOf[w] = "ETH"
BY DEF Inv, PayInv, PoolOK, Of

LEMMA MineStep == ASSUME Inv, NEW w \in Of("ETH"), Mine(w) PROVE Inv'
<1> DEFINE i == pool[w]
           s == [sends[i] EXCEPT !.fate = "executed"]
<1>1. i \in DOMAIN sends /\ sends[i].wallet = w /\ BrandOf[w] = "ETH"
  BY PoolTyped DEF Mine
<1>2. /\ s \in Send /\ s.wallet = sends[i].wallet /\ StageOK(s)
      /\ Held(s) <=> Held(sends[i])
      /\ Failed(s) <=> Failed(sends[i])
  BY <1>1, SendsTyped DEF Send, StageOK, Held, Failed
<1>3. sends' = [sends EXCEPT ![i] = s]
  BY DEF Mine
<1> HIDE DEF s
<1>4. \A j \in DOMAIN sends : sends'[j] = IF j = i THEN s ELSE sends[j]
  BY <1>3 DEF Inv, PayInv, TypesOK
<1>5. sends' \in [DOMAIN sends -> Send]
  BY <1>2, <1>3, SendsTyped DEF Inv, PayInv, TypesOK
<1>6. \A j \in DOMAIN sends :
        /\ sends'[j].wallet = sends[j].wallet /\ StageOK(sends'[j])
        /\ Held(sends'[j]) => Held(sends[j])
        /\ Failed(sends[j]) => Failed(sends'[j])
  BY <1>1, <1>2, <1>4, SendsTyped
<1>7. pool' \in [Of("ETH") -> Nat] /\ mined' \in [Of("ETH") -> Nat]
  BY DEF Mine, Inv, PayInv, TypesOK
<1>8. \A v \in Of("ETH") :
        pool'[v] # 0 => pool'[v] \in DOMAIN sends /\ sends[pool'[v]].wallet = v
  BY DEF Mine, Inv, PayInv, TypesOK, PoolOK
<1>9. QED
  BY <1>5, <1>6, <1>7, <1>8, FatesStep DEF Mine

\* A node takes what its owner has signed.
LEMMA ArrivesStep == ASSUME Inv, NEW i \in DOMAIN sends, Arrives(i) PROVE Inv'
<1> DEFINE at == IF sends[i].at = "raw" THEN "reply" ELSE "end"
           s  == [sends[i] EXCEPT !.fate = Fate(i), !.at = at]
<1>1. sends[i] \in Send /\ StageOK(sends[i]) /\ sends[i].at \in {"raw", "stray"}
  BY SendsTyped DEF Arrives
<1>2. Fate(i) \in {"pooled", "executed", "refused"} /\ (Fate(i) # "refused" => Accepts(i))
  BY DEF Fate
<1>3. BrandOf[sends[i].wallet] = "TRX" /\ Accepts(i) => sends[i].owner = sends[i].key
  BY DEF Accepts, Brand
<1>4. /\ s \in Send /\ s.wallet = sends[i].wallet /\ StageOK(s)
      /\ Held(s) => Held(sends[i])
      /\ ~Failed(sends[i])
  BY <1>1, <1>2, <1>3 DEF Send, StageOK, Held, Failed, Taken
<1>5. \A j \in Replaced(i) : j \in DOMAIN sends /\ BrandOf[sends[j].wallet] = "ETH"
  <2>1. ASSUME NEW j \in Replaced(i)
        PROVE  j = pool[sends[i].owner] /\ j # 0 /\ sends[i].owner \in Of("ETH")
    BY <1>1 DEF Replaced, Brand, StageOK, Of, Send
  <2>2. QED
    BY <2>1, PoolTyped
<1> HIDE DEF s, at
<1>6. ASSUME NEW j \in DOMAIN sends
      PROVE  LET t == IF j = i THEN s
                      ELSE IF j \in Replaced(i) THEN [sends[j] EXCEPT !.fate = "dropped"]
                      ELSE sends[j]
             IN  /\ t \in Send /\ t.wallet = sends[j].wallet /\ StageOK(t)
                 /\ Held(t) => Held(sends[j])
                 /\ Failed(sends[j]) => Failed(t)
  <2>1. CASE j = i
    BY <1>4, <2>1
  <2>2. CASE j # i /\ j \in Replaced(i)
    BY <1>5, <2>2, SendsTyped DEF Send, StageOK, Held, Failed
  <2>3. CASE j # i /\ j \notin Replaced(i)
    BY <2>3, SendsTyped
  <2>4. QED
    BY <2>1, <2>2, <2>3
<1>7. sends' = [j \in DOMAIN sends |->
                  IF j = i THEN s
                  ELSE IF j \in Replaced(i) THEN [sends[j] EXCEPT !.fate = "dropped"]
                  ELSE sends[j]]
  <2>1. s = [sends[i] EXCEPT !.fate = Fate(i), !.at = IF @ = "raw" THEN "reply" ELSE "end"]
    BY DEF s, at
  <2>2. QED
    BY <2>1, Zenon DEF Arrives
<1>8. /\ sends' \in [DOMAIN sends -> Send]
      /\ \A j \in DOMAIN sends :
           /\ sends'[j].wallet = sends[j].wallet /\ StageOK(sends'[j])
           /\ Held(sends'[j]) => Held(sends[j])
           /\ Failed(sends[j]) => Failed(sends'[j])
  BY <1>6, <1>7
<1>9. Fate(i) = "pooled" => sends[i].owner \in Of("ETH") /\ sends[i].wallet = sends[i].owner
  BY <1>1 DEF Fate, Brand, Of, StageOK, Send
<1>10. i \in Nat
  BY DEF Inv, PayInv, TypesOK
<1>11. pool' \in [Of("ETH") -> Nat] /\ mined' \in [Of("ETH") -> Nat]
  BY <1>9, <1>10 DEF Arrives, Inv, PayInv, TypesOK
<1>12. \A v \in Of("ETH") :
         pool'[v] # 0 => pool'[v] \in DOMAIN sends /\ sends[pool'[v]].wallet = v
  BY <1>9, <1>10 DEF Arrives, Inv, PayInv, TypesOK, PoolOK
<1>13. QED
  BY <1>8, <1>11, <1>12, FatesStep DEF Arrives

-----------------------------------------------------------------------------
(* What is told, and what becomes of a transfer of Ether that is alone *)

Live(s) == s.at # "end" \/ s.fate = "pooled"

\* A verdict is told at the end, or when the answer is no longer waited for, and a
\* success of what was taken before.
ToldOK(s) ==
  /\ s.at \notin {"stray", "end"} => s.told = "none"
  /\ s.at \notin {"reply", "end"} => s.fate = "none"
  /\ s.at = "reply" => s.fate # "none"
  /\ s.told = "success" => s.fate \notin {"none", "refused"}

\* The count of an account cannot pass a transfer that is alone.
LoneOK(s) ==
  BrandOf[s.wallet] = "ETH" /\ s.alone =>
    /\ s.at \in {"gas", "raw", "stray"} => s.nonce = mined[s.owner]
    /\ s.fate \notin {"refused", "dropped"}

\* No other transfer of the account is under way or waits with a lone one.
Lone ==
  \A i, j \in DOMAIN sends :
    /\ sends[i].wallet = sends[j].wallet /\ BrandOf[sends[i].wallet] = "ETH"
    /\ sends[i].alone /\ Live(sends[i]) /\ Live(sends[j])
    => i = j

AloneInv ==
  /\ \A i \in DOMAIN sends : ToldOK(sends[i]) /\ LoneOK(sends[i])
  /\ \A w \in Of("ETH") : pool[w] # 0 => sends[pool[w]].fate = "pooled"
  /\ Lone

\* No transfer comes to life, and none is less alone.
LEMMA AloneKept ==
  ASSUME Inv, AloneInv, sends' \in [DOMAIN sends -> Send],
         \A j \in DOMAIN sends :
           /\ sends'[j].wallet = sends[j].wallet /\ sends'[j].alone = sends[j].alone
           /\ Live(sends'[j]) => Live(sends[j])
           /\ ToldOK(sends'[j])
           /\ LoneOK(sends[j])',
         \A w \in Of("ETH") : pool'[w] # 0 => sends'[pool'[w]].fate = "pooled"
  PROVE  AloneInv'
<1>1. DOMAIN sends' = DOMAIN sends
  OBVIOUS
<1>2. Lone'
  BY <1>1 DEF AloneInv, Lone, Live
<1>3. \A j \in DOMAIN sends' : ToldOK(sends[j])' /\ LoneOK(sends[j])'
  BY <1>1 DEF ToldOK
<1>4. (\A w \in Of("ETH") : pool[w] # 0 => sends[pool[w]].fate = "pooled")'
  BY DEF Of
<1>5. QED
  BY <1>2, <1>3, <1>4 DEF AloneInv

\* One transfer moves on, without a verdict.
LEMMA OneMovesAlone ==
  ASSUME Inv, AloneInv, NEW i \in DOMAIN sends, NEW s \in Send,
         sends' = [sends EXCEPT ![i] = s],
         s.wallet = sends[i].wallet, s.alone = sends[i].alone, s.fate = sends[i].fate,
         Live(s) => Live(sends[i]), ToldOK(s), LoneOK(s),
         UNCHANGED <<mined, pool>>
  PROVE  AloneInv'
<1>1. sends' \in [DOMAIN sends -> Send]
  BY DEF Inv, PayInv, TypesOK
<1>2. \A j \in DOMAIN sends : sends'[j] = IF j = i THEN s ELSE sends[j]
  BY DEF Inv, PayInv, TypesOK
<1>3. \A j \in DOMAIN sends : LoneOK(sends[j])'
  BY <1>2 DEF AloneInv, LoneOK
<1>4. \A w \in Of("ETH") : pool'[w] # 0 => sends'[pool'[w]].fate = "pooled"
  BY <1>2, PoolTyped DEF AloneInv
<1>5. QED
  BY <1>1, <1>2, <1>3, <1>4, AloneKept DEF AloneInv

LEMMA SendsAlone ==
  ASSUME Inv, AloneInv, NEW i \in DOMAIN sends
  PROVE  /\ sends[i] \in Send /\ StageOK(sends[i])
         /\ ToldOK(sends[i]) /\ LoneOK(sends[i])
BY SendsTyped DEF AloneInv

LEMMA UnlockedAlone == ASSUME Inv, AloneInv, NEW i \in DOMAIN sends, Unlocked(i) PROVE AloneInv'
<1> DEFINE s == [sends[i] EXCEPT !.at = "nonce"]
<1>1. /\ s \in Send /\ s.wallet = sends[i].wallet /\ s.alone = sends[i].alone
      /\ s.fate = sends[i].fate
      /\ Live(s) => Live(sends[i])
      /\ ToldOK(s) /\ LoneOK(s)
  BY SendsAlone DEF Unlocked, Send, ToldOK, LoneOK, StageOK, Live
<1>2. sends' = [sends EXCEPT ![i] = s]
  BY DEF Unlocked, Goto
<1> HIDE DEF s
<1>3. QED
  BY <1>1, <1>2, OneMovesAlone DEF Unlocked, chain

LEMMA CountedAlone == ASSUME Inv, AloneInv, NEW i \in DOMAIN sends, Counted(i) PROVE AloneInv'
<1> DEFINE count == mined[sends[i].owner]
           s == [sends[i] EXCEPT !.at = "gas", !.nonce = count]
<1>1. sends[i].owner \in Of("ETH")
  BY SendsAlone DEF Counted, Send, StageOK, Of
<1>2. count \in Nat
  BY <1>1 DEF Inv, PayInv, TypesOK
<1>3. sends[i].at = "nonce"
  BY DEF Counted
<1>4. /\ s \in Send /\ s.at = "gas" /\ s.nonce = mined[s.owner]
      /\ s.wallet = sends[i].wallet /\ s.alone = sends[i].alone
      /\ s.fate = sends[i].fate /\ s.told = sends[i].told
  BY <1>2, SendsAlone DEF Send
<1>5. sends' = [sends EXCEPT ![i] = s]
  BY DEF Counted
<1> HIDE DEF s, count
<1>6. (Live(s) => Live(sends[i])) /\ ToldOK(s) /\ LoneOK(s)
  BY <1>3, <1>4, SendsAlone DEF ToldOK, LoneOK, Live
<1>7. QED
  BY <1>4, <1>5, <1>6, OneMovesAlone DEF Counted, chain

LEMMA PricedAlone == ASSUME Inv, AloneInv, NEW i \in DOMAIN sends, Priced(i) PROVE AloneInv'
<1> DEFINE s == [sends[i] EXCEPT !.at = "raw"]
<1>1. /\ s \in Send /\ s.wallet = sends[i].wallet /\ s.alone = sends[i].alone
      /\ s.fate = sends[i].fate
      /\ Live(s) => Live(sends[i])
      /\ ToldOK(s) /\ LoneOK(s)
  BY SendsAlone DEF Priced, Send, ToldOK, LoneOK, StageOK, Live
<1>2. sends' = [sends EXCEPT ![i] = s]
  BY DEF Priced, Goto
<1> HIDE DEF s
<1>3. QED
  BY <1>1, <1>2, OneMovesAlone DEF Priced, chain

LEMMA EthFailsAlone == ASSUME Inv, AloneInv, NEW i \in DOMAIN sends, EthFails(i) PROVE AloneInv'
<1> DEFINE s == [sends[i] EXCEPT !.at = "end", !.told = "failure"]
<1>1. /\ s \in Send /\ s.wallet = sends[i].wallet /\ s.alone = sends[i].alone
      /\ s.fate = sends[i].fate
      /\ Live(s) => Live(sends[i])
      /\ ToldOK(s) /\ LoneOK(s)
  BY SendsAlone DEF EthFails, Send, ToldOK, LoneOK, StageOK, Live
<1>2. sends' = [sends EXCEPT ![i] = s]
  BY DEF EthFails
<1> HIDE DEF s
<1>3. QED
  BY <1>1, <1>2, OneMovesAlone DEF EthFails, chain

LEMMA CreatedAlone == ASSUME Inv, AloneInv, NEW i \in DOMAIN sends, Created(i) PROVE AloneInv'
<1> DEFINE s == [sends[i] EXCEPT !.at = "sign", !.key = client]
<1>1. client \in Wallets \cup {NoWallet} /\ sends[i] \in Send
  BY SendsAlone DEF Inv, PayInv, TypesOK, Of
<1>2. /\ s \in Send /\ s.wallet = sends[i].wallet /\ s.alone = sends[i].alone
      /\ s.fate = sends[i].fate /\ s.told = sends[i].told /\ s.at = "sign"
  BY <1>1 DEF Send
<1>3. sends[i].at = "create" /\ sends' = [sends EXCEPT ![i] = s]
  BY DEF Created
<1>4. BrandOf[s.wallet] = "TRX"
  BY <1>2, <1>3, SendsAlone DEF StageOK
<1> HIDE DEF s
<1>5. (Live(s) => Live(sends[i])) /\ ToldOK(s) /\ LoneOK(s)
  BY <1>2, <1>3, <1>4, SendsAlone DEF Live, ToldOK, LoneOK
<1>6. QED
  BY <1>2, <1>3, <1>5, OneMovesAlone DEF Created, chain

LEMMA CreationFailsAlone == ASSUME Inv, AloneInv, NEW i \in DOMAIN sends, CreationFails(i) PROVE AloneInv'
<1> DEFINE s == [sends[i] EXCEPT !.at = "end"]
<1>1. /\ s \in Send /\ s.wallet = sends[i].wallet /\ s.alone = sends[i].alone
      /\ s.fate = sends[i].fate
      /\ Live(s) => Live(sends[i])
      /\ ToldOK(s) /\ LoneOK(s)
  BY SendsAlone DEF CreationFails, Send, ToldOK, LoneOK, StageOK, Live
<1>2. sends' = [sends EXCEPT ![i] = s]
  BY DEF CreationFails, Goto
<1> HIDE DEF s
<1>3. QED
  BY <1>1, <1>2, OneMovesAlone DEF CreationFails, chain

LEMMA SignedAlone == ASSUME Inv, AloneInv, NEW i \in DOMAIN sends, Signed(i) PROVE AloneInv'
<1> DEFINE s == [sends[i] EXCEPT !.at = "raw"]
<1>1. /\ s \in Send /\ s.wallet = sends[i].wallet /\ s.alone = sends[i].alone
      /\ s.fate = sends[i].fate
      /\ Live(s) => Live(sends[i])
      /\ ToldOK(s) /\ LoneOK(s)
  BY SendsAlone DEF Signed, Send, ToldOK, LoneOK, StageOK, Live
<1>2. sends' = [sends EXCEPT ![i] = s]
  BY DEF Signed, Goto
<1> HIDE DEF s
<1>3. QED
  BY <1>1, <1>2, OneMovesAlone DEF Signed, chain

LEMMA FailsSilentlyAlone == ASSUME Inv, AloneInv, NEW i \in DOMAIN sends, FailsSilently(i) PROVE AloneInv'
<1> DEFINE s == [sends[i] EXCEPT !.at = "end"]
<1>1. /\ s \in Send /\ s.wallet = sends[i].wallet /\ s.alone = sends[i].alone
      /\ s.fate = sends[i].fate
      /\ Live(s) => Live(sends[i])
      /\ ToldOK(s) /\ LoneOK(s)
  BY SendsAlone DEF FailsSilently, Send, ToldOK, LoneOK, StageOK, Live
<1>2. sends' = [sends EXCEPT ![i] = s]
  BY DEF FailsSilently, Goto
<1> HIDE DEF s
<1>3. QED
  BY <1>1, <1>2, OneMovesAlone DEF FailsSilently, chain

LEMMA RepliedAlone == ASSUME Inv, AloneInv, NEW i \in DOMAIN sends, Replied(i) PROVE AloneInv'
<1> DEFINE told == IF sends[i].fate = "refused" THEN "failure" ELSE "success"
           s == [sends[i] EXCEPT !.at = "end", !.told = told]
<1>1. /\ s \in Send /\ s.wallet = sends[i].wallet /\ s.alone = sends[i].alone
      /\ s.fate = sends[i].fate
      /\ Live(s) => Live(sends[i])
      /\ ToldOK(s) /\ LoneOK(s)
  BY SendsAlone DEF Replied, Send, ToldOK, LoneOK, Live
<1>2. sends' = [sends EXCEPT ![i] = s]
  BY DEF Replied
<1> HIDE DEF s
<1>3. QED
  BY <1>1, <1>2, OneMovesAlone DEF Replied, chain

LEMMA LostAlone == ASSUME Inv, AloneInv, NEW i \in DOMAIN sends, Lost(i) PROVE AloneInv'
<1>1. PICK at \in {"end", "stray"} :
        /\ at = "stray" => sends[i].at = "raw"
        /\ sends' = [sends EXCEPT ![i].at = at,
                       ![i].told = IF Brand(i) = "IOST" THEN "none" ELSE "failure"]
  BY DEF Lost
<1> DEFINE told == IF Brand(i) = "IOST" THEN "none" ELSE "failure"
           s == [sends[i] EXCEPT !.at = at, !.told = told]
<1>2. /\ s \in Send /\ s.at = at /\ s.told \in {"none", "failure"}
      /\ s.wallet = sends[i].wallet /\ s.alone = sends[i].alone
      /\ s.fate = sends[i].fate /\ s.nonce = sends[i].nonce /\ s.owner = sends[i].owner
  BY SendsAlone DEF Send
<1>3. sends' = [sends EXCEPT ![i] = s]
  BY <1>1
<1>4. sends[i].at \in {"raw", "reply"}
  BY DEF Lost
<1> HIDE DEF s, told
<1>5. (Live(s) => Live(sends[i])) /\ ToldOK(s) /\ LoneOK(s)
  BY <1>1, <1>2, <1>4, SendsAlone DEF ToldOK, LoneOK, Live
<1>6. QED
  BY <1>2, <1>3, <1>5, OneMovesAlone DEF Lost, chain

LEMMA AnswerAlone == ASSUME Inv, AloneInv, NEW i \in DOMAIN sends, Answer(i) PROVE AloneInv'
BY UnlockedAlone, CountedAlone, PricedAlone, EthFailsAlone, CreatedAlone, CreationFailsAlone,
   SignedAlone, FailsSilentlyAlone, RepliedAlone, LostAlone DEF Answer

\* The page changes and no transfer does.
LEMMA NoneMovesAlone ==
  ASSUME AloneInv, UNCHANGED <<sends, mined, pool>>
  PROVE  AloneInv'
BY DEF AloneInv, Lone, LoneOK, ToldOK, Live, Of

\* One more, which is not alone if it meets another, nor is the one it meets.
LEMMA OneMoreAlone ==
  ASSUME Inv, AloneInv, NEW q \in Seq(Send), DOMAIN q = DOMAIN sends,
         NEW s \in Send, ToldOK(s), LoneOK(s), sends' = Append(q, s),
         \A i \in DOMAIN q :
           /\ q[i].wallet = sends[i].wallet /\ q[i].fate = sends[i].fate
           /\ ToldOK(q[i]) /\ LoneOK(q[i])
           /\ Live(q[i]) <=> Live(sends[i])
           /\ q[i].alone => sends[i].alone,
         \A i \in DOMAIN q :
           BrandOf[s.wallet] = "ETH" /\ q[i].wallet = s.wallet /\ Live(q[i])
             => ~q[i].alone /\ ~s.alone,
         UNCHANGED <<mined, pool>>
  PROVE  AloneInv'
<1>1. /\ \A i \in DOMAIN sends : i \in DOMAIN sends' /\ sends'[i] = q[i]
      /\ \A i \in DOMAIN sends' : i \in DOMAIN sends \/ (i = Len(q) + 1 /\ sends'[i] = s)
  BY DEF Inv, PayInv, TypesOK
<1>2. \A i \in DOMAIN sends' : ToldOK(sends[i])' /\ LoneOK(sends[i])'
  <2>1. \A i \in DOMAIN sends' : ToldOK(sends'[i]) /\ LoneOK(sends'[i])
    BY <1>1
  <2>2. QED
    BY <2>1 DEF ToldOK, LoneOK
<1>3. (\A w \in Of("ETH") : pool[w] # 0 => sends[pool[w]].fate = "pooled")'
  BY <1>1, PoolTyped DEF AloneInv, Of
<1>4. Lone'
  <2> SUFFICES ASSUME NEW i \in DOMAIN sends', NEW j \in DOMAIN sends',
                      sends'[i].wallet = sends'[j].wallet, BrandOf[sends'[i].wallet] = "ETH",
                      sends'[i].alone, Live(sends'[i]), Live(sends'[j])
               PROVE  i = j
    BY DEF Lone, Live
  <2>1. CASE i \in DOMAIN sends /\ j \in DOMAIN sends
    BY <1>1, <2>1 DEF AloneInv, Lone
  <2>2. CASE i \in DOMAIN sends /\ j \notin DOMAIN sends
    BY <1>1, <2>2
  <2>3. CASE i \notin DOMAIN sends /\ j \in DOMAIN sends
    BY <1>1, <2>3
  <2>4. CASE i \notin DOMAIN sends /\ j \notin DOMAIN sends
    BY <1>1, <2>4
  <2>5. QED
    BY <2>1, <2>2, <2>3, <2>4
<1>5. QED
  BY <1>2, <1>3, <1>4 DEF AloneInv

LEMMA EthTransferAlone ==
  ASSUME Inv, AloneInv, NEW price \in Prices, EthTransfer(price)
  PROVE  AloneInv'
<1> DEFINE q == [i \in DOMAIN sends |-> [sends[i] EXCEPT !.alone = @ /\ ~Meets(i)]]
           s == [Fresh("unlock") EXCEPT !.price = price, !.alone = (Met = {})]
<1>1. \A i \in DOMAIN sends :
        /\ q[i] \in Send /\ q[i].wallet = sends[i].wallet /\ q[i].fate = sends[i].fate
        /\ ToldOK(q[i]) /\ LoneOK(q[i])
        /\ Live(q[i]) <=> Live(sends[i])
        /\ q[i].alone <=> (sends[i].alone /\ ~Meets(i))
  <2> TAKE i \in DOMAIN sends
  <2>1. PICK b \in BOOLEAN : b <=> (sends[i].alone /\ ~Meets(i))
    OBVIOUS
  <2>2. sends[i].alone \in BOOLEAN
    BY SendsAlone DEF Send
  <2>3. q[i] = [sends[i] EXCEPT !.alone = b]
    BY <2>1, <2>2
  <2> HIDE DEF q
  <2>4. /\ q[i] \in Send /\ q[i].wallet = sends[i].wallet /\ q[i].fate = sends[i].fate
        /\ q[i].at = sends[i].at /\ q[i].told = sends[i].told
        /\ q[i].nonce = sends[i].nonce /\ q[i].owner = sends[i].owner
        /\ q[i].alone = b
    BY <2>3, SendsAlone DEF Send
  <2>5. QED
    BY <2>1, <2>4, SendsAlone DEF ToldOK, LoneOK, Live
<1>2. q \in Seq(Send) /\ DOMAIN q = DOMAIN sends
  <2>1. DOMAIN sends = 1..Len(sends) /\ Len(sends) \in Nat
    BY DEF Inv, PayInv, TypesOK
  <2>2. q \in [DOMAIN sends -> Send]
    BY <1>1, Zenon
  <2>3. DOMAIN q = DOMAIN sends
    OBVIOUS
  <2> HIDE DEF q
  <2>4. QED
    BY <2>1, <2>2, <2>3
<1>3. BrandOf[session] = "ETH"
  BY DEF EthTransfer, Confirming
<1>4. s \in Send
  BY <1>3, FreshEthOK DEF Inv
<1>5. s.wallet = session /\ s.at = "unlock" /\ s.fate = "none" /\ s.told = "none"
  BY DEF Fresh
<1>6. s.alone <=> Met = {}
  BY DEF Fresh
<1>7. sends' = Append(q, s)
  BY DEF EthTransfer
<1> HIDE DEF q, s
<1>8. ToldOK(s) /\ LoneOK(s)
  BY <1>5 DEF ToldOK, LoneOK
<1>9. \A i \in DOMAIN q :
        q[i].wallet = s.wallet /\ Live(q[i]) => ~q[i].alone /\ ~s.alone
  <2> SUFFICES ASSUME NEW i \in DOMAIN sends, q[i].wallet = s.wallet, Live(q[i])
               PROVE  ~q[i].alone /\ ~s.alone
    BY <1>2
  <2>1. Meets(i)
    BY <1>1, <1>5 DEF Meets, UnderWay, Live
  <2>2. QED
    BY <1>1, <1>6, <2>1 DEF Met
<1>10. QED
  BY <1>1, <1>2, <1>4, <1>7, <1>8, <1>9, OneMoreAlone DEF EthTransfer, chain

\* A transfer of another brand meets none of Ether.
LEMMA EnterAlone ==
  ASSUME Inv, AloneInv, NEW s \in Send, NEW tx, ToldOK(s), BrandOf[s.wallet] # "ETH",
         Enter(s, tx), UNCHANGED <<mined, pool>>
  PROVE  AloneInv'
<1>1. /\ sends \in Seq(Send) /\ sends' = Append(sends, s)
      /\ \A i \in DOMAIN sends : ToldOK(sends[i]) /\ LoneOK(sends[i])
  BY DEF Enter, Inv, PayInv, TypesOK, AloneInv
<1>2. LoneOK(s)
  BY DEF LoneOK
<1>3. QED
  BY <1>1, <1>2, OneMoreAlone

LEMMA TronTransferAlone == ASSUME Inv, AloneInv, TronTransfer PROVE AloneInv'
<1> DEFINE s == [Fresh("create") EXCEPT !.owner = client, !.key = NoWallet]
<1>1. s \in Send
  BY FreshTronOK DEF TronTransfer, Confirming, Inv
<1>2. ToldOK(s) /\ s.wallet = session
  BY DEF Fresh, ToldOK
<1>3. Enter(s, NoTx)
  BY DEF TronTransfer
<1> HIDE DEF s
<1>4. QED
  BY <1>1, <1>2, <1>3, EnterAlone DEF TronTransfer, Confirming, chain

LEMMA IostTransferAlone == ASSUME Inv, AloneInv, IostTransfer PROVE AloneInv'
<1>1. Fresh("info") \in Send
  BY FreshOK DEF IostTransfer, Confirming, Inv
<1>2. ToldOK(Fresh("info")) /\ Fresh("info").wallet = session
  BY DEF Fresh, ToldOK
<1>3. QED
  BY <1>1, <1>2, EnterAlone DEF IostTransfer, Confirming, chain

LEMMA BtcSendAlone ==
  ASSUME Inv, AloneInv, NEW amount, NEW rate, BtcSend(amount, rate), BrandOf[session] = "BTC",
         UNCHANGED <<mined, pool>>
  PROVE  AloneInv'
<1>1. PICK s \in {Fresh("raw"), [Fresh("end") EXCEPT !.told = "failure"]} : \E tx : Enter(s, tx)
  BY DEF BtcSend
<1>2. s \in Send
  BY FreshOK DEF Inv
<1>3. s.wallet = session /\ ToldOK(s)
  <2>1. Fresh("raw").wallet = session /\ ToldOK(Fresh("raw"))
    BY DEF Fresh, ToldOK
  <2>2. LET t == [Fresh("end") EXCEPT !.told = "failure"] IN t.wallet = session /\ ToldOK(t)
    BY DEF Fresh, ToldOK
  <2>3. QED
    BY <2>1, <2>2
<1>4. QED
  BY <1>1, <1>2, <1>3, EnterAlone

LEMMA ConfirmAlone == ASSUME Inv, AloneInv, Confirm PROVE AloneInv'
<1>1. CASE \E price \in Prices : EthTransfer(price)
  BY <1>1, EthTransferAlone
<1>2. CASE TronTransfer \/ IostTransfer
  BY <1>2, TronTransferAlone, IostTransferAlone
<1>3. CASE \E amount \in Amounts, rate \in Rates : BtcTransfer(amount, rate)
  BY <1>3, BtcSendAlone DEF BtcTransfer, Confirming, chain
<1>4. CASE TapAgain
  <2>1. BrandOf[session] = "BTC"
    BY <1>4 DEF TapAgain, Inv, PayInv
  <2>2. QED
    BY <1>4, <2>1, BtcSendAlone DEF TapAgain, chain
<1>5. QED
  BY <1>1, <1>2, <1>3, <1>4 DEF Confirm

\* A lone transfer is mined itself, or no transfer of its account is.
LEMMA MineAlone == ASSUME Inv, AloneInv, NEW w \in Of("ETH"), Mine(w) PROVE AloneInv'
<1> DEFINE i == pool[w]
           s == [sends[i] EXCEPT !.fate = "executed"]
<1>1. i \in DOMAIN sends /\ sends[i].wallet = w /\ BrandOf[w] = "ETH" /\ sends[i].fate = "pooled"
  BY PoolTyped DEF Mine, AloneInv
<1>2. /\ s \in Send /\ s.wallet = w /\ s.alone = sends[i].alone
      /\ s.at = sends[i].at /\ s.fate = "executed" /\ s.told = sends[i].told
  BY <1>1, SendsAlone DEF Send
<1>3. sends' = [sends EXCEPT ![i] = s]
  BY DEF Mine
<1> HIDE DEF s
<1>4. \A j \in DOMAIN sends : sends'[j] = IF j = i THEN s ELSE sends[j]
  BY <1>3 DEF Inv, PayInv, TypesOK
<1>5. sends' \in [DOMAIN sends -> Send]
  BY <1>2, <1>3, SendsTyped DEF Inv, PayInv, TypesOK
<1>6. ToldOK(s) /\ (Live(s) => Live(sends[i])) /\ s.at \in {"reply", "end"}
  BY <1>1, <1>2, SendsAlone DEF ToldOK, Live
<1>7. ASSUME NEW j \in DOMAIN sends PROVE LoneOK(sends[j])'
  <2>1. CASE j = i
    BY <1>1, <1>2, <1>4, <1>6, <2>1 DEF LoneOK
  <2>2. CASE j # i /\ sends[j].wallet # w
    <3>1. sends[j].owner # w /\ sends[j].owner = sends[j].wallet
      BY <2>2, SendsAlone DEF StageOK
    <3>2. mined'[sends[j].owner] = mined[sends[j].owner]
      BY <3>1 DEF Mine, Inv, PayInv, TypesOK
    <3>3. QED
      BY <1>4, <2>2, <3>2, SendsAlone DEF LoneOK
  <2>3. CASE j # i /\ sends[j].wallet = w
    <3>1. sends[j].alone => ~Live(sends[j])
      BY <1>1, <2>3 DEF AloneInv, Lone, Live
    <3>2. QED
      BY <1>4, <2>3, <3>1, SendsAlone DEF LoneOK, Live
  <2>4. QED
    BY <2>1, <2>2, <2>3
<1>8. ASSUME NEW v \in Of("ETH"), pool'[v] # 0
      PROVE  sends'[pool'[v]].fate = "pooled"
  <2>1. v # w /\ pool'[v] = pool[v]
    BY <1>8 DEF Mine, Inv, PayInv, TypesOK
  <2>2. pool[v] \in DOMAIN sends /\ pool[v] # i
    BY <1>1, <1>8, <2>1, PoolTyped
  <2>3. QED
    BY <1>4, <1>8, <2>1, <2>2 DEF AloneInv
<1>9. \A j \in DOMAIN sends :
        /\ sends'[j].wallet = sends[j].wallet /\ sends'[j].alone = sends[j].alone
        /\ Live(sends'[j]) => Live(sends[j])
        /\ ToldOK(sends'[j])
  BY <1>1, <1>2, <1>4, <1>6, SendsAlone
<1>10. QED
  BY <1>5, <1>7, <1>8, <1>9, AloneKept

\* A lone transfer finds its nonce due and no other with it.
LEMMA LoneIsAccepted ==
  ASSUME Inv, AloneInv, NEW i \in DOMAIN sends, sends[i].at \in {"raw", "stray"},
         Brand(i) = "ETH", sends[i].alone
  PROVE  Accepts(i)
<1>1. sends[i].nonce = mined[sends[i].owner] /\ sends[i].fate = "none" /\ Live(sends[i])
  BY SendsAlone DEF LoneOK, ToldOK, Live, Brand
<1>2. sends[i].owner \in Of("ETH") /\ sends[i].owner = sends[i].wallet
  BY SendsAlone DEF StageOK, Brand, Of, Send
<1>3. pool[sends[i].owner] = 0
  <2> SUFFICES ASSUME pool[sends[i].owner] # 0 PROVE FALSE
    OBVIOUS
  <2> DEFINE k == pool[sends[i].owner]
  <2>1. k \in DOMAIN sends /\ sends[k].wallet = sends[i].wallet /\ sends[k].fate = "pooled"
    BY <1>2, PoolTyped DEF AloneInv
  <2>2. k = i
    BY <1>1, <2>1 DEF AloneInv, Lone, Live, Brand
  <2>3. QED
    BY <1>1, <2>1, <2>2
<1>4. QED
  BY <1>1, <1>3 DEF Accepts

LEMMA ArrivesAlone == ASSUME Inv, AloneInv, NEW i \in DOMAIN sends, Arrives(i) PROVE AloneInv'
<1> DEFINE at == IF sends[i].at = "raw" THEN "reply" ELSE "end"
           s  == [sends[i] EXCEPT !.fate = Fate(i), !.at = at]
<1>1. sends[i].at \in {"raw", "stray"} /\ sends[i].fate = "none" /\ Live(sends[i])
  BY SendsAlone DEF Arrives, ToldOK, Live
<1>2. Fate(i) \in {"pooled", "executed", "refused"}
  BY DEF Fate
<1>3. BrandOf[sends[i].wallet] = "ETH" /\ sends[i].alone => Fate(i) = "pooled"
  BY <1>1, LoneIsAccepted DEF Fate, Brand
<1>4. /\ s \in Send /\ s.wallet = sends[i].wallet /\ s.alone = sends[i].alone
      /\ s.at \in {"reply", "end"} /\ s.fate = Fate(i) /\ s.told = sends[i].told
  BY <1>2, SendsAlone DEF Send
<1>5. ToldOK(s) /\ LoneOK(s)
  BY <1>1, <1>2, <1>3, <1>4, SendsAlone DEF ToldOK, LoneOK
<1>6. s = [sends[i] EXCEPT !.fate = Fate(i), !.at = IF @ = "raw" THEN "reply" ELSE "end"]
  OBVIOUS
<1> HIDE DEF s, at
<1>7. sends' = [j \in DOMAIN sends |->
                  IF j = i THEN s
                  ELSE IF j \in Replaced(i) THEN [sends[j] EXCEPT !.fate = "dropped"]
                  ELSE sends[j]]
  BY <1>6, Zenon DEF Arrives
<1>8. ASSUME NEW j \in Replaced(i)
      PROVE  /\ j \in DOMAIN sends /\ j = pool[sends[i].owner] /\ Fate(i) = "pooled"
             /\ sends[j].wallet = sends[i].wallet /\ sends[j].fate = "pooled"
             /\ BrandOf[sends[j].wallet] = "ETH"
  <2>1. /\ j = pool[sends[i].owner] /\ j # 0 /\ Fate(i) = "pooled"
        /\ sends[i].owner \in Of("ETH") /\ sends[i].owner = sends[i].wallet
    BY SendsAlone DEF Replaced, Fate, Brand, StageOK, Of, Send
  <2>2. QED
    BY <2>1, PoolTyped DEF AloneInv
<1>9. ASSUME NEW j \in Replaced(i), j # i
      PROVE  LET t == [sends[j] EXCEPT !.fate = "dropped"] IN
             /\ t \in Send /\ t.wallet = sends[j].wallet /\ t.alone = sends[j].alone
             /\ Live(t) => Live(sends[j])
             /\ ToldOK(t) /\ LoneOK(t)
  <2>1. ~sends[j].alone
    BY <1>1, <1>8, <1>9 DEF AloneInv, Lone, Live
  <2> DEFINE t == [sends[j] EXCEPT !.fate = "dropped"]
  <2>2. /\ t \in Send /\ t.wallet = sends[j].wallet /\ t.alone = sends[j].alone
        /\ t.at = sends[j].at /\ t.fate = "dropped" /\ t.told = sends[j].told
    BY <1>8, SendsAlone DEF Send
  <2> HIDE DEF t
  <2>3. (Live(t) => Live(sends[j])) /\ ToldOK(t) /\ LoneOK(t)
    BY <1>8, <2>1, <2>2, SendsAlone DEF Live, ToldOK, LoneOK
  <2>4. QED
    BY <2>2, <2>3 DEF t
<1>10. ASSUME NEW j \in DOMAIN sends
       PROVE  /\ sends'[j] \in Send
              /\ sends'[j].wallet = sends[j].wallet /\ sends'[j].alone = sends[j].alone
              /\ Live(sends'[j]) => Live(sends[j])
              /\ ToldOK(sends'[j]) /\ LoneOK(sends'[j])
  <2>1. CASE j = i
    BY <1>1, <1>4, <1>5, <1>7, <2>1
  <2>2. CASE j # i /\ j \in Replaced(i)
    BY <1>7, <1>9, <2>2
  <2>3. CASE j # i /\ j \notin Replaced(i)
    BY <1>7, <2>3, SendsAlone
  <2>4. QED
    BY <2>1, <2>2, <2>3
<1>11. sends' \in [DOMAIN sends -> Send]
  BY <1>7, <1>10
<1>12. \A j \in DOMAIN sends : LoneOK(sends[j])'
  BY <1>10 DEF Arrives, LoneOK
<1>13. ASSUME NEW v \in Of("ETH"), pool'[v] # 0
       PROVE  sends'[pool'[v]].fate = "pooled"
  <2>1. CASE pool'[v] = i
    <3>1. pool[v] # i
      <4>1. i # 0
        BY DEF Inv, PayInv, TypesOK
      <4>2. QED
        BY <1>1, <4>1 DEF AloneInv
    <3>2. Fate(i) = "pooled"
      BY <2>1, <3>1 DEF Arrives
    <3>3. QED
      BY <1>4, <1>7, <2>1, <3>2
  <2>2. CASE pool'[v] # i
    <3>1. /\ pool'[v] = pool[v]
          /\ Fate(i) = "pooled" => v # sends[i].owner
      BY <2>2 DEF Arrives, Inv, PayInv, TypesOK
    <3>2. /\ pool[v] \in DOMAIN sends /\ sends[pool[v]].wallet = v
          /\ sends[pool[v]].fate = "pooled"
      BY <1>13, <3>1, PoolTyped DEF AloneInv
    <3>3. pool[v] \notin Replaced(i)
      BY <1>8, <3>1, <3>2, SendsAlone DEF StageOK
    <3>4. QED
      BY <1>7, <2>2, <3>1, <3>2, <3>3
  <2>3. QED
    BY <2>1, <2>2
<1>14. QED
  BY <1>10, <1>11, <1>12, <1>13, AloneKept

-----------------------------------------------------------------------------
(* Sums over sets of outputs.  Each fact is about a subset that would be a     *)
(* counterexample with none below it.                                         *)

Pick(s) == CHOOSE x \in s : TRUE

IsSums(it, T) ==
  it = [s \in SUBSET T |-> IF s = {} THEN 0 ELSE Pick(s).value + it[s \ {Pick(s)}]]

LEMMA ValuesIter == ASSUME NEW T PROVE Values(T) = (CHOOSE it : IsSums(it, T))[T]
BY DEF Values, MapThenSumSet, MapThenFoldSet, IsSums, Pick

IsRounds(it, n, amount, rate, T) ==
  it = [s \in SUBSET T |->
          IF s = {} THEN NothingTaken(amount, rate)
          ELSE LET sel == it[s \ {Dearest(s)}] IN
               IF sel.enough THEN sel ELSE FeeRound(n, amount, sel, Dearest(s))]

LEMMA RoundsIter ==
  ASSUME NEW n, NEW amount, NEW rate, NEW T
  PROVE Rounds(n, amount, rate, T) = (CHOOSE it : IsRounds(it, n, amount, rate, T))[T]
BY DEF Rounds, MapThenFoldSet, IsRounds

\* Of a collection of subsets of a finite set one has no other below it.
LEMMA MinimalSubset ==
  ASSUME NEW S, IsFiniteSet(S), NEW Bad, Bad \subseteq SUBSET S, Bad # {}
  PROVE  \E T \in Bad : \A U \in Bad : U \subseteq T => U = T
<1>1. IsWellFoundedOn(StrictSubsetOrdering(S), SUBSET S)
  BY FS_StrictSubsetOrderingWellFounded, FS_FiniteSubsetsOfFinite
<1>2. PICK T \in Bad : \A U \in Bad : ~ (<<U, T>> \in StrictSubsetOrdering(S))
  BY <1>1, WFMin
<1>3. QED
  BY <1>2 DEF StrictSubsetOrdering

\* What the sum of a set is when its strict subsets have the sums they should.
SumOf(s) == IF s = {} THEN 0 ELSE Pick(s).value + Values(s \ {Pick(s)})

LEMMA RestSmaller == ASSUME NEW s, s # {} PROVE s \ {Pick(s)} \subseteq s /\ s \ {Pick(s)} # s
BY DEF Pick

LEMMA ValuesStep ==
  ASSUME NEW T, \A U : U \subseteq T /\ U # T => Values(U) = SumOf(U) /\ (\A it : IsSums(it, U) => it[U] = Values(U))
  PROVE  Values(T) = SumOf(T) /\ (\A it : IsSums(it, T) => it[T] = Values(T))
<1>1. ASSUME NEW it, IsSums(it, T)
      PROVE  it[T] = SumOf(T)
  <2>1. it[T] = IF T = {} THEN 0 ELSE Pick(T).value + it[T \ {Pick(T)}]
    BY <1>1 DEF IsSums
  <2>2. ASSUME T # {} PROVE it[T \ {Pick(T)}] = Values(T \ {Pick(T)})
    <3>1. PICK U : U = T \ {Pick(T)}
      OBVIOUS
    <3>2. U \subseteq T /\ U # T
      BY <2>2, <3>1, RestSmaller
    <3>3. PICK ju : ju = [s \in SUBSET U |-> it[s]]
      OBVIOUS
    <3>4. IsSums(ju, U)
      <4>1. ASSUME NEW s \in SUBSET U
            PROVE  ju[s] = IF s = {} THEN 0 ELSE Pick(s).value + ju[s \ {Pick(s)}]
        <5>1. it[s] = IF s = {} THEN 0 ELSE Pick(s).value + it[s \ {Pick(s)}]
          BY <1>1, <3>2 DEF IsSums
        <5>2. ju[s] = it[s] /\ ju[s \ {Pick(s)}] = it[s \ {Pick(s)}]
          BY <3>3
        <5>3. QED
          BY <5>1, <5>2
      <4>2. QED
        BY <3>3, <4>1 DEF IsSums
    <3>5. ju[U] = Values(U)
      BY <3>2, <3>4
    <3>6. QED
      BY <3>1, <3>3, <3>5
  <2>3. QED
    BY <2>1, <2>2 DEF SumOf
<1>2. \E it : IsSums(it, T)
  <2>1. PICK it : it = [s \in SUBSET T |-> IF s = T THEN SumOf(T) ELSE Values(s)]
    OBVIOUS
  <2>2. ASSUME NEW s \in SUBSET T
        PROVE  it[s] = IF s = {} THEN 0 ELSE Pick(s).value + it[s \ {Pick(s)}]
    <3>1. it[s] = SumOf(s)
      BY <2>1
    <3>2. s # {} => s \ {Pick(s)} \in SUBSET T /\ s \ {Pick(s)} # T
      BY RestSmaller
    <3>3. s # {} => it[s \ {Pick(s)}] = Values(s \ {Pick(s)})
      BY <2>1, <3>2
    <3>4. QED
      BY <3>1, <3>3 DEF SumOf
  <2>3. IsSums(it, T)
    BY <2>1, <2>2 DEF IsSums
  <2>4. QED
    BY <2>3
<1>3. PICK it : it = CHOOSE jt : IsSums(jt, T)
  OBVIOUS
<1>4. IsSums(it, T)
  BY <1>2, <1>3
<1>5. Values(T) = it[T]
  BY <1>3, ValuesIter
<1>6. QED
  BY <1>1, <1>4, <1>5

LEMMA ValuesOfFinite == ASSUME NEW T, IsFiniteSet(T) PROVE Values(T) = SumOf(T)
<1> DEFINE Good(U) == Values(U) = SumOf(U) /\ (\A it : IsSums(it, U) => it[U] = Values(U))
           Bad == {U \in SUBSET T : ~Good(U)}
<1>1. SUFFICES ASSUME Bad # {} PROVE FALSE
  OBVIOUS
<1>2. PICK U \in Bad : \A V \in Bad : V \subseteq U => V = U
  <2>1. Bad \subseteq SUBSET T
    OBVIOUS
  <2> HIDE DEF Bad
  <2>2. QED
    BY <1>1, <2>1, MinimalSubset
<1>3. \A V : V \subseteq U /\ V # U => Good(V)
  BY <1>2
<1>4. Good(U)
  BY <1>3, ValuesStep
<1>5. QED
  BY <1>2, <1>4

\* Outputs worth natural numbers of satoshi.
Worthy(outs) == IsFiniteSet(outs) /\ \A out \in outs : out.value \in Nat

LEMMA WorthySubset == ASSUME NEW T, Worthy(T), NEW U, U \subseteq T PROVE Worthy(U)
BY FS_Subset DEF Worthy

LEMMA ValuesOfNone == Values({}) = 0
BY FS_EmptySet, ValuesOfFinite DEF SumOf

LEMMA ValuesType == ASSUME NEW T, Worthy(T) PROVE Values(T) \in Nat
<1> DEFINE Bad == {U \in SUBSET T : Values(U) \notin Nat}
<1>1. SUFFICES ASSUME Bad # {} PROVE FALSE
  OBVIOUS
<1>2. PICK U \in Bad : \A V \in Bad : V \subseteq U => V = U
  <2>1. Bad \subseteq SUBSET T
    OBVIOUS
  <2> HIDE DEF Bad
  <2>2. QED
    BY <1>1, <2>1, MinimalSubset DEF Worthy
<1>3. Worthy(U)
  BY WorthySubset
<1>4. Values(U) = SumOf(U)
  BY <1>3, ValuesOfFinite DEF Worthy
<1>5. CASE U = {}
  BY <1>2, <1>4, <1>5 DEF SumOf
<1>6. CASE U # {}
  <2>1. U \ {Pick(U)} \notin Bad
    BY <1>2, <1>6, RestSmaller
  <2>2. Values(U \ {Pick(U)}) \in Nat
    BY <2>1
  <2>3. Pick(U) \in U
    BY <1>6 DEF Pick
  <2>4. Pick(U).value \in Nat
    BY <1>3, <2>3 DEF Worthy
  <2>5. QED
    BY <1>2, <1>4, <1>6, <2>2, <2>4 DEF SumOf
<1>7. QED
  BY <1>5, <1>6

LEMMA ValuesWithout ==
  ASSUME NEW T, Worthy(T), NEW x \in T
  PROVE  Values(T) = x.value + Values(T \ {x})
<1> DEFINE Good(U) == \A y \in U : Values(U) = y.value + Values(U \ {y})
           Bad == {U \in SUBSET T : ~Good(U)}
<1>1. SUFFICES ASSUME Bad # {} PROVE FALSE
  OBVIOUS
<1>2. PICK U \in Bad : \A V \in Bad : V \subseteq U => V = U
  <2>1. Bad \subseteq SUBSET T
    OBVIOUS
  <2> HIDE DEF Bad
  <2>2. QED
    BY <1>1, <2>1, MinimalSubset DEF Worthy
<1>3. Worthy(U)
  BY WorthySubset
<1>4. PICK y \in U : Values(U) # y.value + Values(U \ {y})
  BY <1>2
<1>5. PICK p : p = Pick(U)
  OBVIOUS
<1>6. p \in U /\ Values(U) = p.value + Values(U \ {p})
  <2>1. U # {}
    OBVIOUS
  <2>2. Values(U) = SumOf(U)
    BY <1>3, ValuesOfFinite DEF Worthy
  <2>3. QED
    BY <1>5, <2>1, <2>2 DEF SumOf, Pick
<1>7. p # y
  BY <1>4, <1>6
<1>8. PICK V : V = (U \ {p}) \ {y}
  OBVIOUS
<1>9. Values(U \ {p}) = y.value + Values(V)
  <2>1. U \ {p} \notin Bad
    BY <1>2, <1>6
  <2>2. y \in U \ {p}
    BY <1>7
  <2>3. QED
    BY <1>8, <2>1, <2>2
<1>10. Values(U \ {y}) = p.value + Values(V)
  <2>1. U \ {y} \notin Bad
    BY <1>2
  <2>2. p \in U \ {y} /\ (U \ {y}) \ {p} = V
    BY <1>6, <1>7, <1>8
  <2>3. QED
    BY <2>1, <2>2
<1>11. p.value \in Nat /\ y.value \in Nat /\ Values(V) \in Nat
  <2>1. Worthy(V)
    BY <1>3, <1>8, WorthySubset
  <2>2. QED
    BY <1>3, <1>6, <2>1, ValuesType DEF Worthy
<1>12. QED
  BY <1>4, <1>6, <1>9, <1>10, <1>11

LEMMA DearestExists ==
  ASSUME NEW T, Worthy(T), T # {}
  PROVE  Dearest(T) \in T /\ \A y \in T : y.value <= Dearest(T).value
<1> DEFINE Good(U) == U # {} => \E x \in U : \A y \in U : y.value <= x.value
           Bad == {U \in SUBSET T : ~Good(U)}
<1>1. ASSUME Bad # {} PROVE FALSE
  <2>1. PICK U \in Bad : \A V \in Bad : V \subseteq U => V = U
    <3>1. Bad \subseteq SUBSET T
      OBVIOUS
    <3> HIDE DEF Bad
    <3>2. QED
      BY <1>1, <3>1, MinimalSubset DEF Worthy
  <2>2. PICK z \in U : TRUE
    BY <2>1
  <2>3. \A y \in U : y.value \in Nat
    BY DEF Worthy
  <2>4. U \ {z} \notin Bad
    BY <2>1
  <2>5. CASE U \ {z} = {}
    BY <2>1, <2>3, <2>5
  <2>6. CASE U \ {z} # {}
    <3>1. PICK x \in U \ {z} : \A y \in U \ {z} : y.value <= x.value
      BY <2>4, <2>6
    <3>2. CASE z.value <= x.value
      BY <2>1, <2>3, <3>1, <3>2
    <3>3. CASE x.value < z.value
      <4>1. \A y \in U : y.value <= z.value
        BY <2>3, <3>1, <3>3
      <4>2. QED
        BY <2>1, <4>1
    <3>4. QED
      BY <2>3, <3>2, <3>3
  <2>7. QED
    BY <2>5, <2>6
<1>2. \E x \in T : \A y \in T : y.value <= x.value
  <2>1. T \notin Bad
    BY <1>1
  <2>2. QED
    BY <2>1
<1>3. QED
  BY <1>2 DEF Dearest

\* What the loop over s leaves when the loop over all but the dearest left sel.
LastRound(n, amount, rate, s, sel) ==
  IF s = {} THEN NothingTaken(amount, rate)
  ELSE IF sel.enough THEN sel ELSE FeeRound(n, amount, sel, Dearest(s))

Rounded(n, amount, rate, s) ==
  LastRound(n, amount, rate, s, Rounds(n, amount, rate, s \ {Dearest(s)}))

LEMMA IsRoundsAt ==
  ASSUME NEW n, NEW amount, NEW rate, NEW it, NEW T
  PROVE  IsRounds(it, n, amount, rate, T) <=>
           it = [s \in SUBSET T |-> LastRound(n, amount, rate, s, it[s \ {Dearest(s)}])]
BY DEF IsRounds, LastRound

LEMMA RoundsStep ==
  ASSUME NEW n, NEW amount, NEW rate, NEW T, Worthy(T),
         \A U : U \subseteq T /\ U # T =>
           /\ Rounds(n, amount, rate, U) = Rounded(n, amount, rate, U)
           /\ \A it : IsRounds(it, n, amount, rate, U) => it[U] = Rounds(n, amount, rate, U)
  PROVE  /\ Rounds(n, amount, rate, T) = Rounded(n, amount, rate, T)
         /\ \A it : IsRounds(it, n, amount, rate, T) => it[T] = Rounds(n, amount, rate, T)
<1>1. ASSUME NEW it, IsRounds(it, n, amount, rate, T)
      PROVE  it[T] = Rounded(n, amount, rate, T)
  <2>1. it = [s \in SUBSET T |-> LastRound(n, amount, rate, s, it[s \ {Dearest(s)}])]
    BY <1>1, IsRoundsAt
  <2>2. it[T] = LastRound(n, amount, rate, T, it[T \ {Dearest(T)}])
    BY <2>1
  <2>3. ASSUME T # {}
        PROVE  it[T \ {Dearest(T)}] = Rounds(n, amount, rate, T \ {Dearest(T)})
    <3>1. PICK U : U = T \ {Dearest(T)}
      OBVIOUS
    <3>2. U \subseteq T /\ U # T
      BY <2>3, <3>1, DearestExists
    <3>3. PICK ju : ju = [s \in SUBSET U |-> it[s]]
      OBVIOUS
    <3>4. \A s \in SUBSET U : ju[s] = LastRound(n, amount, rate, s, ju[s \ {Dearest(s)}])
      <4> TAKE s \in SUBSET U
      <4>1. it[s] = LastRound(n, amount, rate, s, it[s \ {Dearest(s)}])
        BY <2>1, <3>2
      <4>2. ju[s] = it[s] /\ ju[s \ {Dearest(s)}] = it[s \ {Dearest(s)}]
        BY <3>3
      <4>3. QED
        BY <4>1, <4>2
    <3>5. IsRounds(ju, n, amount, rate, U)
      <4>1. ju = [s \in SUBSET U |-> LastRound(n, amount, rate, s, ju[s \ {Dearest(s)}])]
        BY <3>3, <3>4
      <4>2. QED
        BY <4>1, IsRoundsAt
    <3>6. ju[U] = Rounds(n, amount, rate, U)
      BY <3>2, <3>5
    <3>7. QED
      BY <3>1, <3>3, <3>6
  <2>4. QED
    BY <2>2, <2>3 DEF Rounded, LastRound
<1>2. \E it : IsRounds(it, n, amount, rate, T)
  <2>1. PICK it : it = [s \in SUBSET T |-> IF s = T THEN Rounded(n, amount, rate, T)
                                           ELSE Rounds(n, amount, rate, s)]
    OBVIOUS
  <2>2. \A s \in SUBSET T : it[s] = LastRound(n, amount, rate, s, it[s \ {Dearest(s)}])
    <3> TAKE s \in SUBSET T
    <3>1. it[s] = Rounded(n, amount, rate, s)
      BY <2>1
    <3>2. ASSUME s # {}
          PROVE  it[s \ {Dearest(s)}] = Rounds(n, amount, rate, s \ {Dearest(s)})
      <4>1. Dearest(s) \in s
        BY <3>2, WorthySubset, DearestExists
      <4>2. s \ {Dearest(s)} \in SUBSET T /\ s \ {Dearest(s)} # T
        BY <4>1
      <4>3. QED
        BY <2>1, <4>2
    <3>3. QED
      BY <3>1, <3>2 DEF Rounded, LastRound
  <2>3. IsRounds(it, n, amount, rate, T)
    <3>1. it = [s \in SUBSET T |-> LastRound(n, amount, rate, s, it[s \ {Dearest(s)}])]
      BY <2>1, <2>2
    <3>2. QED
      BY <3>1, IsRoundsAt
  <2>4. QED
    BY <2>3
<1>3. PICK it : it = CHOOSE jt : IsRounds(jt, n, amount, rate, T)
  OBVIOUS
<1>4. IsRounds(it, n, amount, rate, T)
  BY <1>2, <1>3
<1>5. Rounds(n, amount, rate, T) = it[T]
  BY <1>3, RoundsIter
<1>6. QED
  BY <1>1, <1>4, <1>5

LEMMA RoundsOfFinite ==
  ASSUME NEW n, NEW amount, NEW rate, NEW T, Worthy(T)
  PROVE  Rounds(n, amount, rate, T) = Rounded(n, amount, rate, T)
<1> DEFINE Good(U) == /\ Rounds(n, amount, rate, U) = Rounded(n, amount, rate, U)
                      /\ \A it : IsRounds(it, n, amount, rate, U) =>
                           it[U] = Rounds(n, amount, rate, U)
           Bad == {U \in SUBSET T : ~Good(U)}
<1>1. SUFFICES ASSUME Bad # {} PROVE FALSE
  OBVIOUS
<1>2. PICK U \in Bad : \A V \in Bad : V \subseteq U => V = U
  <2>1. Bad \subseteq SUBSET T
    OBVIOUS
  <2> HIDE DEF Bad
  <2>2. QED
    BY <1>1, <2>1, MinimalSubset DEF Worthy
<1>3. \A V : V \subseteq U /\ V # U => Good(V)
  BY <1>2
<1>4. Good(U)
  BY <1>3, RoundsStep, WorthySubset
<1>5. QED
  BY <1>2, <1>4

\* What is true of the outputs taken, however far the loop has come.
SelectionOK(sel, amount, outs) ==
  /\ sel.inputs \subseteq outs
  /\ sel.balance = Values(sel.inputs) /\ sel.balance \in Nat
  /\ sel.balance <= Values(outs)
  /\ sel.fee \in Int /\ sel.total \in Int /\ sel.enough \in BOOLEAN
  /\ sel.enough => sel.balance >= sel.total /\ sel.balance >= amount
  /\ ~sel.enough => sel.inputs = outs /\ sel.total = amount

LEMMA WrappedType == ASSUME NEW x \in Int PROVE Wrapped(x) \in Int
BY WordAssumption DEF Wrapped

LEMMA RoundOK ==
  ASSUME NEW n \in Nat, NEW amount \in Nat, NEW outs, Worthy(outs), NEW out \in outs,
         NEW sel, SelectionOK(sel, amount, outs \ {out}), ~sel.enough
  PROVE  SelectionOK(FeeRound(n, amount, sel, out), amount, outs)
<1>1. PICK new : new = FeeRound(n, amount, sel, out)
  OBVIOUS
<1>2. sel.inputs = outs \ {out} /\ sel.balance = Values(outs \ {out}) /\ sel.balance \in Nat
      /\ sel.fee \in Int
  BY DEF SelectionOK
<1>3. new.inputs = outs /\ new.balance = sel.balance + out.value
  BY <1>1, <1>2 DEF FeeRound
<1>4. new.balance = Values(outs) /\ new.balance \in Nat
  BY <1>2, <1>3, ValuesWithout, ValuesType DEF Worthy
<1>5. Size(n) * sel.fee \in Int
  BY <1>2 DEF Size
<1>6. new.fee \in Int
  BY <1>1, <1>5, WrappedType DEF FeeRound
<1>7. /\ new.enough = (new.balance >= amount /\ new.balance >= amount + new.fee)
      /\ new.total = IF new.enough THEN amount + new.fee ELSE amount
  BY <1>1 DEF FeeRound
<1>8. QED
  <2>1. new.total \in Int /\ new.enough \in BOOLEAN
    BY <1>6, <1>7
  <2>2. new.enough => new.balance >= new.total /\ new.balance >= amount
    BY <1>4, <1>6, <1>7
  <2>3. ~new.enough => new.total = amount
    BY <1>7
  <2>4. new.balance = Values(new.inputs) /\ new.balance <= Values(outs)
    BY <1>3, <1>4
  <2>5. QED
    BY <1>1, <1>3, <1>4, <1>6, <2>1, <2>2, <2>3, <2>4 DEF SelectionOK

LEMMA RoundsOK ==
  ASSUME NEW n \in Nat, NEW amount \in Nat, NEW rate \in Nat, NEW T, Worthy(T)
  PROVE  SelectionOK(Rounds(n, amount, rate, T), amount, T)
<1> DEFINE Bad == {U \in SUBSET T : ~SelectionOK(Rounds(n, amount, rate, U), amount, U)}
<1>1. SUFFICES ASSUME Bad # {} PROVE FALSE
  OBVIOUS
<1>2. PICK U \in Bad : \A V \in Bad : V \subseteq U => V = U
  <2>1. Bad \subseteq SUBSET T
    OBVIOUS
  <2> HIDE DEF Bad
  <2>2. QED
    BY <1>1, <2>1, MinimalSubset DEF Worthy
<1>3. Worthy(U)
  BY WorthySubset
<1>4. Rounds(n, amount, rate, U) = Rounded(n, amount, rate, U)
  BY <1>3, RoundsOfFinite
<1>5. CASE U = {}
  <2>1. Rounds(n, amount, rate, U) = NothingTaken(amount, rate)
    BY <1>4, <1>5 DEF Rounded, LastRound
  <2>2. SelectionOK(NothingTaken(amount, rate), amount, {})
    BY ValuesOfNone DEF SelectionOK, NothingTaken
  <2>3. QED
    BY <1>2, <1>5, <2>1, <2>2
<1>6. CASE U # {}
  <2>1. PICK d : d = Dearest(U)
    OBVIOUS
  <2>2. d \in U
    BY <1>3, <1>6, <2>1, DearestExists
  <2>3. PICK sel : sel = Rounds(n, amount, rate, U \ {d})
    OBVIOUS
  <2>4. SelectionOK(sel, amount, U \ {d})
    <3>1. U \ {d} \notin Bad
      BY <1>2, <2>2
    <3>2. QED
      BY <2>3, <3>1
  <2>5. Rounds(n, amount, rate, U) = IF sel.enough THEN sel ELSE FeeRound(n, amount, sel, d)
    BY <1>4, <1>6, <2>1, <2>3 DEF Rounded, LastRound
  <2>6. ~SelectionOK(Rounds(n, amount, rate, U), amount, U)
    BY <1>2
  <2>7. CASE ~sel.enough
    BY <1>3, <2>2, <2>4, <2>5, <2>6, <2>7, RoundOK
  <2>8. CASE sel.enough
    <3>1. Values(U) = d.value + Values(U \ {d}) /\ Values(U \ {d}) \in Nat /\ d.value \in Nat
      <4>1. Worthy(U \ {d})
        BY <1>3, WorthySubset
      <4>2. QED
        BY <1>3, <2>2, <4>1, ValuesWithout, ValuesType DEF Worthy
    <3>2. SelectionOK(sel, amount, U)
      BY <2>4, <2>8, <3>1 DEF SelectionOK
    <3>3. QED
      BY <2>5, <2>6, <2>8, <3>2
  <2>9. QED
    BY <2>7, <2>8 DEF SelectionOK
<1>7. QED
  BY <1>5, <1>6

\* An amount is refused only when the outputs do not make it up, and what a
\* transfer gives back to its sender is never a debt.
LEMMA SelectSound ==
  ASSUME NEW outs, Worthy(outs), NEW amount \in Nat, NEW rate \in Nat
  PROVE  LET sel == Select(outs, amount, rate) IN
         /\ sel.inputs \subseteq outs
         /\ Payable(sel) <=> Values(outs) >= amount
         /\ Payable(sel) => Change(sel) \in Nat
<1>1. PICK sel : sel = Select(outs, amount, rate)
  OBVIOUS
<1>2. Cardinality(outs) \in Nat
  BY FS_CardinalityType DEF Worthy
<1>3. SelectionOK(sel, amount, outs)
  BY <1>1, <1>2, RoundsOK DEF Select
<1>4. Values(outs) \in Nat
  BY ValuesType
<1>5. QED
  BY <1>1, <1>3, <1>4 DEF SelectionOK, Payable, Change

\* The fees of n rounds, as they would be without a limit, are below the limit.
FeesFit(n, rate) ==
  \E fees \in [0..n -> Nat] :
    /\ fees[0] = rate
    /\ \A k \in 1..n : fees[k] = Size(n) * fees[k - 1]
    /\ \A k \in 0..n : fees[k] < Word \div 2

LEMMA WrappedFits ==
  ASSUME NEW x \in Nat, x < Word \div 2
  PROVE  Wrapped(x) = x
<1>1. PICK half : half = Word \div 2
  OBVIOUS
<1>2. half \in Nat /\ Word = 2 * half /\ Word > 0
  BY <1>1, WordAssumption
<1>3. (x + half) % Word = x + half
  <2>1. x + half \in Nat /\ x + half < Word
    BY <1>1, <1>2
  <2>2. \A a, b \in Nat : b > 0 /\ a < b => a % b = a
    OBVIOUS
  <2>3. QED
    BY <1>2, <2>1, <2>2
<1>4. QED
  BY <1>1, <1>2, <1>3 DEF Wrapped

LEMMA ProductsGrow ==
  ASSUME NEW a \in Nat, NEW b \in Nat, NEW c \in Nat, NEW d \in Nat, a >= b, c >= d
  PROVE  a * c >= b * d
<1>1. PICK e \in Nat : a = b + e
  <2>1. a - b \in Nat /\ a = b + (a - b)
    OBVIOUS
  <2>2. QED
    BY <2>1
<1>2. PICK f \in Nat : c = d + f
  <2>1. c - d \in Nat /\ c = d + (c - d)
    OBVIOUS
  <2>2. QED
    BY <2>1
<1>3. a * c = b * d + b * f + e * d + e * f
  BY <1>1, <1>2
<1>4. b * d \in Nat /\ b * f \in Nat /\ e * d \in Nat /\ e * f \in Nat
  OBVIOUS
<1>5. QED
  BY <1>3, <1>4

\* What is true of the fee after each round, as long as fees fit.
FeeOK(sel, fees, n, amount, rate) ==
  /\ Cardinality(sel.inputs) \in 0..n
  /\ sel.fee = fees[Cardinality(sel.inputs)] /\ sel.fee >= rate
  /\ sel.enough => /\ sel.total = amount + sel.fee
                   /\ sel.fee >= Size(Cardinality(sel.inputs)) * rate

LEMMA FeeRoundOK ==
  ASSUME NEW n \in Nat, NEW amount \in Nat, NEW rate \in Nat, NEW fees \in [0..n -> Nat],
         \A k \in 1..n : fees[k] = Size(n) * fees[k - 1],
         \A k \in 0..n : fees[k] < Word \div 2,
         NEW outs, IsFiniteSet(outs), Cardinality(outs) <= n, NEW out \in outs,
         NEW sel, sel.inputs = outs \ {out}, FeeOK(sel, fees, n, amount, rate)
  PROVE  FeeOK(FeeRound(n, amount, sel, out), fees, n, amount, rate)
<1>1. PICK new : new = FeeRound(n, amount, sel, out)
  OBVIOUS
<1>2. PICK k : k = Cardinality(outs)
  OBVIOUS
<1>3. k \in 1..n /\ Cardinality(sel.inputs) = k - 1
  <2>1. k \in Nat /\ Cardinality(outs \ {out}) = k - 1 /\ Cardinality(outs \ {out}) \in Nat
    BY <1>2, FS_CardinalityType, FS_RemoveElement
  <2>2. QED
    BY <1>2, <2>1
<1>4. new.inputs = outs
  BY <1>1 DEF FeeRound
<1>5. sel.fee = fees[k - 1] /\ sel.fee \in Nat /\ sel.fee >= rate
  <2>1. k - 1 \in 0..n
    BY <1>3
  <2>2. QED
    BY <1>3, <2>1 DEF FeeOK
<1>6. Size(n) * sel.fee = fees[k] /\ fees[k] \in Nat /\ fees[k] < Word \div 2
  BY <1>3, <1>5
<1>7. new.fee = fees[k]
  <2>1. Wrapped(fees[k]) = fees[k]
    BY <1>6, WrappedFits
  <2>2. QED
    BY <1>1, <1>6, <2>1 DEF FeeRound
<1>8. Size(n) \in Nat /\ Size(k) \in Nat /\ Size(n) >= Size(k) /\ Size(n) >= 1
  BY <1>3 DEF Size
<1>9. new.fee >= Size(k) * rate
  <2>1. Size(n) * sel.fee >= Size(k) * rate
    BY <1>5, <1>8, ProductsGrow
  <2>2. QED
    BY <1>6, <1>7, <2>1
<1>10. new.fee >= rate
  <2>1. Size(n) * sel.fee >= 1 * rate
    BY <1>5, <1>8, ProductsGrow
  <2>2. QED
    BY <1>6, <1>7, <2>1
<1>11. new.enough => new.total = amount + new.fee
  BY <1>1 DEF FeeRound
<1>12. QED
  <2>1. k \in 0..n
    BY <1>3
  <2>2. QED
    BY <1>1, <1>2, <1>4, <1>7, <1>9, <1>10, <1>11, <2>1 DEF FeeOK

LEMMA RoundsFeeOK ==
  ASSUME NEW n \in Nat, NEW amount \in Nat, NEW rate \in Nat, NEW fees \in [0..n -> Nat],
         fees[0] = rate,
         \A k \in 1..n : fees[k] = Size(n) * fees[k - 1],
         \A k \in 0..n : fees[k] < Word \div 2,
         NEW T, Worthy(T), Cardinality(T) <= n
  PROVE  FeeOK(Rounds(n, amount, rate, T), fees, n, amount, rate)
<1> DEFINE Bad == {U \in SUBSET T : ~FeeOK(Rounds(n, amount, rate, U), fees, n, amount, rate)}
<1>1. SUFFICES ASSUME Bad # {} PROVE FALSE
  OBVIOUS
<1>2. PICK U \in Bad : \A V \in Bad : V \subseteq U => V = U
  <2>1. Bad \subseteq SUBSET T
    OBVIOUS
  <2> HIDE DEF Bad
  <2>2. QED
    BY <1>1, <2>1, MinimalSubset DEF Worthy
<1>3. Worthy(U)
  BY WorthySubset
<1>4. Cardinality(U) <= n
  <2>1. Cardinality(U) <= Cardinality(T) /\ Cardinality(U) \in Nat /\ Cardinality(T) \in Nat
    BY <1>3, FS_Subset, FS_CardinalityType DEF Worthy
  <2>2. QED
    BY <2>1
<1>5. Rounds(n, amount, rate, U) = Rounded(n, amount, rate, U)
  BY <1>3, RoundsOfFinite
<1>6. ~FeeOK(Rounds(n, amount, rate, U), fees, n, amount, rate)
  BY <1>2
<1>7. CASE U = {}
  <2>1. Rounds(n, amount, rate, U) = NothingTaken(amount, rate)
    BY <1>5, <1>7 DEF Rounded, LastRound
  <2>2. FeeOK(NothingTaken(amount, rate), fees, n, amount, rate)
    BY FS_EmptySet DEF FeeOK, NothingTaken
  <2>3. QED
    BY <1>6, <2>1, <2>2
<1>8. CASE U # {}
  <2>1. PICK d : d = Dearest(U)
    OBVIOUS
  <2>2. d \in U
    BY <1>3, <1>8, <2>1, DearestExists
  <2>3. PICK sel : sel = Rounds(n, amount, rate, U \ {d})
    OBVIOUS
  <2>4. FeeOK(sel, fees, n, amount, rate)
    <3>1. U \ {d} \notin Bad
      BY <1>2, <2>2
    <3>2. QED
      BY <2>3, <3>1
  <2>5. Rounds(n, amount, rate, U) = IF sel.enough THEN sel ELSE FeeRound(n, amount, sel, d)
    BY <1>5, <1>8, <2>1, <2>3 DEF Rounded, LastRound
  <2>6. CASE ~sel.enough
    <3>1. sel.inputs = U \ {d}
      <4>1. Worthy(U \ {d})
        BY <1>3, WorthySubset
      <4>2. SelectionOK(sel, amount, U \ {d})
        BY <2>3, <4>1, RoundsOK
      <4>3. QED
        BY <2>6, <4>2 DEF SelectionOK
    <3>2. FeeOK(FeeRound(n, amount, sel, d), fees, n, amount, rate)
      BY <1>3, <1>4, <2>2, <2>4, <3>1, FeeRoundOK DEF Worthy
    <3>3. QED
      BY <1>6, <2>5, <2>6, <3>2
  <2>7. QED
    BY <1>6, <2>4, <2>5, <2>6
<1>9. QED
  BY <1>7, <1>8

\* As long as no fee leaves the words, who pays one pays for all inputs.
LEMMA SelectPays ==
  ASSUME NEW outs, Worthy(outs), NEW amount \in Nat, NEW rate \in Nat,
         FeesFit(Cardinality(outs), rate)
  PROVE  LET sel == Select(outs, amount, rate)
             fee == sel.total - amount
         IN  fee = 0 \/ fee >= Size(Cardinality(sel.inputs)) * rate
<1>1. PICK sel : sel = Select(outs, amount, rate)
  OBVIOUS
<1>2. PICK n : n = Cardinality(outs)
  OBVIOUS
<1>3. n \in Nat
  BY <1>2, FS_CardinalityType DEF Worthy
<1>4. PICK fees \in [0..n -> Nat] :
        /\ fees[0] = rate
        /\ \A k \in 1..n : fees[k] = Size(n) * fees[k - 1]
        /\ \A k \in 0..n : fees[k] < Word \div 2
  BY <1>2 DEF FeesFit
<1>5. SelectionOK(sel, amount, outs)
  BY <1>1, <1>2, <1>3, RoundsOK DEF Select
<1>6. FeeOK(sel, fees, n, amount, rate)
  <2>1. n <= n
    BY <1>3
  <2>2. QED
    BY <1>1, <1>2, <1>3, <1>4, <2>1, RoundsFeeOK DEF Select
<1>7. CASE sel.enough
  <2>1. sel.total - amount = sel.fee
    BY <1>5, <1>6, <1>7 DEF SelectionOK, FeeOK
  <2>2. QED
    BY <1>1, <1>6, <1>7, <2>1 DEF FeeOK
<1>8. CASE ~sel.enough
  BY <1>1, <1>5, <1>8 DEF SelectionOK
<1>9. QED
  BY <1>5, <1>7, <1>8 DEF SelectionOK

-----------------------------------------------------------------------------
(* Money *)

\* The rest of the types.  Outputs stay finite and their values natural
\* numbers, which a change that is a debt would not be.
MoneyInv ==
  /\ masked \in BOOLEAN /\ hud \in BOOLEAN /\ dismissals \in Nat
  /\ prompt \in [amount : Amounts, rate : Rates] \cup {NoPrompt}
  /\ Len(sends) <= MaxSends
  /\ txs \in Seq(Tx) /\ Len(txs) = Len(sends)
  /\ unspent \in [Of("BTC") -> SUBSET Output]
  /\ \A w \in Of("BTC") : IsFiniteSet(unspent[w])

\* As many transfers as there were.
LEMMA SameLength ==
  ASSUME Inv, Inv', DOMAIN sends' = DOMAIN sends
  PROVE  Len(sends') = Len(sends)
BY DEF Inv, PayInv, TypesOK

\* No transfer is entered and no output changes hands.
LEMMA MoneyKept ==
  ASSUME Inv, Inv', MoneyInv, DOMAIN sends' = DOMAIN sends, UNCHANGED <<masked, txs, unspent>>,
         hud' \in BOOLEAN, dismissals' \in Nat, prompt' = prompt \/ prompt' = NoPrompt
  PROVE  MoneyInv'
BY SameLength DEF MoneyInv

LEMMA AnswerMoney ==
  ASSUME Inv, Inv', MoneyInv, NEW i \in DOMAIN sends, Answer(i)
  PROVE  MoneyInv'
<1>1. sends \in Seq(Send)
  BY DEF Inv, PayInv, TypesOK
<1>2. hud \in BOOLEAN /\ dismissals \in Nat
  BY DEF MoneyInv
<1>3. CASE Unlocked(i) \/ Priced(i) \/ Signed(i) \/ FailsSilently(i) \/ CreationFails(i)
  <2>1. DOMAIN sends' = DOMAIN sends
    BY <1>1, <1>3 DEF Unlocked, Priced, Signed, FailsSilently, CreationFails, Goto
  <2>2. dismissals' \in Nat /\ hud' = hud /\ UNCHANGED <<masked, txs, unspent, prompt>>
    BY <1>2, <1>3 DEF Unlocked, Priced, Signed, FailsSilently, CreationFails, page, chain
  <2>3. QED
    BY <1>2, <2>1, <2>2, MoneyKept
<1>4. CASE Counted(i) \/ EthFails(i) \/ Created(i)
  <2>1. DOMAIN sends' = DOMAIN sends
    BY <1>1, <1>4 DEF Counted, EthFails, Created
  <2>2. dismissals' = dismissals /\ hud' \in BOOLEAN /\ UNCHANGED <<masked, txs, unspent, prompt>>
    BY <1>2, <1>4 DEF Counted, EthFails, Created, page, chain
  <2>3. QED
    BY <1>2, <2>1, <2>2, MoneyKept
<1>5. CASE Replied(i) \/ Lost(i)
  <2>1. DOMAIN sends' = DOMAIN sends
    BY <1>1, <1>5 DEF Replied, Lost
  <2>2. dismissals' = dismissals /\ UNCHANGED <<masked, txs, unspent, prompt>>
    BY <1>5 DEF Replied, Lost, page, chain
  <2>3. hud' \in BOOLEAN
    BY <1>5 DEF Replied, HidesHud, Lost
  <2>4. QED
    BY <1>2, <2>1, <2>2, <2>3, MoneyKept
<1>6. QED
  BY <1>3, <1>4, <1>5 DEF Answer

\* A transfer of another currency comes with no transaction of Bitcoin.
LEMMA NoTxType == NoTx \in Tx
BY DEF NoTx, Tx

LEMMA EnterMoney ==
  ASSUME Inv, Inv', MoneyInv, Len(sends) < MaxSends, Len(sends') = Len(sends) + 1,
         NEW tx \in Tx, txs' = Append(txs, tx), UNCHANGED <<masked, dismissals, unspent>>,
         hud' \in BOOLEAN, prompt' \in [amount : Amounts, rate : Rates] \cup {NoPrompt}
  PROVE  MoneyInv'
<1>1. txs \in Seq(Tx) /\ Len(txs) = Len(sends) /\ sends \in Seq(Send)
  BY DEF MoneyInv, Inv, PayInv, TypesOK
<1>2. txs' \in Seq(Tx) /\ Len(txs') = Len(sends')
  BY <1>1
<1>3. Len(sends') <= MaxSends
  BY <1>1, MaxSendsAssumption
<1>4. QED
  BY <1>2, <1>3 DEF MoneyInv

\* The unspent outputs of an address have sums.
LEMMA UnspentWorthy ==
  ASSUME MoneyInv, NEW w \in Of("BTC")
  PROVE  unspent[w] \subseteq Output /\ Worthy(unspent[w])
BY DEF MoneyInv, Worthy, Output

\* The transaction sendToAddress makes is typed: its change is what is left.
LEMMA BtcSendMoney ==
  ASSUME Inv, Inv', MoneyInv, NEW amount \in Amounts, NEW rate \in Rates, BtcSend(amount, rate),
         session \in Of("BTC"), Len(sends) < MaxSends,
         UNCHANGED <<masked, dismissals, hud, unspent>>,
         prompt' \in [amount : Amounts, rate : Rates] \cup {NoPrompt}
  PROVE  MoneyInv'
<1>1. PICK sel : sel = Select(unspent[session], amount, rate)
  OBVIOUS
<1>2. amount \in Nat /\ rate \in Nat
  BY AmountsAssumption
<1>3. /\ sel.inputs \subseteq unspent[session]
      /\ Payable(sel) => Change(sel) \in Nat
  BY <1>1, <1>2, UnspentWorthy, SelectSound
<1>4. sel.inputs \subseteq Output
  BY <1>3, UnspentWorthy
<1>5. PICK tx \in Tx : \E s : Enter(s, tx)
  <2>1. CASE Payable(sel) /\ Enter(Fresh("raw"), [inputs |-> sel.inputs, amount |-> amount,
                                                 change |-> Change(sel)])
    <3>1. [inputs |-> sel.inputs, amount |-> amount, change |-> Change(sel)] \in Tx
      BY <1>2, <1>3, <1>4, <2>1 DEF Tx
    <3>2. QED
      BY <2>1, <3>1
  <2>2. CASE Enter([Fresh("end") EXCEPT !.told = "failure"], NoTx)
    BY <2>2, NoTxType
  <2>3. QED
    BY <1>1, <2>1, <2>2 DEF BtcSend
<1>6. Len(sends') = Len(sends) + 1 /\ txs' = Append(txs, tx)
  BY <1>5 DEF Enter, Inv, PayInv, TypesOK
<1>7. hud' \in BOOLEAN
  BY DEF MoneyInv
<1>8. QED
  BY <1>6, <1>7, EnterMoney

LEMMA ConfirmMoney == ASSUME Inv, Inv', MoneyInv, Confirm PROVE MoneyInv'
<1>1. /\ sends \in Seq(Send) /\ session \in Wallets
      /\ hud \in BOOLEAN /\ prompt \in [amount : Amounts, rate : Rates] \cup {NoPrompt}
  BY DEF MoneyInv, Inv, PayInv, TypesOK
<1>2. ASSUME NEW price \in Prices, EthTransfer(price) PROVE MoneyInv'
  <2>1. PICK q : q = [i \in DOMAIN sends |-> [sends[i] EXCEPT !.alone = @ /\ ~Meets(i)]]
    OBVIOUS
  <2>2. PICK s : sends' = Append(q, s)
    BY <1>2, <2>1 DEF EthTransfer
  <2>3. Len(q) = Len(sends) /\ q \in Seq({sends[i] : i \in DOMAIN sends} \cup {q[i] : i \in DOMAIN sends})
    BY <1>1, <2>1
  <2>4. Len(sends') = Len(sends) + 1
    BY <2>2, <2>3
  <2>5. QED
    BY <1>1, <1>2, <2>4, NoTxType, EnterMoney DEF EthTransfer, Confirming, page, chain
<1>3. CASE TronTransfer
  <2>1. Len(sends') = Len(sends) + 1 /\ txs' = Append(txs, NoTx)
    BY <1>1, <1>3 DEF TronTransfer, Enter
  <2>2. QED
    BY <1>1, <1>3, <2>1, NoTxType, EnterMoney DEF TronTransfer, Confirming, page, chain
<1>4. CASE IostTransfer
  <2>1. Len(sends') = Len(sends) + 1 /\ txs' = Append(txs, NoTx)
    BY <1>1, <1>4 DEF IostTransfer, Enter
  <2>2. QED
    BY <1>1, <1>4, <2>1, NoTxType, EnterMoney DEF IostTransfer, Confirming, page, chain
<1>5. ASSUME NEW amount \in Amounts, NEW rate \in Rates, BtcTransfer(amount, rate) PROVE MoneyInv'
  BY <1>1, <1>5, BtcSendMoney DEF BtcTransfer, Confirming, Of, chain
<1>6. CASE TapAgain
  <2>1. session \in Of("BTC") /\ prompt # NoPrompt
    BY <1>1, <1>6 DEF TapAgain, Inv, PayInv, Of
  <2>2. prompt.amount \in Amounts /\ prompt.rate \in Rates
    BY <1>1, <2>1
  <2>3. QED
    BY <1>1, <1>6, <2>1, <2>2, BtcSendMoney DEF TapAgain, page, chain
<1>7. QED
  BY <1>2, <1>3, <1>4, <1>5, <1>6 DEF Confirm

\* What is accepted leaves a change, and no other output comes of it.
LEMMA ArrivesMoney == ASSUME Inv, Inv', MoneyInv, NEW i \in DOMAIN sends, Arrives(i) PROVE MoneyInv'
<1>1. DOMAIN sends' = DOMAIN sends
  BY DEF Arrives
<1>2. Len(sends') = Len(sends)
  BY <1>1, SameLength
<1>3. UNCHANGED <<masked, hud, dismissals, txs, prompt>>
  BY DEF Arrives, page
<1>4. /\ unspent' \in [Of("BTC") -> SUBSET Output]
      /\ \A w \in Of("BTC") : IsFiniteSet(unspent'[w])
  <2>1. CASE ~(Brand(i) = "BTC" /\ Accepts(i))
    BY <2>1 DEF Arrives, MoneyInv
  <2>2. CASE Brand(i) = "BTC" /\ Accepts(i)
    <3>1. PICK w : w = sends[i].owner
      OBVIOUS
    <3>2. PICK out : out = [value |-> txs[i].change, from |-> i]
      OBVIOUS
    <3>3. PICK outs : outs = (unspent[w] \ txs[i].inputs) \cup {out}
      OBVIOUS
    <3>4. w \in Of("BTC")
      BY <2>2, <3>1, SendsTyped DEF Brand, StageOK, Of, Send
    <3>5. out \in Output
      <4>1. i \in DOMAIN txs /\ i \in 0..MaxSends
        BY MaxSendsAssumption DEF MoneyInv, Inv, PayInv, TypesOK
      <4>2. txs[i] \in Tx
        BY <4>1 DEF MoneyInv
      <4>3. txs[i].change \in Nat
        BY <4>2 DEF Tx
      <4>4. QED
        BY <3>2, <4>1, <4>3 DEF Output
    <3>6. outs \subseteq Output
      BY <3>3, <3>4, <3>5, UnspentWorthy
    <3>7. IsFiniteSet(outs)
      <4>1. IsFiniteSet(unspent[w])
        BY <3>4 DEF MoneyInv
      <4>2. IsFiniteSet(unspent[w] \ txs[i].inputs)
        BY <4>1, FS_Subset
      <4>3. QED
        BY <3>3, <4>2, FS_AddElement
    <3>8. unspent' = [unspent EXCEPT ![w] = outs]
      BY <2>2, <3>1, <3>2, <3>3 DEF Arrives
    <3>9. QED
      BY <3>4, <3>6, <3>7, <3>8 DEF MoneyInv
  <2>3. QED
    BY <2>1, <2>2
<1>5. QED
  BY <1>2, <1>3, <1>4 DEF MoneyInv

-----------------------------------------------------------------------------
(* The ledger of the transfers, as their list has it *)

Same(i) == /\ sends'[i].told = sends[i].told
           /\ sends'[i].fate \in Taken <=> sends[i].fate \in Taken

\* The entries of transfers in the ledger.
Entries(S) == {[op |-> i, mark |-> 0] : i \in S}

\* The ledger's columns, in the terms of the list.
LEMMA LedgerColumns ==
  ASSUME Inv, Inv', MoneyInv, MoneyInv'
  PROVE  /\ DOMAIN sends \subseteq 1..MaxSends /\ DOMAIN sends' \subseteq 1..MaxSends
         /\ \A i \in DOMAIN sends : sends[i].told \in {"none", "success", "failure"}
         /\ \A i \in DOMAIN sends' : sends'[i].told \in {"none", "success", "failure"}
         /\ \A j \in DOMAIN sends : IsTaken(j) <=> sends[j].fate \in Taken
         /\ \A j \in DOMAIN sends' : IsTaken(j)' <=> sends'[j].fate \in Taken
<1>1. /\ Len(sends) \in Nat /\ DOMAIN sends = 1..Len(sends)
      /\ Len(sends') \in Nat /\ DOMAIN sends' = 1..Len(sends')
      /\ \A i \in DOMAIN sends : sends[i] \in Send
      /\ \A i \in DOMAIN sends' : sends'[i] \in Send
  BY DEF Inv, PayInv, TypesOK
<1>2. DOMAIN sends \subseteq 1..MaxSends /\ DOMAIN sends' \subseteq 1..MaxSends
  BY <1>1, MaxSendsAssumption DEF MoneyInv
<1>3. QED
  BY <1>1, <1>2 DEF Send, IsTaken, Taken

\* The transfers stay, and what was told and taken of each.
LEMMA LedgerKept ==
  ASSUME Inv, Inv', MoneyInv, MoneyInv', DOMAIN sends' = DOMAIN sends,
         \A i \in DOMAIN sends : Same(i)
  PROVE  UNCHANGED Settled!ledger
<1>1. \A j \in DOMAIN sends : IsTaken(j)' <=> IsTaken(j)
  BY LedgerColumns DEF Same
<1>2. {j \in DOMAIN sends : IsTaken(j)}' = {j \in DOMAIN sends : IsTaken(j)}
  BY <1>1
<1>3. \A i \in 1..MaxSends : Verdict(i)' = Verdict(i)
  BY DEF Verdict, Same
<1>4. [i \in 1..MaxSends |-> Verdict(i)]' = [i \in 1..MaxSends |-> Verdict(i)]
  BY <1>3
<1>5. QED
  BY <1>2, <1>4 DEF Settled!ledger

\* A transfer is entered that nobody has taken, and may have failed already.
LEMMA LedgerGrows ==
  ASSUME Inv, Inv', MoneyInv, MoneyInv', NEW c, c \notin DOMAIN sends,
         DOMAIN sends' = DOMAIN sends \cup {c},
         sends'[c].fate = "none", sends'[c].told \in {"none", "failure"},
         \A i \in DOMAIN sends : Same(i)
  PROVE  c \in 1..MaxSends /\ Settled!Begin(c)
<1>1. c \in 1..MaxSends
  BY LedgerColumns
<1>2. \A j \in DOMAIN sends : IsTaken(j)' <=> IsTaken(j)
  BY LedgerColumns DEF Same
<1>3. ~IsTaken(c)'
  BY DEF IsTaken
<1>4. {j \in DOMAIN sends : IsTaken(j)}' = {j \in DOMAIN sends : IsTaken(j)}
  BY <1>2, <1>3
<1>5. \A i \in 1..MaxSends : i # c => Verdict(i)' = Verdict(i)
  BY DEF Verdict, Same
<1>6. Verdict(c) = "nothing" /\ Verdict(c)' = IF sends'[c].told = "failure" THEN "failure" ELSE "nothing"
  BY DEF Verdict
<1>7. CASE sends'[c].told = "failure"
  <2>1. [i \in 1..MaxSends |-> Verdict(i)]' = [[i \in 1..MaxSends |-> Verdict(i)] EXCEPT ![c] = "failure"]
    BY <1>1, <1>5, <1>6, <1>7
  <2>2. QED
    BY <1>1, <1>4, <2>1 DEF Settled!Begin, Settled!Refuse
<1>8. CASE sends'[c].told = "none"
  <2>1. [i \in 1..MaxSends |-> Verdict(i)]' = [i \in 1..MaxSends |-> Verdict(i)]
    BY <1>1, <1>5, <1>6, <1>8
  <2>2. QED
    BY <1>1, <1>4, <2>1 DEF Settled!Begin, Settled!Confirm
<1>9. QED
  BY <1>7, <1>8

\* A verdict is told where there was none.
LEMMA LedgerTells ==
  ASSUME Inv, Inv', MoneyInv, MoneyInv', NEW i \in DOMAIN sends, DOMAIN sends' = DOMAIN sends,
         sends[i].told = "none", NEW what \in {"failure", "success"}, sends'[i].told = what,
         \A j \in DOMAIN sends : sends'[j].fate = sends[j].fate,
         \A j \in DOMAIN sends : j # i => sends'[j].told = sends[j].told
  PROVE  i \in 1..MaxSends /\ Settled!Tell(i, what)
<1>1. i \in 1..MaxSends
  BY LedgerColumns
<1>2. {j \in DOMAIN sends : IsTaken(j)}' = {j \in DOMAIN sends : IsTaken(j)}
  BY DEF IsTaken
<1>3. \A j \in 1..MaxSends : Verdict(j)' = IF j = i THEN what ELSE Verdict(j)
  BY DEF Verdict
<1>4. [j \in 1..MaxSends |-> Verdict(j)]' = [[j \in 1..MaxSends |-> Verdict(j)] EXCEPT ![i] = what]
  BY <1>1, <1>3
<1>5. Verdict(i) = "nothing"
  BY DEF Verdict
<1>6. QED
  BY <1>1, <1>2, <1>4, <1>5 DEF Settled!Tell

\* A transfer is taken that was not.
LEMMA LedgerTakes ==
  ASSUME Inv, Inv', MoneyInv, MoneyInv', NEW i \in DOMAIN sends, DOMAIN sends' = DOMAIN sends,
         sends[i].fate \notin Taken, sends'[i].fate \in Taken,
         \A j \in DOMAIN sends : sends'[j].told = sends[j].told,
         \A j \in DOMAIN sends : j # i => (sends'[j].fate \in Taken <=> sends[j].fate \in Taken)
  PROVE  i \in 1..MaxSends /\ ~Settled!Taken(i) /\ Settled!Take(i, 0)
<1>1. i \in 1..MaxSends
  BY LedgerColumns
<1>2. /\ ~IsTaken(i) /\ IsTaken(i)'
      /\ \A j \in DOMAIN sends : j # i => (IsTaken(j)' <=> IsTaken(j))
  BY LedgerColumns
<1>3. {j \in DOMAIN sends : IsTaken(j)}' = {j \in DOMAIN sends : IsTaken(j)} \cup {i}
  BY <1>2
<1>4. \A S : Entries(S \cup {i}) = Entries(S) \cup {[op |-> i, mark |-> 0]}
  BY DEF Entries
<1>5. Entries({j \in DOMAIN sends : IsTaken(j)}')
        = Entries({j \in DOMAIN sends : IsTaken(j)}) \cup {[op |-> i, mark |-> 0]}
  BY <1>3, <1>4
<1>6. \A e \in Entries({j \in DOMAIN sends : IsTaken(j)}) : e.op # i
  BY <1>2 DEF Entries
<1>7. [j \in 1..MaxSends |-> Verdict(j)]' = [j \in 1..MaxSends |-> Verdict(j)]
  BY DEF Verdict
<1>8. ~Settled!Taken(i)
  BY <1>6 DEF Settled!Taken, Entries
<1>9. Settled!Take(i, 0)
  <2>1. [op |-> i, mark |-> 0] \notin Entries({j \in DOMAIN sends : IsTaken(j)})
    BY <1>6
  <2>2. QED
    BY <1>1, <1>5, <1>7, <2>1 DEF Settled!Take, Entries
<1>10. QED
  BY <1>1, <1>8, <1>9

\* Where an answer comes, one transfer moves and may be told of.
LEMMA AnswerMoves ==
  ASSUME Inv, AloneInv, NEW i \in DOMAIN sends, Answer(i)
  PROVE  /\ DOMAIN sends' = DOMAIN sends
         /\ \A j \in DOMAIN sends : sends'[j].fate = sends[j].fate
         /\ \A j \in DOMAIN sends : j # i => sends'[j].told = sends[j].told
         /\ \/ sends'[i].told = sends[i].told
            \/ sends[i].told = "none" /\ sends'[i].told = "failure"
            \/ /\ sends[i].told = "none" /\ sends'[i].told = "success"
               /\ sends[i].fate \in Taken
<1>1. /\ sends \in [DOMAIN sends -> Send]
      /\ sends[i] \in Send /\ ToldOK(sends[i])
  BY SendsAlone DEF Inv, PayInv, TypesOK
<1>2. CASE Unlocked(i) \/ Priced(i) \/ CreationFails(i) \/ Signed(i) \/ FailsSilently(i)
  <2>1. PICK at : sends' = [sends EXCEPT ![i].at = at]
    BY <1>2 DEF Unlocked, Priced, CreationFails, Signed, FailsSilently, Goto
  <2>2. QED
    BY <1>1, <2>1 DEF Send
<1>3. CASE Counted(i)
  <2>1. PICK n : sends' = [sends EXCEPT ![i].at = "gas", ![i].nonce = n]
    BY <1>3 DEF Counted
  <2>2. QED
    BY <1>1, <2>1 DEF Send
<1>4. CASE Created(i)
  <2>1. PICK k : sends' = [sends EXCEPT ![i].at = "sign", ![i].key = k]
    BY <1>4 DEF Created
  <2>2. QED
    BY <1>1, <2>1 DEF Send
<1>5. CASE EthFails(i) \/ Replied(i) \/ Lost(i)
  <2>1. PICK at, told : sends' = [sends EXCEPT ![i].at = at, ![i].told = told]
    BY <1>5 DEF EthFails, Replied, Lost
  <2>2. /\ DOMAIN sends' = DOMAIN sends
        /\ \A j \in DOMAIN sends : sends'[j].fate = sends[j].fate
        /\ \A j \in DOMAIN sends : j # i => sends'[j].told = sends[j].told
        /\ sends'[i].told = told
    BY <1>1, <2>1 DEF Send
  <2>3. sends[i].at \in {"unlock", "nonce", "gas", "raw", "reply"}
    BY <1>5 DEF EthFails, Replied, Lost
  <2>4. sends[i].told = "none"
    BY <1>1, <2>3 DEF ToldOK
  <2>5. CASE EthFails(i)
    <3>1. sends' = [sends EXCEPT ![i].at = "end", ![i].told = "failure"]
      BY <2>5 DEF EthFails
    <3>2. sends'[i].told = "failure"
      BY <1>1, <3>1 DEF Send
    <3>3. QED
      BY <2>2, <2>4, <3>2
  <2>6. CASE Lost(i)
    <3>1. PICK a : sends' = [sends EXCEPT ![i].at = a,
                               ![i].told = IF Brand(i) = "IOST" THEN "none" ELSE "failure"]
      BY <2>6 DEF Lost
    <3>2. sends'[i].told \in {"none", "failure"}
      BY <1>1, <3>1 DEF Send
    <3>3. QED
      BY <2>2, <2>4, <3>2
  <2>7. CASE Replied(i)
    <3>1. sends' = [sends EXCEPT ![i].at = "end",
                      ![i].told = IF sends[i].fate = "refused" THEN "failure" ELSE "success"]
      BY <2>7 DEF Replied
    <3>2. sends'[i].told = IF sends[i].fate = "refused" THEN "failure" ELSE "success"
      BY <1>1, <3>1 DEF Send
    <3>3. sends[i].fate # "refused" => sends[i].fate \in Taken
      BY <1>1, <2>7 DEF Replied, ToldOK, Send, Taken
    <3>4. QED
      BY <2>2, <2>4, <3>2, <3>3
  <2>8. QED
    BY <1>5, <2>5, <2>6, <2>7
<1>6. QED
  BY <1>2, <1>3, <1>4, <1>5 DEF Answer

\* An answer changes nothing of the ledger, or tells the one verdict.
LEMMA AnswerSettles ==
  ASSUME Inv, Inv', MoneyInv, MoneyInv', AloneInv, NEW i \in DOMAIN sends, Answer(i)
  PROVE  [Settled!StrictNext]_(Settled!ledger)
<1>1. CASE sends'[i].told = sends[i].told
  BY <1>1, AnswerMoves, LedgerKept DEF Same
<1>2. CASE sends[i].told = "none" /\ sends'[i].told = "failure"
  <2>1. i \in 1..MaxSends /\ Settled!Tell(i, "failure")
    BY <1>2, AnswerMoves, LedgerTells
  <2>2. QED
    BY <2>1 DEF Settled!StrictNext, Settled!Begin
<1>3. CASE sends[i].told = "none" /\ sends'[i].told = "success" /\ sends[i].fate \in Taken
  <2>1. i \in 1..MaxSends /\ Settled!Tell(i, "success")
    BY <1>3, AnswerMoves, LedgerTells
  <2>2. IsTaken(i)
    BY <1>3 DEF IsTaken, Taken
  <2>3. PICK e : e = [op |-> i, mark |-> 0]
    OBVIOUS
  <2>4. e \in {[op |-> k, mark |-> 0] : k \in {j \in DOMAIN sends : IsTaken(j)}} /\ e.op = i
    BY <2>2, <2>3
  <2>5. Settled!Taken(i)
    BY <2>4 DEF Settled!Taken
  <2>6. QED
    BY <2>1, <2>5 DEF Settled!StrictNext
<1>4. QED
  BY <1>1, <1>2, <1>3, AnswerMoves

\* A transfer is entered at the end of the list.
LEMMA EnterSettles ==
  ASSUME Inv, Inv', MoneyInv, MoneyInv', NEW q \in Seq(Send), DOMAIN q = DOMAIN sends,
         \A j \in DOMAIN sends : q[j].told = sends[j].told /\ q[j].fate = sends[j].fate,
         NEW s \in Send, s.fate = "none", s.told \in {"none", "failure"}, sends' = Append(q, s)
  PROVE  Settled!StrictNext
<1>1. PICK c \in Nat : c = Len(q) + 1
  OBVIOUS
<1>2. /\ c \notin DOMAIN sends /\ DOMAIN sends' = DOMAIN sends \cup {c} /\ sends'[c] = s
      /\ \A j \in DOMAIN sends : sends'[j] = q[j]
  BY <1>1
<1>3. c \in 1..MaxSends /\ Settled!Begin(c)
  BY <1>2, LedgerGrows DEF Same
<1>4. QED
  BY <1>3 DEF Settled!StrictNext

\* Nothing is known of a fresh transfer.
LEMMA FreshFields ==
  ASSUME NEW at
  PROVE  Fresh(at).fate = "none" /\ Fresh(at).told = "none"
BY DEF Fresh

\* A transfer that is confirmed begins in the ledger.
LEMMA ConfirmSettles ==
  ASSUME Inv, Inv', MoneyInv, MoneyInv', Confirm
  PROVE  Settled!StrictNext
<1>1. sends \in Seq(Send)
  BY DEF Inv, PayInv, TypesOK
<1>2. ASSUME NEW price \in Prices, EthTransfer(price) PROVE Settled!StrictNext
  <2> DEFINE q == [i \in DOMAIN sends |-> [sends[i] EXCEPT !.alone = @ /\ ~Meets(i)]]
             s == [Fresh("unlock") EXCEPT !.price = price, !.alone = (Met = {})]
  <2>1. \A j \in DOMAIN sends : q[j] \in Send /\ q[j].told = sends[j].told /\ q[j].fate = sends[j].fate
    <3> TAKE j \in DOMAIN sends
    <3>1. PICK b \in BOOLEAN : b <=> (sends[j].alone /\ ~Meets(j))
      OBVIOUS
    <3>2. sends[j].alone \in BOOLEAN /\ sends[j] \in Send
      BY SendsTyped DEF Send
    <3>3. q[j] = [sends[j] EXCEPT !.alone = b]
      BY <3>1, <3>2
    <3> HIDE DEF q
    <3>4. QED
      BY <3>2, <3>3 DEF Send
  <2>2. q \in Seq(Send) /\ DOMAIN q = DOMAIN sends
    <3>1. DOMAIN sends = 1..Len(sends) /\ Len(sends) \in Nat
      BY <1>1
    <3>2. q \in [DOMAIN sends -> Send]
      BY <2>1, Zenon
    <3>3. DOMAIN q = DOMAIN sends
      OBVIOUS
    <3> HIDE DEF q
    <3>4. QED
      BY <3>1, <3>2, <3>3
  <2>3. s \in Send
    BY <1>2, FreshEthOK DEF EthTransfer, Confirming, Inv
  <2>4. s.fate = "none" /\ s.told = "none"
    BY DEF Fresh
  <2>5. sends' = Append(q, s)
    BY <1>2 DEF EthTransfer
  <2> HIDE DEF q, s
  <2>6. QED
    BY <2>1, <2>2, <2>3, <2>4, <2>5, EnterSettles
<1>3. ASSUME NEW s \in Send, NEW tx, Enter(s, tx), s.fate = "none", s.told \in {"none", "failure"}
      PROVE  Settled!StrictNext
  BY <1>1, <1>3, EnterSettles DEF Enter
<1>4. CASE TronTransfer
  <2> DEFINE s == [Fresh("create") EXCEPT !.owner = client, !.key = NoWallet]
  <2>1. s \in Send /\ s.fate = "none" /\ s.told = "none"
    BY <1>4, FreshTronOK DEF TronTransfer, Confirming, Inv, Fresh
  <2>2. Enter(s, NoTx)
    BY <1>4 DEF TronTransfer
  <2> HIDE DEF s
  <2>3. QED
    BY <1>3, <2>1, <2>2
<1>5. CASE IostTransfer
  BY <1>3, <1>5, FreshOK, FreshFields DEF IostTransfer, Confirming, Inv
<1>6. ASSUME NEW amount, NEW rate, BtcSend(amount, rate), BrandOf[session] = "BTC"
      PROVE  Settled!StrictNext
  <2>1. PICK s \in {Fresh("raw"), [Fresh("end") EXCEPT !.told = "failure"]} : \E tx : Enter(s, tx)
    BY <1>6 DEF BtcSend
  <2>2. s \in Send
    BY <1>6, FreshOK DEF Inv
  <2>3. LET t == [Fresh("end") EXCEPT !.told = "failure"] IN t.fate = "none" /\ t.told = "failure"
    BY DEF Fresh
  <2>4. QED
    BY <1>3, <2>1, <2>2, <2>3, FreshFields
<1>7. CASE \E amount \in Amounts, rate \in Rates : BtcTransfer(amount, rate)
  BY <1>6, <1>7 DEF BtcTransfer, Confirming
<1>8. CASE TapAgain
  <2>1. BrandOf[session] = "BTC"
    BY <1>8 DEF TapAgain, Inv, PayInv
  <2>2. QED
    BY <1>6, <1>8, <2>1 DEF TapAgain
<1>9. QED
  BY <1>2, <1>4, <1>5, <1>7, <1>8 DEF Confirm

\* A transaction that arrives is taken if the network accepts it; what it replaces
\* in a pool has been taken.
LEMMA ArrivesSettles ==
  ASSUME Inv, Inv', MoneyInv, MoneyInv', AloneInv, NEW i \in DOMAIN sends, Arrives(i)
  PROVE  [Settled!StrictNext]_(Settled!ledger)
<1> DEFINE s == [sends[i] EXCEPT !.fate = Fate(i), !.at = IF @ = "raw" THEN "reply" ELSE "end"]
<1>1. sends[i] \in Send /\ sends[i].fate \notin Taken
  BY SendsAlone DEF Arrives, ToldOK, Taken
<1>2. s.told = sends[i].told /\ s.fate = Fate(i)
  BY <1>1 DEF Send
<1>3. sends' = [j \in DOMAIN sends |->
                  IF j = i THEN s
                  ELSE IF j \in Replaced(i) THEN [sends[j] EXCEPT !.fate = "dropped"]
                  ELSE sends[j]]
  BY Zenon DEF Arrives
<1> HIDE DEF s
<1>4. DOMAIN sends' = DOMAIN sends /\ sends'[i] = s
  BY <1>3
<1>5. ASSUME NEW j \in DOMAIN sends, j # i PROVE Same(j)
  <2>1. CASE j \in Replaced(i)
    <3>1. j = pool[sends[i].owner] /\ j # 0 /\ sends[i].owner \in Of("ETH")
      BY <2>1, SendsAlone DEF Replaced, Brand, StageOK, Of, Send
    <3>2. sends[j].fate = "pooled" /\ sends[j] \in Send
      BY <3>1, SendsAlone DEF AloneInv
    <3>3. sends'[j] = [sends[j] EXCEPT !.fate = "dropped"]
      BY <1>3, <1>5, <2>1
    <3>4. QED
      BY <3>2, <3>3 DEF Same, Taken, Send
  <2>2. CASE j \notin Replaced(i)
    BY <1>3, <1>5, <2>2 DEF Same
  <2>3. QED
    BY <2>1, <2>2
<1>6. CASE Fate(i) \in Taken
  <2>1. i \in 1..MaxSends /\ ~Settled!Taken(i) /\ Settled!Take(i, 0)
    BY <1>1, <1>2, <1>4, <1>5, <1>6, LedgerTakes DEF Same
  <2>2. QED
    BY <2>1 DEF Settled!StrictNext
<1>7. CASE Fate(i) \notin Taken
  <2>1. Same(i)
    BY <1>1, <1>2, <1>4, <1>7 DEF Same
  <2>2. QED
    BY <1>4, <1>5, <2>1, LedgerKept
<1>8. QED
  BY <1>6, <1>7

\* What is mined was taken before.
LEMMA MineSettles ==
  ASSUME Inv, Inv', MoneyInv, MoneyInv', AloneInv, NEW w \in Of("ETH"), Mine(w)
  PROVE  UNCHANGED Settled!ledger
<1>1. PICK i : i = pool[w]
  OBVIOUS
<1>2. i \in DOMAIN sends /\ sends[i].fate = "pooled" /\ sends' = [sends EXCEPT ![i].fate = "executed"]
  BY <1>1, PoolTyped DEF Mine, AloneInv
<1>3. sends \in Seq(Send) /\ sends[i] \in Send
  BY <1>2, SendsAlone DEF Inv, PayInv, TypesOK
<1>4. \A j \in DOMAIN sends : Same(j)
  BY <1>2, <1>3 DEF Same, Taken, Send
<1>5. DOMAIN sends' = DOMAIN sends
  BY <1>2
<1>6. QED
  BY <1>4, <1>5, LedgerKept

-----------------------------------------------------------------------------
(* Theorems *)

LEMMA InitInv == Init => Inv
<1> SUFFICES ASSUME Init PROVE Inv
  OBVIOUS
<1>1. DOMAIN sends = {} /\ sends \in Seq(Send)
  BY DEF Init
<1>2. PayInv
  BY <1>1 DEF Init, PayInv, TypesOK, PoolOK, Of
<1>3. MaskInv
  BY <1>1 DEF Init, MaskInv
<1>4. QED
  BY <1>2, <1>3 DEF Inv

LEMMA StepInv == Inv /\ [Next]_vars => Inv'
<1> SUFFICES ASSUME Inv, [Next]_vars PROVE Inv'
  OBVIOUS
<1>1. CASE \E w \in Wallets : Switch(w)
  BY <1>1, SwitchStep
<1>2. CASE Confirm
  BY <1>2, EthTransferStep, TronTransferStep, IostTransferStep, BtcTransferStep, TapAgainStep
  DEF Confirm
<1>3. CASE RemovePrompt
  BY <1>3, RemovePromptStep
<1>4. CASE HudDismissed
  BY <1>4, HudDismissedStep
<1>5. CASE \E i \in DOMAIN sends : Answer(i) \/ Arrives(i)
  BY <1>5, AnswerStep, ArrivesStep
<1>6. CASE \E w \in Of("ETH") : Mine(w)
  BY <1>6, MineStep
<1>7. CASE UNCHANGED vars
  BY <1>7, NoneMoves DEF vars, page, chain, Inv, PayInv, TypesOK
<1>8. QED
  BY <1>1, <1>2, <1>3, <1>4, <1>5, <1>6, <1>7 DEF Next

LEMMA AlwaysInv == Spec => []Inv
<1>1. QED
  BY InitInv, StepInv, PTL DEF Spec

LEMMA InitAlone == Init => AloneInv
BY DEF Init, AloneInv, Lone

LEMMA StepAlone == Inv /\ AloneInv /\ [Next]_vars => AloneInv'
<1> SUFFICES ASSUME Inv, AloneInv, [Next]_vars PROVE AloneInv'
  OBVIOUS
<1>1. CASE \E w \in Wallets : Switch(w)
  BY <1>1, NoneMovesAlone DEF Switch, chain
<1>2. CASE Confirm
  BY <1>2, ConfirmAlone
<1>3. CASE RemovePrompt \/ HudDismissed
  BY <1>3, NoneMovesAlone DEF RemovePrompt, HudDismissed, chain
<1>4. CASE \E i \in DOMAIN sends : Answer(i) \/ Arrives(i)
  BY <1>4, AnswerAlone, ArrivesAlone
<1>5. CASE \E w \in Of("ETH") : Mine(w)
  BY <1>5, MineAlone
<1>6. CASE UNCHANGED vars
  BY <1>6, NoneMovesAlone DEF vars, chain
<1>7. QED
  BY <1>1, <1>2, <1>3, <1>4, <1>5, <1>6 DEF Next

LEMMA InitMoney == Init => MoneyInv
<1> SUFFICES ASSUME Init PROVE MoneyInv
  OBVIOUS
<1>1. sends = <<>> /\ txs = <<>> /\ unspent \in [Of("BTC") -> Outputs]
  BY DEF Init
<1>2. \A w \in Of("BTC") : unspent[w] \subseteq Output /\ IsFiniteSet(unspent[w])
  BY <1>1, OutputsAssumption, MaxSendsAssumption DEF Output
<1>3. unspent \in [Of("BTC") -> SUBSET Output]
  BY <1>1, <1>2
<1>4. Len(sends) <= MaxSends /\ txs \in Seq(Tx) /\ Len(txs) = Len(sends)
  BY <1>1, MaxSendsAssumption
<1>5. QED
  BY <1>2, <1>3, <1>4 DEF Init, MoneyInv

LEMMA StepMoney == Inv /\ Inv' /\ MoneyInv /\ [Next]_vars => MoneyInv'
<1> SUFFICES ASSUME Inv, Inv', MoneyInv, [Next]_vars PROVE MoneyInv'
  OBVIOUS
<1>1. CASE \E w \in Wallets : Switch(w)
  BY <1>1, MoneyKept DEF Switch, chain, MoneyInv
<1>2. CASE Confirm
  BY <1>2, ConfirmMoney
<1>3. CASE RemovePrompt
  BY <1>3, MoneyKept DEF RemovePrompt, chain, MoneyInv
<1>4. CASE HudDismissed
  <2>1. dismissals' \in Nat
    BY <1>4 DEF HudDismissed, MoneyInv
  <2>2. QED
    BY <1>4, <2>1, MoneyKept DEF HudDismissed, page, chain
<1>5. CASE \E i \in DOMAIN sends : Answer(i) \/ Arrives(i)
  BY <1>5, AnswerMoney, ArrivesMoney
<1>6. ASSUME NEW w \in Of("ETH"), Mine(w) PROVE MoneyInv'
  <2>1. DOMAIN sends' = DOMAIN sends
    BY <1>6 DEF Mine, Inv, PayInv, TypesOK
  <2>2. QED
    BY <1>6, <2>1, MoneyKept DEF Mine, page, MoneyInv
<1>7. CASE UNCHANGED vars
  BY <1>7, MoneyKept DEF vars, page, chain, MoneyInv
<1>8. QED
  BY <1>1, <1>2, <1>3, <1>4, <1>5, <1>6, <1>7 DEF Next

LEMMA AlwaysMoney == Spec => []MoneyInv
<1>1. Spec => []Inv
  BY AlwaysInv
<1>2. QED
  BY <1>1, InitMoney, StepMoney, PTL DEF Spec

\* Every variable keeps its type: no change of a Bitcoin transaction is ever a
\* debt, what an address has left is a set of outputs that transfers or the
\* chain gave it, and what waits in a pool is a transfer there is.
THEOREM TypeCorrect == Spec => []TypeOK
<1>1. Inv /\ MoneyInv => TypeOK
  <2> SUFFICES ASSUME Inv, MoneyInv PROVE TypeOK
    OBVIOUS
  <2>1. \A w \in Of("ETH") : pool[w] \in 0..Len(sends)
    BY DEF Inv, PayInv, PoolOK, TypesOK
  <2>2. pool \in [Of("ETH") -> 0..Len(sends)]
    BY <2>1 DEF Inv, PayInv, TypesOK
  <2>3. QED
    BY <2>2 DEF TypeOK, Inv, PayInv, TypesOK, MoneyInv
<1>2. QED
  BY <1>1, AlwaysInv, AlwaysMoney, PTL

\* For any outputs, amounts, rates and width of words, whatever has been spent
\* before: the loop refuses an amount only when the outputs do not make it up.
THEOREM NothingRefusedInVain == Spec => []AmountsAreSpendable
<1>1. MoneyInv => AmountsAreSpendable
  <2> SUFFICES ASSUME MoneyInv, NEW w \in Of("BTC"), NEW amount \in Amounts, NEW rate \in Rates
               PROVE  Payable(Select(unspent[w], amount, rate)) <=> Values(unspent[w]) >= amount
    BY DEF AmountsAreSpendable
  <2>1. amount \in Nat /\ rate \in Nat
    BY AmountsAssumption
  <2>2. QED
    BY <2>1, UnspentWorthy, SelectSound
<1>2. QED
  BY <1>1, AlwaysMoney, PTL

\* The fees an address can come to are all words.
FeesAreWords ==
  \A w \in Of("BTC"), rate \in Rates : FeesFit(Cardinality(unspent[w]), rate)

\* In a behaviour no fee of which leaves the words, a transfer pays no fee or at
\* least the rate for the size of its inputs, however many rounds the loop went.
THEOREM FeesPay == Spec /\ []FeesAreWords => []FeesPayForInputs
<1>1. MoneyInv /\ FeesAreWords => FeesPayForInputs
  <2> SUFFICES ASSUME MoneyInv, FeesAreWords,
                      NEW w \in Of("BTC"), NEW amount \in Amounts, NEW rate \in Rates
               PROVE  LET sel == Select(unspent[w], amount, rate)
                          fee == sel.total - amount
                      IN  Payable(sel) => fee = 0 \/ fee >= Size(Cardinality(sel.inputs)) * rate
    BY DEF FeesPayForInputs
  <2>1. amount \in Nat /\ rate \in Nat
    BY AmountsAssumption
  <2>2. FeesFit(Cardinality(unspent[w]), rate)
    BY DEF FeesAreWords
  <2>3. QED
    BY <2>1, <2>2, UnspentWorthy, SelectPays
<1>2. QED
  BY <1>1, AlwaysMoney, PTL

\* Whatever is switched while servers answer, what a network takes is taken
\* from the wallet the transfer was confirmed for: the owner is fixed at the
\* confirmation, and a key that came later only signs for its own wallet.
THEOREM TakenIsPaidByItsWallet == Spec => []PaidByItsWallet
<1>1. Inv => PaidByItsWallet
  BY DEF Inv, PayInv, StageOK, Taken, PaidByItsWallet
<1>2. QED
  BY <1>1, AlwaysInv, PTL

\* In a process whose HUD is masked two transfers of Ether or IOST are never
\* under way together, as long as no creation of a Tron transaction has failed.
THEOREM MaskApart == Spec => []MaskKeepsSendsApart
<1>1. CreationFailed <=> \E i \in DOMAIN sends : Failed(sends[i])
  BY DEF CreationFailed, Failed, Brand
<1>2. Inv => MaskKeepsSendsApart
  BY <1>1 DEF Inv, MaskInv, MaskKeepsSendsApart, Held, Brand
<1>3. QED
  BY <1>2, AlwaysInv, PTL

\* What the user is told to have succeeded was taken, and a transfer of Ether
\* that met no other of its account is neither refused for its nonce nor
\* replaced, however long its nonce was read before it is used.
THEOREM ToldIsTaken == Spec => []SuccessesAreTaken
<1>1. AloneInv => SuccessesAreTaken
  BY DEF AloneInv, ToldOK, LoneOK, SuccessesAreTaken, Brand
<1>2. Spec => []AloneInv
  BY AlwaysInv, InitAlone, StepAlone, PTL DEF Spec
<1>3. QED
  BY <1>1, <1>2, PTL

\* Every step of the transfers is a step of the strict ledger, or leaves it alone.
LEMMA StepSettles ==
  Inv /\ Inv' /\ MoneyInv /\ MoneyInv' /\ AloneInv /\ [Next]_vars
    => [Settled!StrictNext]_(Settled!ledger)
<1> SUFFICES ASSUME Inv, Inv', MoneyInv, MoneyInv', AloneInv, [Next]_vars
             PROVE  [Settled!StrictNext]_(Settled!ledger)
  OBVIOUS
<1>1. ASSUME UNCHANGED sends PROVE UNCHANGED Settled!ledger
  BY <1>1, LedgerKept DEF Same
<1>2. CASE (\E w \in Wallets : Switch(w)) \/ RemovePrompt \/ HudDismissed \/ UNCHANGED vars
  BY <1>1, <1>2 DEF Switch, RemovePrompt, HudDismissed, vars
<1>3. CASE Confirm
  BY <1>3, ConfirmSettles
<1>4. CASE \E i \in DOMAIN sends : Answer(i) \/ Arrives(i)
  BY <1>4, AnswerSettles, ArrivesSettles
<1>5. CASE \E w \in Of("ETH") : Mine(w)
  BY <1>5, MineSettles
<1>6. QED
  BY <1>2, <1>3, <1>4, <1>5 DEF Next

\* For any wallets, amounts and outputs, and however transfers overlap, fail and
\* arrive late: the page and the networks together are a strict settlement - each
\* confirmed transfer is taken once at most and has one verdict, and a success is
\* told of a transfer that was taken.
THEOREM TransfersSettle == Spec => SettlesEach
<1>1. Init => Settled!Init
  <2> SUFFICES ASSUME Init PROVE Settled!Init
    OBVIOUS
  <2>1. DOMAIN sends = {}
    BY DEF Init
  <2>2. \A i \in 1..MaxSends : Verdict(i) = "nothing"
    BY <2>1 DEF Verdict
  <2>3. QED
    BY <2>1, <2>2 DEF Settled!Init
<1>2. Spec => []AloneInv
  BY AlwaysInv, InitAlone, StepAlone, PTL DEF Spec
<1>3. QED
  BY <1>1, <1>2, AlwaysInv, AlwaysMoney, StepSettles, PTL DEF Spec, SettlesEach, Settled!StrictSpec

=============================================================================
