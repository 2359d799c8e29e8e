--------------------------- MODULE MCShopServices ---------------------------
(***************************************************************************)
(* Small instances of the modules about what the shop sells and serves,    *)
(* checked in one run. They share no state: a behaviour is one of a single *)
(* component, picked at the start, while the others stay in an initial     *)
(* state, so the run has the union of their state spaces, not the product. *)
(***************************************************************************)
EXTENDS CheckoutIntake, HybridProvisioning, DigisellerSales, ReferralLedger,
        BridgeGate, ClientConfigs, AwgAddresses, QrCode

VARIABLE part \* the component that runs

(* Files with extra outbounds: none, one or two, with and without the prefix
   that the balancer selects by. *)
MCExtraFiles ==
  {<<>>, << <<"proxy", "e1">> >>, << <<"relay", "e1">> >>, << <<"relay", "e1">>, <<"proxy", "e2">> >>}

(* Digits, letters and bytes at the edges of versions 1 and 2 and of the
   groups they are taken in, a version that is written out (7) and one whose
   blocks differ in length (10). *)
MCTexts ==
  LET digits(n) == [i \in 1..n |-> 48 + ((7 * i) % 10)]
      letters(n) == [i \in 1..n |-> Alphabet[((7 * i) % 45) + 1]]
      bytes(n) == [i \in 1..n |-> 33 + ((5 * i) % 90)]
  IN {digits(n) : n \in {0, 1, 5, 41, 42}} \cup {letters(n) : n \in {2, 25, 26}}
       \cup {bytes(n) : n \in {1, 14, 15, 17, 18, 140, 235}}

MCInit ==
  /\ part \in {"intake", "hybrid", "digiseller", "referral", "bridge", "configs", "addresses", "qr"}
  /\ IntakeInit /\ HybridInit /\ DigiInit /\ ReferralInit /\ BridgeInit /\ ConfigInit
  /\ AddressInit /\ QrInit
  /\ part # "configs" =>
       /\ {panelEnds, shopEnds} = {Never}
       /\ shopRead /\ clientOn /\ statsOn /\ german /\ extras = <<>>
  /\ part # "qr" => qrText = <<>>

(* Only the component c may move. *)
Stay(c, vars) == IF part = c THEN TRUE ELSE UNCHANGED vars
In(c) ==
  /\ part = c /\ UNCHANGED part
  /\ Stay("intake", intakeVars) /\ Stay("hybrid", hybridVars) /\ Stay("digiseller", digiVars)
  /\ Stay("referral", referralVars) /\ Stay("bridge", bridgeVars) /\ Stay("configs", configVars)
  /\ Stay("addresses", addressVars) /\ Stay("qr", qrVars)

MCNext ==
  \/ In("intake") /\ IntakeNext
  \/ In("hybrid") /\ HybridNext
  \/ In("digiseller") /\ DigiNext
  \/ In("referral") /\ ReferralNext
  \/ In("bridge") /\ BridgeNext
  \/ In("configs") /\ ConfigNext
  \/ In("addresses") /\ AddressNext
  \/ In("qr") /\ QrNext

mcVars == <<part, intakeVars, hybridVars, digiVars, referralVars, bridgeVars, configVars, addressVars, qrVars>>

(* The fairness of each module, for the component that runs. *)
MCFairness ==
  /\ \A o \in Purchase :
       WF_intakeVars(part = "intake" /\ Settle(o)) /\ WF_intakeVars(part = "intake" /\ RecoverPurchase(o))
  /\ WF_hybridVars(part = "hybrid" /\ HybridStep)
  /\ \A l \in Leg : WF_hybridVars(part = "hybrid" /\ PurgeDeleted(l))
  /\ \A c \in Call : WF_digiVars(part = "digiseller" /\ HandlerStep(c))
  /\ WF_digiVars(part = "digiseller" /\ RecoverSale)
  /\ WF_digiVars(part = "digiseller" /\ ReconcileCode)

MCSpec == MCInit /\ [][MCNext]_mcVars /\ MCFairness
=============================================================================
