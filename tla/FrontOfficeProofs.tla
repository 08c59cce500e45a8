------------------------- MODULE FrontOfficeProofs -------------------------
(***************************************************************************)
(* Theorems about the rules engine, the form builder, the event page, the  *)
(* figures of the dashboards, the console and the demo script, for any     *)
(* forms, events, tables, clicks and runs.                                 *)
(*                                                                         *)
(* Every part has its own inductive invariant (RulesInv, FormInv, PageInv, *)
(* FiguresInv, ConsoleInv, SeedInv), found by asking what the code in      *)
(* progress still relies on: what was said so far, what a save that is     *)
(* under way holds, how far a script has come.  A step of one part leaves  *)
(* the others alone, so their conjunction is the invariant of              *)
(* MCFrontOffice as a whole.                                               *)
(***************************************************************************)
EXTENDS MCFrontOffice, FiniteSetTheorems, TLAPS

-----------------------------------------------------------------------------
(* The rules engine: the places of the rules are worked off in the reverse *)
(* of the order in which they prevail, so the newest place prevails over   *)
(* every place worked off before, and what the result says is at any time  *)
(* the last word among the places worked off so far.                       *)

\* The places whose actions have been applied.
Said == {p \in Places : p[1] \notin pending /\ (p[1] = current => p[2] <= applied)}

\* The place ApplyAction works off.
Newest == <<current, applied + 1>>

Prevails(p, S) == p \in S /\ \A q \in S \ {p} : Overrides(p, q)

\* Some place of S gives f this action, and prevails over the contrary ones.
Wins(action, contrary, S, f) ==
    \E p \in S :
        /\ Says(p, action, f)
        /\ \A q \in S : Says(q, contrary, f) => Overrides(p, q)

\* The places of S that set the price, and those that set field f.
Pricing(S) == {p \in S : At(p).action = "set_pricing"}
Setting(S, f) == {p \in S : Says(p, "set_field", f)}

\* The rules are taken up in the order of Earlier.
TakenInOrder ==
    IF pc = "evaluate" THEN pending = {} /\ current = 0
    ELSE /\ pending \subseteq Firing \ {current}
         /\ current \in Firing \cup {0}
         /\ current # 0 => applied <= Len(rules[current].actions)
         /\ current = 0 => pending = Firing
         /\ \A r \in Firing \ pending : \A s \in pending \cup {current} :
               r # s => Earlier(r, s)
         /\ pc = "done" => RuleOver /\ pending = {}

\* What has been worked off so far: nothing before the evaluation.
SoFar == IF pc = "evaluate" THEN {} ELSE Said

FieldsSoFar ==
    \A f \in Field :
        /\ f \in form.visibleFields
              <=> Wins("show_field", "hide_field", SoFar, f)
        /\ f \in form.hiddenFields
              <=> Wins("hide_field", "show_field", SoFar, f)

PriceSoFar ==
    IF Pricing(SoFar) = {}
    THEN form.finalPrice = basePrice /\ form.pricingTier = "standard"
    ELSE \E p \in Pricing(SoFar) :
            /\ Prevails(p, Pricing(SoFar))
            /\ form.finalPrice = Coalesce(At(p).value, basePrice)
            /\ form.pricingTier = At(p).target

DataSoFar ==
    \A f \in Field :
        /\ f \in form.requiredFields
              <=> \E p \in SoFar : Says(p, "require_field", f)
        /\ IF Setting(SoFar, f) = {}
           THEN form.updatedFormData[f] = answers[f]
           ELSE \E p \in Setting(SoFar, f) :
                   /\ Prevails(p, Setting(SoFar, f))
                   /\ form.updatedFormData[f] = At(p).value

ErrorsAtEnd == pc = "done" => form.errors = Missing(form)

\* The inductive invariant.
RulesInv ==
    /\ TypeOK
    /\ TakenInOrder
    /\ FieldsSoFar
    /\ PriceSoFar
    /\ DataSoFar
    /\ ErrorsAtEnd

-----------------------------------------------------------------------------
(* Types and order                                                         *)

\* A rule that is taken from the list is typed, and so are its actions.
LEMMA RulesTyped ==
    ASSUME rules \in RuleList, NEW r \in DOMAIN rules
    PROVE  /\ r \in Nat \ {0}
           /\ rules[r].priority \in Int
           /\ rules[r].actions \in Seq(Action)
           /\ \A i \in DOMAIN rules[r].actions :
                 /\ i \in Nat
                 /\ rules[r].actions[i] \in Action
                 /\ WellTargeted(rules[r].actions[i])
<1>1. rules \in Seq(Rule) /\ rules[r] \in Rule /\ r \in Nat \ {0}
  BY RulesAssumption
<1>2. rules[r].priority \in Int /\ rules[r].actions \in Seq(Action)
  BY <1>1 DEF Rule
<1>3. ASSUME NEW i \in DOMAIN rules[r].actions
      PROVE  /\ i \in Nat
             /\ rules[r].actions[i] \in Action
             /\ WellTargeted(rules[r].actions[i])
  <2>1. WellTargeted(rules[r].actions[i])
    BY <1>1, RulesAssumption
  <2> QED BY <1>2, <2>1
<1> QED BY <1>1, <1>2, <1>3

\* A place names a firing rule and one of its actions.
LEMMA PlacesTyped ==
    ASSUME rules \in RuleList, NEW p \in Places
    PROVE  /\ p = <<p[1], p[2]>>
           /\ p[1] \in Firing /\ p[1] \in DOMAIN rules /\ p[1] \in Nat \ {0}
           /\ p[2] \in DOMAIN rules[p[1]].actions /\ p[2] \in Nat
           /\ rules[p[1]].priority \in Int
<1>1. PICK r \in Firing : p \in {<<r, i>> : i \in DOMAIN rules[r].actions}
  BY DEF Places
<1>2. PICK i \in DOMAIN rules[r].actions : p = <<r, i>>
  BY <1>1
<1>3. r \in DOMAIN rules
  BY DEF Firing
<1> QED BY <1>1, <1>2, <1>3, RulesTyped

\* No two places prevail over each other.
LEMMA OverridesOneWay ==
    ASSUME rules \in RuleList, NEW p \in Places, NEW q \in Places,
           Overrides(p, q)
    PROVE  ~Overrides(q, p)
BY PlacesTyped DEF Overrides

\* The last word is whatever place prevails.
LEMMA LastWordIs ==
    ASSUME rules \in RuleList, NEW S \in SUBSET Places, NEW p,
           Prevails(p, S)
    PROVE  LastWord(S) = p
<1>1. Prevails(LastWord(S), S)
  BY DEF Prevails, LastWord
<1> QED BY <1>1, OverridesOneWay DEF Prevails

-----------------------------------------------------------------------------
(* Type correctness                                                        *)

\* The form is typed when evaluateForm begins.
LEMMA InitTyped == Init => TypeOK
<1> SUFFICES ASSUME Init PROVE TypeOK
  OBVIOUS
<1>1. answers \in [Field -> Value] /\ basePrice \in Given
  BY RulesAssumption DEF Init
<1>2. form.updatedFormData \in [Field \cup {"_status"} -> Value]
  BY <1>1, RulesAssumption DEF Init, Value
<1>3. form \in FormResult
  BY <1>1, <1>2 DEF Init, FormResult
<1> QED BY <1>3 DEF Init, TypeOK

\* Whatever action is applied, the result stays a result.
LEMMA AppliedTyped ==
    ASSUME NEW res \in FormResult, NEW a \in Action, WellTargeted(a),
           basePrice \in Given
    PROVE  Applied(res, a) \in FormResult
<1>0. Coalesce(a.value, basePrice) \in Given
  BY DEF Coalesce, Absent, Value, Action
<1>1. CASE a.action = "show_field"
  BY <1>1 DEF Applied, Shown, FormResult, WellTargeted
<1>2. CASE a.action = "hide_field"
  BY <1>2 DEF Applied, Hidden, FormResult, WellTargeted
<1>3. CASE a.action = "require_field"
  BY <1>3 DEF Applied, FormResult, WellTargeted
<1>4. CASE a.action = "set_pricing"
  BY <1>0, <1>4 DEF Applied, FormResult, WellTargeted
<1>5. CASE a.action = "set_field"
  BY <1>5 DEF Applied, FormResult, WellTargeted, Action
<1>6. CASE a.action = "set_status"
  BY <1>6 DEF Applied, FormResult, Action
<1>7. CASE a.action \in {"send_notification", "trigger_webhook"}
  BY <1>7 DEF Applied
<1> QED BY <1>1, <1>2, <1>3, <1>4, <1>5, <1>6, <1>7 DEF Action, ActionName

\* What ApplyAction works off.
LEMMA NewestPlace ==
    ASSUME TypeOK, TakenInOrder, ApplyAction
    PROVE  /\ Newest \in Places
           /\ Newest \notin Said
           /\ form' = Applied(form, At(Newest))
           /\ At(Newest) \in Action /\ WellTargeted(At(Newest))
<1>1. pc = "apply" /\ current # 0 /\ applied # Len(rules[current].actions)
  BY DEF ApplyAction, RuleOver
<1>2. current \in Firing /\ current \in DOMAIN rules /\ rules \in RuleList
      /\ applied \in Nat /\ applied <= Len(rules[current].actions)
  BY <1>1 DEF TakenInOrder, TypeOK, Firing
<1>3. rules[current].actions \in Seq(Action)
  BY <1>2, RulesTyped
<1>4. applied + 1 \in DOMAIN rules[current].actions
  BY <1>1, <1>2, <1>3
<1>5. Newest \in Places
  BY <1>2, <1>4 DEF Newest, Places
<1>6. Newest \notin Said
  BY <1>2 DEF Newest, Said
<1>7. At(Newest) \in Action /\ WellTargeted(At(Newest))
  BY <1>2, <1>4, RulesTyped DEF At, Newest
<1> QED BY <1>5, <1>6, <1>7 DEF ApplyAction, At, Newest

\* No step of evaluateForm loses a type.
LEMMA TypeStep == TypeOK /\ TakenInOrder /\ [Next]_vars => TypeOK'
<1> SUFFICES ASSUME TypeOK, TakenInOrder, [Next]_vars PROVE TypeOK'
  OBVIOUS
<1>1. CASE Evaluate
  BY <1>1 DEF Evaluate, TypeOK, Firing
<1>2. CASE NextRule
  BY <1>2 DEF NextRule, TypeOK
<1>3. CASE ApplyAction
  <2>1. form' \in FormResult
    BY <1>3, NewestPlace, AppliedTyped, RulesAssumption DEF TypeOK
  <2> QED BY <1>3, <2>1 DEF ApplyAction, TypeOK
<1>4. CASE Validate
  <2>1. Missing(form) \subseteq Field
    BY DEF Missing, TypeOK, FormResult
  <2>2. form' \in FormResult
    BY <1>4, <2>1 DEF Validate, TypeOK, FormResult
  <2> QED BY <1>4, <2>2 DEF Validate, TypeOK
<1>5. CASE UNCHANGED vars
  BY <1>5 DEF vars, TypeOK
<1> QED BY <1>1, <1>2, <1>3, <1>4, <1>5 DEF Next

-----------------------------------------------------------------------------
(* The order of the places                                                 *)

\* The form, its rules and the answers stay what they are.
LEMMA FormStays ==
    [Next]_vars => /\ rules' = rules /\ answers' = answers
                   /\ basePrice' = basePrice
                   /\ Firing' = Firing /\ Places' = Places
<1> SUFFICES ASSUME [Next]_vars
             PROVE  /\ rules' = rules /\ answers' = answers
                    /\ basePrice' = basePrice
                    /\ Firing' = Firing /\ Places' = Places
  OBVIOUS
<1>1. rules' = rules /\ answers' = answers /\ basePrice' = basePrice
  BY DEF Next, Evaluate, NextRule, ApplyAction, Validate, vars
<1>2. Firing' = Firing
  BY <1>1 DEF Firing, Matched
<1> QED BY <1>1, <1>2 DEF Places

\* The sort is kept: no rule is taken up before one that goes first.
LEMMA OrderStep == TypeOK /\ TakenInOrder /\ [Next]_vars => TakenInOrder'
<1> SUFFICES ASSUME TypeOK, TakenInOrder, [Next]_vars PROVE TakenInOrder'
  OBVIOUS
<1>0. rules' = rules /\ Firing' = Firing /\ 0 \notin Firing
  BY FormStays, RulesTyped DEF TypeOK, Firing
<1>e. \A r, s : Earlier(r, s)' <=> Earlier(r, s)
  BY <1>0 DEF Earlier
<1>1. CASE Evaluate
  <2>1. pc' = "apply" /\ pending' = Firing /\ current' = 0
    BY <1>1 DEF Evaluate, TakenInOrder
  <2> QED BY <1>0, <2>1 DEF TakenInOrder
<1>2. CASE NextRule
  <2>1. PICK r \in pending :
           /\ \A s \in pending \ {r} : Earlier(r, s)
           /\ current' = r /\ pending' = pending \ {r}
           /\ applied' = 0 /\ pc' = pc /\ pc = "apply"
    BY <1>2 DEF NextRule
  <2>2. pending \subseteq Firing \ {current} /\ r \in Firing
    BY <2>1 DEF TakenInOrder
  <2>3. \A x \in Firing \ pending' : \A y \in pending' \cup {current'} :
           x # y => Earlier(x, y)
    BY <2>1, <2>2 DEF TakenInOrder
  <2>4. 0 <= Len(rules[r].actions)
    BY <2>2, RulesTyped DEF TypeOK, Firing
  <2> QED BY <1>0, <1>e, <2>1, <2>2, <2>3, <2>4 DEF TakenInOrder
<1>3. CASE ApplyAction
  <2>1. /\ pc = "apply" /\ pc' = pc /\ pending' = pending /\ current' = current
        /\ current # 0 /\ applied # Len(rules[current].actions)
        /\ applied' = applied + 1
    BY <1>3 DEF ApplyAction, RuleOver
  <2>2. applied' <= Len(rules[current].actions)
    <3>1. current \in Firing /\ applied <= Len(rules[current].actions)
      BY <2>1 DEF TakenInOrder
    <3>2. rules[current].actions \in Seq(Action) /\ applied \in Nat
      BY <3>1, RulesTyped DEF TypeOK, Firing
    <3> QED BY <2>1, <3>1, <3>2
  <2> QED BY <1>0, <1>e, <2>1, <2>2 DEF TakenInOrder
<1>4. CASE Validate
  BY <1>0, <1>4 DEF Validate, TakenInOrder, Earlier, RuleOver
<1>5. CASE UNCHANGED vars
  BY <1>0, <1>5 DEF vars, TakenInOrder, Earlier, RuleOver
<1> QED BY <1>1, <1>2, <1>3, <1>4, <1>5 DEF Next

\* Places keep what they say and over what they prevail.
LEMMA PlacesStay ==
    ASSUME [Next]_vars
    PROVE  /\ \A p : At(p)' = At(p)
           /\ \A p, q : Overrides(p, q)' <=> Overrides(p, q)
BY FormStays DEF At, Overrides

\* The place of an action is within the list of its rule.
LEMMA PlaceNumbers ==
    ASSUME rules \in RuleList, NEW p \in Places
    PROVE  1 <= p[2] /\ p[2] <= Len(rules[p[1]].actions)
<1>1. p[1] \in DOMAIN rules /\ p[2] \in DOMAIN rules[p[1]].actions
  BY PlacesTyped
<1>2. rules[p[1]].actions \in Seq(Action)
  BY <1>1, RulesTyped
<1> QED BY <1>1, <1>2

\* The steps between the actions work off no place.
LEMMA SoFarStays ==
    ASSUME TypeOK, TakenInOrder, Evaluate \/ NextRule \/ Validate \/ UNCHANGED vars
    PROVE  SoFar' = SoFar
<1>0. rules' = rules /\ Places' = Places
  BY FormStays DEF Next
<1>1. CASE Evaluate
  <2>1. \A p \in Places : p[1] \in Firing
    BY PlacesTyped DEF TypeOK
  <2> QED BY <1>0, <1>1, <2>1 DEF Evaluate, SoFar, Said
<1>2. CASE NextRule
  <2>1. pc = "apply" /\ pc' = "apply" /\ RuleOver /\ applied' = 0
        /\ current' \in pending /\ pending' = pending \ {current'}
    BY <1>2 DEF NextRule
  <2>2. ASSUME NEW p \in Places PROVE p \in Said' <=> p \in Said
    <3>1. 1 <= p[2] /\ p[2] <= Len(rules[p[1]].actions)
          /\ p[2] \in Nat /\ p[1] # 0
      BY PlaceNumbers, PlacesTyped DEF TypeOK
    <3>2. p[1] = current => p[2] <= applied
      BY <2>1, <3>1 DEF RuleOver
    <3>3. p[1] = current' => ~(p[2] <= applied')
      BY <2>1, <3>1
    <3> QED BY <1>0, <2>1, <3>2, <3>3 DEF Said
  <2>3. Said \subseteq Places /\ Said' \subseteq Places
    BY <1>0 DEF Said
  <2> QED BY <2>1, <2>2, <2>3 DEF SoFar
<1>3. CASE Validate
  BY <1>0, <1>3 DEF Validate, SoFar, Said
<1>4. CASE UNCHANGED vars
  BY <1>0, <1>4 DEF vars, SoFar, Said
<1> QED BY <1>1, <1>2, <1>3, <1>4

\* An action adds the newest place, which prevails over those before.
LEMMA SoFarGrows ==
    ASSUME TypeOK, TakenInOrder, ApplyAction
    PROVE  /\ SoFar' = SoFar \cup {Newest}
           /\ SoFar' \subseteq Places
           /\ Newest \notin SoFar
           /\ \A q \in SoFar : Overrides(Newest, q) /\ ~Overrides(q, Newest)
<1>0. Places' = Places /\ pc = "apply" /\ pc' = "apply" /\ current' = current
      /\ pending' = pending /\ applied' = applied + 1
  BY FormStays DEF Next, ApplyAction
<1>1. Newest \in Places /\ Newest \notin Said /\ rules \in RuleList
      /\ applied \in Nat
  BY NewestPlace DEF TypeOK
<1>2. ASSUME NEW p \in Places PROVE p \in Said' <=> p \in Said \/ p = Newest
  <2>1. p = <<p[1], p[2]>> /\ p[2] \in Nat
    BY <1>1, PlacesTyped
  <2>2. current \notin pending
    BY <1>0 DEF TakenInOrder
  <2>3. p = Newest <=> p[1] = current /\ p[2] = applied + 1
    BY <2>1 DEF Newest
  <2> QED BY <1>0, <1>1, <2>1, <2>2, <2>3 DEF Said
<1>3. ASSUME NEW q \in Said PROVE Overrides(Newest, q)
  <2>1. q \in Places /\ q[1] \notin pending
        /\ (q[1] = current => q[2] <= applied)
    BY DEF Said
  <2>2. /\ q[1] \in Firing /\ q[1] \in Nat /\ q[2] \in Nat
        /\ rules[q[1]].priority \in Int
    BY <1>1, <2>1, PlacesTyped
  <2>3. current \in Nat /\ rules[current].priority \in Int
    BY <1>1, PlacesTyped DEF Newest
  <2>4. CASE q[1] = current
    BY <1>1, <2>1, <2>2, <2>3, <2>4 DEF Overrides, Newest
  <2>5. CASE q[1] # current
    <3>1. Earlier(q[1], current)
      BY <1>0, <2>1, <2>2, <2>5 DEF TakenInOrder
    <3> QED BY <2>2, <2>3, <2>5, <3>1 DEF Overrides, Newest, Earlier
  <2> QED BY <2>4, <2>5
<1>4. SoFar' = SoFar \cup {Newest} /\ SoFar = Said
  BY <1>0, <1>1, <1>2 DEF SoFar, Said
<1>5. SoFar' \subseteq Places /\ Said \subseteq Places
  BY <1>1, <1>4 DEF Said
<1> QED BY <1>1, <1>3, <1>4, <1>5, OverridesOneWay

-----------------------------------------------------------------------------
(* The last word among the places worked off so far                        *)

\* Between the actions nothing but the errors and the progress changes.
LEMMA FormBetween ==
    ASSUME TypeOK, Evaluate \/ NextRule \/ Validate \/ UNCHANGED vars
    PROVE  /\ form'.visibleFields = form.visibleFields
           /\ form'.hiddenFields = form.hiddenFields
           /\ form'.requiredFields = form.requiredFields
           /\ form'.pricingTier = form.pricingTier
           /\ form'.finalPrice = form.finalPrice
           /\ form'.updatedFormData = form.updatedFormData
BY DEF Evaluate, NextRule, Validate, vars, TypeOK, FormResult

\* An action that shows or hides a field has the last word on it so far.
LEMMA FieldsStep ==
    ASSUME TypeOK, TakenInOrder, FieldsSoFar, [Next]_vars
    PROVE  FieldsSoFar'
<1>0. /\ \A p : At(p)' = At(p)
      /\ \A p, q : Overrides(p, q)' <=> Overrides(p, q)
  BY PlacesStay
<1>1. FieldsSoFar' <=>
        \A f \in Field :
          /\ f \in form'.visibleFields
                <=> Wins("show_field", "hide_field", SoFar', f)
          /\ f \in form'.hiddenFields
                <=> Wins("hide_field", "show_field", SoFar', f)
  BY <1>0 DEF FieldsSoFar, Wins, Says
<1>2. CASE Evaluate \/ NextRule \/ Validate \/ UNCHANGED vars
  BY <1>1, <1>2, SoFarStays, FormBetween DEF FieldsSoFar
<1>3. CASE ApplyAction
  <2> DEFINE a == At(Newest)
  <2>1. /\ SoFar' = SoFar \cup {Newest}
        /\ Newest \notin SoFar
        /\ \A q \in SoFar : Overrides(Newest, q) /\ ~Overrides(q, Newest)
    BY <1>3, SoFarGrows
  <2>2. form' = Applied(form, a) /\ a \in Action /\ form \in FormResult
    BY <1>3, NewestPlace DEF TypeOK
  <2> SUFFICES ASSUME NEW f \in Field
               PROVE  /\ f \in form'.visibleFields
                            <=> Wins("show_field", "hide_field", SoFar', f)
                      /\ f \in form'.hiddenFields
                            <=> Wins("hide_field", "show_field", SoFar', f)
    BY <1>1
  <2>3. CASE Says(Newest, "show_field", f)
    <3>1. f \in form'.visibleFields /\ f \notin form'.hiddenFields
      BY <2>2, <2>3 DEF Applied, Shown, Says, FormResult
    <3>2. ~Says(Newest, "hide_field", f)
      BY <2>3 DEF Says
    <3> QED BY <2>1, <2>3, <3>1, <3>2 DEF Wins
  <2>4. CASE Says(Newest, "hide_field", f)
    <3>1. f \in form'.hiddenFields /\ f \notin form'.visibleFields
      BY <2>2, <2>4 DEF Applied, Hidden, Says, FormResult
    <3>2. ~Says(Newest, "show_field", f)
      BY <2>4 DEF Says
    <3> QED BY <2>1, <2>4, <3>1, <3>2 DEF Wins
  <2>5. CASE ~Says(Newest, "show_field", f) /\ ~Says(Newest, "hide_field", f)
    <3>1. /\ f \in form'.visibleFields <=> f \in form.visibleFields
          /\ f \in form'.hiddenFields <=> f \in form.hiddenFields
      BY <2>2, <2>5 DEF Applied, Shown, Hidden, Says, FormResult
    <3>2. /\ f \in form.visibleFields
                <=> Wins("show_field", "hide_field", SoFar, f)
          /\ f \in form.hiddenFields
                <=> Wins("hide_field", "show_field", SoFar, f)
      BY DEF FieldsSoFar
    <3>3. ASSUME NEW x \in {"show_field", "hide_field"},
                 NEW y \in {"show_field", "hide_field"}
          PROVE  Wins(x, y, SoFar', f) <=> Wins(x, y, SoFar, f)
      BY <2>1, <2>5 DEF Wins
    <3> QED BY <3>1, <3>2, <3>3
  <2> QED BY <2>3, <2>4, <2>5
<1> QED BY <1>2, <1>3 DEF Next

\* The newest place prevails wherever it is added.
LEMMA NewestPrevails ==
    ASSUME TypeOK, TakenInOrder, ApplyAction, NEW S \in SUBSET SoFar
    PROVE  Prevails(Newest, S \cup {Newest})
BY SoFarGrows DEF Prevails

\* An action that sets the price has the last word on it so far.
LEMMA PriceStep ==
    ASSUME TypeOK, TakenInOrder, PriceSoFar, [Next]_vars
    PROVE  PriceSoFar'
<1>0. /\ \A p : At(p)' = At(p)
      /\ \A p, q : Overrides(p, q)' <=> Overrides(p, q)
      /\ basePrice' = basePrice
  BY PlacesStay, FormStays
<1>1. PriceSoFar' <=>
        IF Pricing(SoFar') = {}
        THEN form'.finalPrice = basePrice /\ form'.pricingTier = "standard"
        ELSE \E p \in Pricing(SoFar') :
               /\ Prevails(p, Pricing(SoFar'))
               /\ form'.finalPrice = Coalesce(At(p).value, basePrice)
               /\ form'.pricingTier = At(p).target
  BY <1>0 DEF PriceSoFar, Prevails, Pricing
<1>2. CASE Evaluate \/ NextRule \/ Validate \/ UNCHANGED vars
  BY <1>1, <1>2, SoFarStays, FormBetween DEF PriceSoFar
<1>3. CASE ApplyAction
  <2>1. SoFar' = SoFar \cup {Newest}
    BY <1>3, SoFarGrows
  <2>2. /\ form' = Applied(form, At(Newest)) /\ At(Newest) \in Action
        /\ form \in FormResult
    BY <1>3, NewestPlace DEF TypeOK
  <2>3. CASE At(Newest).action = "set_pricing"
    <3>1. /\ form'.finalPrice = Coalesce(At(Newest).value, basePrice)
          /\ form'.pricingTier = At(Newest).target
      BY <2>2, <2>3 DEF Applied, FormResult
    <3>2. Pricing(SoFar') = Pricing(SoFar) \cup {Newest}
      BY <2>1, <2>3 DEF Pricing
    <3>3. Prevails(Newest, Pricing(SoFar'))
      BY <1>3, <3>2, NewestPrevails DEF Pricing
    <3> QED BY <1>1, <3>1, <3>2, <3>3
  <2>4. CASE At(Newest).action # "set_pricing"
    <3>1. /\ form'.finalPrice = form.finalPrice
          /\ form'.pricingTier = form.pricingTier
      BY <2>2, <2>4 DEF Applied, Shown, Hidden, FormResult
    <3>2. Pricing(SoFar') = Pricing(SoFar)
      BY <2>1, <2>4 DEF Pricing
    <3> QED BY <1>1, <3>1, <3>2 DEF PriceSoFar
  <2> QED BY <2>3, <2>4
<1> QED BY <1>2, <1>3 DEF Next

\* An action that sets a field has the last word on it so far.
LEMMA DataStep ==
    ASSUME TypeOK, TakenInOrder, DataSoFar, [Next]_vars
    PROVE  DataSoFar'
<1>0. /\ \A p : At(p)' = At(p)
      /\ \A p, q : Overrides(p, q)' <=> Overrides(p, q)
      /\ answers' = answers
  BY PlacesStay, FormStays
<1>1. DataSoFar' <=>
        \A f \in Field :
          /\ f \in form'.requiredFields
                <=> \E p \in SoFar' : Says(p, "require_field", f)
          /\ IF Setting(SoFar', f) = {}
             THEN form'.updatedFormData[f] = answers[f]
             ELSE \E p \in Setting(SoFar', f) :
                     /\ Prevails(p, Setting(SoFar', f))
                     /\ form'.updatedFormData[f] = At(p).value
  BY <1>0 DEF DataSoFar, Prevails, Setting, Says
<1>2. CASE Evaluate \/ NextRule \/ Validate \/ UNCHANGED vars
  BY <1>1, <1>2, SoFarStays, FormBetween DEF DataSoFar
<1>3. CASE ApplyAction
  <2>1. SoFar' = SoFar \cup {Newest}
    BY <1>3, SoFarGrows
  <2>2. /\ form' = Applied(form, At(Newest)) /\ At(Newest) \in Action
        /\ form \in FormResult
    BY <1>3, NewestPlace DEF TypeOK
  <2> SUFFICES ASSUME NEW f \in Field
               PROVE  /\ f \in form'.requiredFields
                            <=> \E p \in SoFar' : Says(p, "require_field", f)
                      /\ IF Setting(SoFar', f) = {}
                         THEN form'.updatedFormData[f] = answers[f]
                         ELSE \E p \in Setting(SoFar', f) :
                                 /\ Prevails(p, Setting(SoFar', f))
                                 /\ form'.updatedFormData[f] = At(p).value
    BY <1>1
  <2>3. f \in form'.requiredFields
          <=> f \in form.requiredFields \/ Says(Newest, "require_field", f)
    BY <2>2 DEF Applied, Shown, Hidden, Says, FormResult
  <2>4. f \in form'.requiredFields
          <=> \E p \in SoFar' : Says(p, "require_field", f)
    BY <2>1, <2>3 DEF DataSoFar
  <2>5. CASE Says(Newest, "set_field", f)
    <3>1. form'.updatedFormData[f] = At(Newest).value
      BY <2>2, <2>5 DEF Applied, Says, FormResult
    <3>2. Setting(SoFar', f) = Setting(SoFar, f) \cup {Newest}
      BY <2>1, <2>5 DEF Setting
    <3>3. Prevails(Newest, Setting(SoFar', f))
      BY <1>3, <3>2, NewestPrevails DEF Setting
    <3> QED BY <2>4, <3>1, <3>2, <3>3
  <2>6. CASE ~Says(Newest, "set_field", f)
    <3>1. form'.updatedFormData[f] = form.updatedFormData[f]
      BY <2>2, <2>6, RulesAssumption
      DEF Applied, Shown, Hidden, Says, FormResult
    <3>2. Setting(SoFar', f) = Setting(SoFar, f)
      BY <2>1, <2>6 DEF Setting
    <3> QED BY <2>4, <3>1, <3>2 DEF DataSoFar
  <2> QED BY <2>5, <2>6
<1> QED BY <1>2, <1>3 DEF Next

\* Errors are written once, when no action is left to apply.
LEMMA ErrorsStep ==
    ASSUME TypeOK, ErrorsAtEnd, [Next]_vars
    PROVE  ErrorsAtEnd'
<1>0. rules' = rules /\ answers' = answers
  BY FormStays
<1>1. CASE Validate
  BY <1>1 DEF Validate, ErrorsAtEnd, Missing, TypeOK, FormResult
<1>2. CASE Evaluate \/ NextRule \/ ApplyAction
  BY <1>2 DEF Evaluate, NextRule, ApplyAction, ErrorsAtEnd
<1>3. CASE UNCHANGED vars
  BY <1>3 DEF vars, ErrorsAtEnd, Missing
<1> QED BY <1>1, <1>2, <1>3 DEF Next

\* Before the first action nothing has been said.
LEMMA InitInv == Init => RulesInv
<1> SUFFICES ASSUME Init PROVE RulesInv
  OBVIOUS
<1>1. TypeOK
  BY InitTyped
<1>2. SoFar = {} /\ TakenInOrder /\ ErrorsAtEnd
  BY DEF Init, SoFar, TakenInOrder, ErrorsAtEnd
<1>3. FieldsSoFar
  BY <1>2 DEF Init, FieldsSoFar, Wins
<1>4. PriceSoFar
  BY <1>2 DEF Init, PriceSoFar, Pricing
<1>5. DataSoFar
  BY <1>2, RulesAssumption DEF Init, DataSoFar, Setting
<1> QED BY <1>1, <1>2, <1>3, <1>4, <1>5 DEF RulesInv

\* Every step of the evaluation keeps the invariant.
LEMMA RulesStep == RulesInv /\ [Next]_vars => RulesInv'
BY TypeStep, OrderStep, FieldsStep, PriceStep, DataStep, ErrorsStep
DEF RulesInv

\* RulesInv is an invariant: the result is at any time the last word among
\* the actions evaluateForm has applied so far.
THEOREM RulesInvariance == Spec => []RulesInv
<1>1. QED
  BY InitInv, RulesStep, PTL DEF Spec

\* evaluateForm's result is typed whatever the rules: actions on fields leave
\* fields, and there always is a price.
THEOREM RulesTypeCorrect == Spec => []TypeOK
<1>1. RulesInv => TypeOK
  BY DEF RulesInv
<1> QED BY <1>1, RulesInvariance, PTL

-----------------------------------------------------------------------------
(* At the end                                                              *)

\* When evaluateForm ends, every action of a firing rule has been applied.
LEMMA AllSaid ==
    ASSUME TypeOK, TakenInOrder, pc = "done"
    PROVE  SoFar = Places
<1>1. ASSUME NEW p \in Places PROVE p \in Said
  <2>1. p[2] <= Len(rules[p[1]].actions) /\ p[1] # 0
    BY PlaceNumbers, PlacesTyped DEF TypeOK
  <2> QED BY <2>1 DEF TakenInOrder, RuleOver, Said
<1> QED BY <1>1 DEF SoFar, Said

\* What the invariant says of the fields at the end.
LEMMA FieldsTell == RulesInv => FieldsFollowLastWord
BY AllSaid DEF RulesInv, FieldsSoFar, Wins, FieldsFollowLastWord

\* Whatever the rules, a field is visible, or hidden, exactly if the last word
\* of the firing rules on it is to show, or to hide, it (evaluateForm's
\* priority order and its clearing of the opposite set).
THEOREM FieldsAsOrdered == Spec => []FieldsFollowLastWord
<1>1. RulesInv => FieldsFollowLastWord
  BY FieldsTell
<1> QED BY <1>1, RulesInvariance, PTL

\* What the invariant says of the price at the end.
LEMMA PriceTells == RulesInv => PriceFollowsLastWord
<1>1. ASSUME RulesInv, pc = "done"
      PROVE  LET pricing == {p \in Places : At(p).action = "set_pricing"}
                 last == At(LastWord(pricing))
             IN  IF pricing = {}
                 THEN form.finalPrice = basePrice /\ form.pricingTier = "standard"
                 ELSE /\ form.finalPrice =
                             IF last.value.kind \in {"null", "undefined"}
                             THEN basePrice ELSE last.value
                      /\ form.pricingTier = last.target
  <2>1. SoFar = Places /\ PriceSoFar /\ rules \in RuleList
    BY <1>1, AllSaid DEF RulesInv, TypeOK
  <2>2. Pricing(Places) = {p \in Places : At(p).action = "set_pricing"}
        /\ Pricing(Places) \subseteq Places
    BY DEF Pricing
  <2>3. \A p : Prevails(p, Pricing(Places)) => LastWord(Pricing(Places)) = p
    BY <2>1, <2>2, LastWordIs
  <2> QED BY <2>1, <2>2, <2>3 DEF PriceSoFar, Coalesce, Absent
<1>2. QED
  BY <1>1 DEF PriceFollowsLastWord

\* Whatever the rules, price and tier are those of the prevailing set_pricing
\* action of evaluateForm.
THEOREM PriceAsOrdered == Spec => []PriceFollowsLastWord
<1>1. RulesInv => PriceFollowsLastWord
  BY PriceTells
<1>2. QED
  BY <1>1, RulesInvariance, PTL

\* What the invariant says of the errors at the end.
LEMMA ErrorsTell == RulesInv => RejectedIffEmpty
<1>1. ASSUME RulesInv, pc = "done", NEW f \in Field
      PROVE  LET sets == {p \in Places : Says(p, "set_field", f)}
                 value == IF sets = {} THEN answers[f]
                          ELSE At(LastWord(sets)).value
             IN  f \in form.errors
                   <=> /\ \E p \in Places : Says(p, "require_field", f)
                       /\ ~Truthy(value)
  <2>1. SoFar = Places /\ DataSoFar /\ rules \in RuleList
        /\ form.errors = Missing(form)
    BY <1>1, AllSaid DEF RulesInv, TypeOK, ErrorsAtEnd
  <2>2. Setting(Places, f) = {p \in Places : Says(p, "set_field", f)}
        /\ Setting(Places, f) \subseteq Places
    BY DEF Setting
  <2>3. \A p : Prevails(p, Setting(Places, f))
                 => LastWord(Setting(Places, f)) = p
    BY <2>1, <2>2, LastWordIs
  <2>4. form.updatedFormData[f]
          = IF Setting(Places, f) = {} THEN answers[f]
            ELSE At(LastWord(Setting(Places, f))).value
    BY <2>1, <2>3 DEF DataSoFar
  <2>5. f \in form.errors
          <=> /\ \E p \in Places : Says(p, "require_field", f)
              /\ ~Truthy(form.updatedFormData[f])
    BY <2>1 DEF DataSoFar, Missing
  <2> QED BY <2>2, <2>4, <2>5
<1>2. QED
  BY <1>1 DEF RejectedIffEmpty

\* Whatever the rules, evaluateForm reports exactly the required fields that
\* the answers, after the prevailing set_field, leave empty.
THEOREM RejectedAsRequired == Spec => []RejectedIffEmpty
<1>1. RulesInv => RejectedIffEmpty
  BY ErrorsTell
<1>2. QED
  BY <1>1, RulesInvariance, PTL

-----------------------------------------------------------------------------
(* Loose equality                                                          *)

\* A number and its text are alike to every operator that compares with a
\* number.
LEMMA AlikeToOperators ==
    ASSUME NEW c \in Condition, NEW n, c.value.kind = "number",
           c.operator \notin {"in", "not_in"},
           NEW v, v = [kind |-> "number", of |-> n],
           NEW w, w = [kind |-> "text", of |-> n]
    PROVE  Holds(c, v) <=> Holds(c, w)
<1>1. PICK x, m : /\ x = c.value /\ m = c.value.of
                  /\ x = [kind |-> "number", of |-> m]
  BY DEF Condition, Value, Given
<1>2. /\ ~Absent(v) /\ ~Absent(w) /\ ~Absent(x)
      /\ ~IsText(v) /\ ~IsText(x)
      /\ v.kind # "empty" /\ w.kind # "empty"
      /\ v.of = n /\ w.of = n /\ x.of = m
  BY <1>1 DEF Absent, IsText
<1>3. LooselyEqual(v, x) <=> LooselyEqual(w, x)
  BY <1>2 DEF LooselyEqual
<1>4. Comparable(v, x) /\ Comparable(w, x)
  BY <1>1 DEF Comparable
<1>5. Includes(v, x) <=> n = m
  BY <1>1 DEF Includes
<1>6. Includes(w, x) <=> n = m
  BY <1>1 DEF Includes
<1>7. QED
  BY <1>1, <1>2, <1>3, <1>4, <1>5, <1>6 DEF Holds

\* The types of the rules let AlikeToOperators speak of every condition.
LEMMA TextsTell == RulesInv => StoredAsText
<1>1. ASSUME rules \in RuleList, NEW r \in DOMAIN rules,
             NEW i \in DOMAIN rules[r].conditions
      PROVE  rules[r].conditions[i] \in Condition
  <2>1. rules \in Seq(Rule)
    BY <1>1, RulesAssumption
  <2>2. rules[r] \in Rule
    BY <2>1
  <2>3. rules[r].conditions \in Seq(Condition)
    BY <2>2 DEF Rule
  <2>4. QED
    BY <2>3
<1>2. ASSUME TypeOK PROVE StoredAsText
  <2>1. SUFFICES ASSUME NEW r \in DOMAIN rules,
                        NEW i \in DOMAIN rules[r].conditions,
                        NEW c, c = rules[r].conditions[i],
                        NEW n, n = answers[c.field].of,
                        c.operator \notin {"in", "not_in"},
                        c.value.kind = "number"
                 PROVE  Holds(c, [kind |-> "number", of |-> n])
                        = Holds(c, [kind |-> "text", of |-> n])
    BY DEF StoredAsText
  <2>2. c \in Condition
    BY <1>1, <1>2, <2>1 DEF TypeOK
  <2>3. Holds(c, [kind |-> "number", of |-> n])
        <=> Holds(c, [kind |-> "text", of |-> n])
    BY <2>1, <2>2, AlikeToOperators
  <2>4. /\ Holds(c, [kind |-> "number", of |-> n]) \in BOOLEAN
        /\ Holds(c, [kind |-> "text", of |-> n]) \in BOOLEAN
    BY DEF Holds
  <2>5. QED
    BY <2>3, <2>4
<1>3. QED
  BY <1>2 DEF RulesInv

\* Whatever the rules and the answers, a rule authored with a number treats
\* an answer stored as a number and its text alike (evaluateCondition).
THEOREM NumbersAndTextsAlike == Spec => []StoredAsText
<1>1. RulesInv => StoredAsText
  BY TextsTell
<1>2. QED
  BY <1>1, RulesInvariance, PTL

-----------------------------------------------------------------------------
(* The form builder                                                        *)

\* The field in position i of list has the orderIndex of that position, unless
\* it is gone.
Placed(list, i) ==
    fields[list[i]] = None \/ fields[list[i]].order = i - 1

\* An update in progress holds a typed entity of its field.
AuthorOK(handler) ==
    /\ handler \in Editor!Handler(FieldRow, FieldColumn)
    /\ handler.pc \in {"idle", "reload", "write", "insert"}
    /\ handler.pc = "idle" => handler = Editor!Idle
    /\ handler.pc # "idle" => handler.key \in FieldId /\ handler.entity \in FieldRow

\* A reorder that met no request is alone, and what it has written is placed.
DragOK(a) ==
    drag[a] # None /\ ~drag[a].spoilt =>
        /\ author[a] = Editor!Idle
        /\ \A b \in Author \ {a} : Unoccupied(b)
        /\ \A i \in DOMAIN drag[a].list \ drag[a].left : Placed(drag[a].list, i)

\* Since the last reorder was settled no slot was taken and every field is in
\* its place; the page rendered since shows stored fields in their order.
SettledOK ==
    settled # None =>
        /\ settled \in Asked
        /\ \A a \in Author : Unoccupied(a)
        /\ \A i \in DOMAIN settled : Placed(settled, i)
        /\ page # None =>
              /\ page \in Seq(FieldId)
              /\ \A i \in DOMAIN page : fields[page[i]] # None
              /\ InOrder(page)

\* The inductive invariant of the form builder.
FormInv ==
    /\ FormTypeOK
    /\ \A a \in Author : AuthorOK(author[a])
    /\ \A a \in Author : DragOK(a)
    /\ SettledOK

\* An idle slot, seen as an update.
LEMMA IdleAuthor ==
    Editor!Idle.pc = "idle" /\ AuthorOK(Editor!Idle)
<1>1. Editor!Idle = [pc |-> "idle", key |-> None, entity |-> None, cols |-> {}]
  BY DEF Editor!Idle
<1>2. Editor!Idle \in Editor!Handler(FieldRow, FieldColumn)
  BY <1>1 DEF Editor!Handler
<1>3. QED
  BY <1>1, <1>2 DEF AuthorOK

\* The parts of a reorder in progress.
LEMMA DragTyped ==
    ASSUME NEW d \in Drag
    PROVE  /\ d.list \in Asked /\ d.list \in Seq(FieldId)
           /\ IsInjective(d.list)
           /\ d.left \subseteq DOMAIN d.list
           /\ d.spoilt \in BOOLEAN
           /\ d = [list |-> d.list, left |-> d.left, spoilt |-> d.spoilt]
           /\ d # None
<1>1. PICK list \in Asked :
         d \in [list: {list}, left: SUBSET DOMAIN list, spoilt: BOOLEAN]
  BY DEF Drag
<1>2. d.list = list /\ d.left \subseteq DOMAIN list /\ d.spoilt \in BOOLEAN
  BY <1>1
<1>3. d = [list |-> d.list, left |-> d.left, spoilt |-> d.spoilt]
  BY <1>1
<1>4. d # None
  BY FieldRowAssumption
<1>5. QED
  BY <1>2, <1>3, <1>4, FormAssumption

\* Written and unwritten positions hold different fields.
LEMMA OwnPlace ==
    ASSUME NEW list, IsInjective(list), NEW i \in DOMAIN list,
           NEW j \in DOMAIN list, i # j
    PROVE  list[i] # list[j]
BY DEF IsInjective

\* What makes a reorder.
LEMMA DragMade ==
    ASSUME NEW list \in Asked, NEW left \in SUBSET DOMAIN list,
           NEW spoilt \in BOOLEAN
    PROVE  [list |-> list, left |-> left, spoilt |-> spoilt] \in Drag
<1>1. [list |-> list, left |-> left, spoilt |-> spoilt]
          \in [list: {list}, left: SUBSET DOMAIN list, spoilt: BOOLEAN]
  OBVIOUS
<1>2. QED
  BY <1>1 DEF Drag

\* A reorder that has met another request.
LEMMA SpoiltDrag ==
    ASSUME NEW d \in Drag, NEW x, x = [d EXCEPT !.spoilt = TRUE]
    PROVE  x \in Drag /\ x.spoilt
<1>1. PICK list, left, spoilt :
        /\ list = d.list /\ left = d.left
        /\ d = [list |-> list, left |-> left, spoilt |-> spoilt]
        /\ list \in Asked /\ left \subseteq DOMAIN list
  BY DragTyped
<1>2. x = [list |-> list, left |-> left, spoilt |-> TRUE]
  BY <1>1
<1>3. [list |-> list, left |-> left, spoilt |-> TRUE] \in Drag
  BY <1>1, DragMade
<1>4. x.spoilt
  BY <1>2
<1>5. QED
  BY <1>2, <1>3, <1>4

\* The reorders after another request has begun: all have met it.
LEMMA AllSpoilt ==
    ASSUME FormInv, NEW others,
           others = [b \in Author |-> IF drag[b] = None THEN None
                                      ELSE [drag[b] EXCEPT !.spoilt = TRUE]]
    PROVE  /\ others \in [Author -> Drag \cup {None}]
           /\ \A b \in Author : others[b] # None => others[b].spoilt
<1>1. ASSUME NEW b \in Author, drag[b] # None
      PROVE  others[b] \in Drag /\ others[b].spoilt
  <2>1. drag[b] \in Drag
    BY <1>1 DEF FormInv, FormTypeOK
  <2>2. others[b] = [drag[b] EXCEPT !.spoilt = TRUE]
    BY <1>1
  <2>3. QED
    BY <2>1, <2>2, SpoiltDrag
<1>2. \A b \in Author : /\ others[b] \in Drag \cup {None}
                        /\ others[b] # None => others[b].spoilt
  BY <1>1
<1>3. QED
  BY <1>2

\* An update, an insert or a delete begins, whatever it does to one row.
LEMMA BeginsKeeps ==
    ASSUME FormInv, NEW a \in Author, Begins(a),
           fields' \in [FieldId -> FieldRow \cup {None}],
           author' \in [Author -> Editor!Handler(FieldRow, FieldColumn)],
           \A b \in Author : AuthorOK(author'[b]),
           fieldKeys' \subseteq FieldId
    PROVE  FormInv'
<1>1. /\ settled' = None /\ page' = None
      /\ drag' = [b \in Author |-> IF drag[b] = None THEN None
                                   ELSE [drag[b] EXCEPT !.spoilt = TRUE]]
  BY DEF Begins
<1>2. /\ drag' \in [Author -> Drag \cup {None}]
      /\ \A b \in Author : drag'[b] # None => drag'[b].spoilt
  BY <1>1, AllSpoilt
<1>3. FormTypeOK'
  BY <1>1, <1>2 DEF FormTypeOK
<1>4. \A b \in Author : DragOK(b)'
  BY <1>2 DEF DragOK
<1>5. SettledOK'
  BY <1>1 DEF SettledOK
<1>6. QED
  BY <1>3, <1>4, <1>5 DEF FormInv

\* Creating, changing and removing a field.
LEMMA EditingKeeps ==
    ASSUME FormInv, NEW a \in Author,
           \/ \E e \in FormEvent, text \in Wording, index \in NewIndex :
                 CreateField(a, e, text, index)
           \/ \E f \in FieldId, row \in FieldRow : UpdateField(a, f, row)
           \/ \E f \in FieldId : RemoveField(a, f)
    PROVE  FormInv'
<1>1. /\ fields \in [FieldId -> FieldRow \cup {None}]
      /\ author \in [Author -> Editor!Handler(FieldRow, FieldColumn)]
      /\ fieldKeys \subseteq FieldId
      /\ \A b \in Author : AuthorOK(author[b])
  BY DEF FormInv, FormTypeOK
<1>2. ASSUME NEW e \in FormEvent, NEW text \in Wording, NEW index \in NewIndex,
             CreateField(a, e, text, index)
      PROVE  FormInv'
  <2>1. PICK row : row = [event |-> e, text |-> text, order |-> index]
    OBVIOUS
  <2>2. row \in FieldRow
    BY <2>1, FormAssumption DEF FieldRow
  <2>3. PICK f \in FieldId : /\ fields' = [fields EXCEPT ![f] = row]
                             /\ author' = author
                             /\ fieldKeys' = fieldKeys \cup {f}
    BY <1>2, <2>1 DEF CreateField, Editor!Insert
  <2>4. Begins(a)
    BY <1>2 DEF CreateField
  <2>5. QED
    BY <1>1, <2>2, <2>3, <2>4, BeginsKeeps
<1>3. ASSUME NEW f \in FieldId, NEW row \in FieldRow, UpdateField(a, f, row)
      PROVE  FormInv'
  <2>1. PICK x : x = [Editor!Idle EXCEPT !.pc = "reload", !.key = f,
                                         !.entity = row]
    OBVIOUS
  <2>2. x = [pc |-> "reload", key |-> f, entity |-> row, cols |-> {}]
    BY <2>1 DEF Editor!Idle
  <2>3. AuthorOK(x)
    BY <2>2 DEF AuthorOK, Editor!Handler
  <2>4. /\ author' = [author EXCEPT ![a] = x] /\ fields' = fields
        /\ fieldKeys' = fieldKeys /\ Begins(a)
    BY <1>3, <2>1 DEF UpdateField, Editor!Take
  <2>5. QED
    BY <1>1, <2>3, <2>4, BeginsKeeps DEF AuthorOK
<1>4. ASSUME NEW f \in FieldId, RemoveField(a, f)
      PROVE  FormInv'
  <2>1. /\ fields' = [fields EXCEPT ![f] = None] /\ author' = author
        /\ fieldKeys' = fieldKeys /\ Begins(a)
    BY <1>4 DEF RemoveField
  <2>2. QED
    BY <1>1, <2>1, BeginsKeeps
<1>5. QED
  BY <1>2, <1>3, <1>4

\* A reorder begins: alone if no slot is taken, and nothing is written yet.
LEMMA ReorderKeeps ==
    ASSUME FormInv, NEW a \in Author, NEW list \in Asked, Reorder(a, list)
    PROVE  FormInv'
<1>1. PICK met : met = \E c \in Author \ {a} : ~Unoccupied(c)
  OBVIOUS
<1>2. PICK d : d = [list |-> list, left |-> DOMAIN list, spoilt |-> met]
  OBVIOUS
<1>3. PICK others : others = [b \in Author |->
         IF drag[b] = None THEN None ELSE [drag[b] EXCEPT !.spoilt = TRUE]]
  OBVIOUS
<1>4. /\ settled' = None /\ page' = None /\ Unoccupied(a)
      /\ UNCHANGED <<fields, author, fieldKeys>>
      /\ drag' = [b \in Author |-> IF b = a THEN d ELSE others[b]]
  BY <1>1, <1>2, <1>3 DEF Reorder
<1>5. met \in BOOLEAN
  BY <1>1
<1>6. d \in Drag /\ d.list = list /\ d.left = DOMAIN list /\ d.spoilt = met
  BY <1>2, <1>5, DragMade
<1>7. /\ others \in [Author -> Drag \cup {None}]
      /\ \A b \in Author : others[b] # None => others[b].spoilt
  BY <1>3, AllSpoilt
<1>8. /\ drag' \in [Author -> Drag \cup {None}] /\ drag'[a] = d
      /\ \A b \in Author \ {a} : drag'[b] # None => drag'[b].spoilt
      /\ \A b \in Author \ {a} : drag'[b] = others[b]
  BY <1>4, <1>6, <1>7
<1>9. FormTypeOK'
  BY <1>4, <1>8 DEF FormInv, FormTypeOK
<1>10. ASSUME ~met
       PROVE  \A b \in Author \ {a} : Unoccupied(b)'
  BY <1>1, <1>3, <1>4, <1>8, <1>10 DEF Unoccupied
<1>11. \A b \in Author : DragOK(b)'
  <2>1. ASSUME NEW b \in Author, b # a
        PROVE  DragOK(b)'
    BY <1>8, <2>1 DEF DragOK
  <2>2. DragOK(a)'
    BY <1>4, <1>6, <1>8, <1>10 DEF DragOK, Unoccupied
  <2>3. QED
    BY <2>1, <2>2
<1>12. SettledOK'
  BY <1>4 DEF SettledOK
<1>13. QED
  BY <1>4, <1>9, <1>11, <1>12 DEF FormInv

\* A slot that is taken: nothing is settled, and no other reorder is clean.
LEMMA Taken ==
    ASSUME FormInv, NEW a \in Author, ~Unoccupied(a)
    PROVE  /\ settled = None
           /\ \A b \in Author \ {a} :
                 drag[b] # None => drag[b].spoilt
           /\ author[a] # Editor!Idle /\ drag[a] # None => drag[a].spoilt
<1>1. settled = None
  BY DEF FormInv, SettledOK
<1>2. ASSUME NEW b \in Author \ {a}, drag[b] # None
      PROVE  drag[b].spoilt
  BY <1>2 DEF FormInv, DragOK
<1>3. author[a] # Editor!Idle /\ drag[a] # None => drag[a].spoilt
  BY DEF FormInv, DragOK
<1>4. QED
  BY <1>1, <1>2, <1>3

\* One of the updates of a reorder writes its position.
LEMMA UpdateOrderKeeps ==
    ASSUME FormInv, NEW a \in Author, UpdateOrder(a)
    PROVE  FormInv'
<1>1. PICK d : d = drag[a]
  OBVIOUS
<1>2. d \in Drag /\ d # None
  BY <1>1 DEF UpdateOrder, FormInv, FormTypeOK
<1>3. PICK i, f, row :
        /\ i \in d.left /\ f = d.list[i]
        /\ row = IF fields[f] = None THEN None
                 ELSE [fields[f] EXCEPT !.order = i - 1]
        /\ fields' = [fields EXCEPT ![f] =
                         IF @ = None THEN None
                         ELSE [@ EXCEPT !.order = i - 1]]
        /\ drag' = [drag EXCEPT ![a].left = @ \ {i}]
        /\ UNCHANGED <<author, fieldKeys, settled, page>>
  BY <1>1 DEF UpdateOrder
<1>4. PICK list, left, spoilt :
        /\ list = d.list /\ left = d.left /\ spoilt = d.spoilt
        /\ d = [list |-> list, left |-> left, spoilt |-> spoilt]
        /\ list \in Asked /\ list \in Seq(FieldId) /\ IsInjective(list)
        /\ left \subseteq DOMAIN list /\ spoilt \in BOOLEAN
  BY <1>2, DragTyped
<1>5. i \in DOMAIN list /\ i \in Nat \ {0} /\ f \in FieldId /\ f = list[i]
  BY <1>3, <1>4
<1>6. PICK x : x = [d EXCEPT !.left = @ \ {i}]
  OBVIOUS
<1>7. /\ x = [list |-> list, left |-> left \ {i}, spoilt |-> spoilt]
      /\ x.list = list /\ x.left = left \ {i} /\ x.spoilt = spoilt
  BY <1>4, <1>6
<1>8. x \in Drag /\ x # None
  BY <1>4, <1>7, DragMade, DragTyped
<1>9. /\ drag \in [Author -> Drag \cup {None}]
      /\ fields \in [FieldId -> FieldRow \cup {None}]
  BY DEF FormInv, FormTypeOK
<1>10. drag' = [drag EXCEPT ![a] = x]
  BY <1>1, <1>3, <1>6, <1>9
<1>11. row \in FieldRow \cup {None}
       /\ (row # None => row.order = i - 1)
  <2>1. CASE fields[f] = None
    BY <1>3, <2>1
  <2>2. CASE fields[f] # None
    <3>1. PICK r : r = fields[f]
      OBVIOUS
    <3>2. r \in FieldRow /\ row = [r EXCEPT !.order = i - 1]
      BY <1>3, <1>5, <1>9, <2>2, <3>1
    <3>3. row = [event |-> r.event, text |-> r.text, order |-> i - 1]
      BY <3>2 DEF FieldRow
    <3>4. i - 1 \in Nat
      BY <1>5
    <3>5. QED
      BY <3>2, <3>3, <3>4 DEF FieldRow
  <2>3. QED
    BY <2>1, <2>2
<1>12. fields' = [fields EXCEPT ![f] = row]
  BY <1>3, <1>5, <1>9
<1>13. /\ fields' \in [FieldId -> FieldRow \cup {None}] /\ fields'[f] = row
       /\ \A g \in FieldId : g # f => fields'[g] = fields[g]
  BY <1>5, <1>9, <1>11, <1>12
<1>14. /\ drag' \in [Author -> Drag \cup {None}] /\ drag'[a] = x
       /\ \A b \in Author : b # a => drag'[b] = drag[b]
  BY <1>8, <1>9, <1>10
<1>15. FormTypeOK'
  BY <1>3, <1>13, <1>14 DEF FormInv, FormTypeOK
<1>16. ~Unoccupied(a)
  BY <1>1, <1>2 DEF Unoccupied
<1>17. settled' = None
  BY <1>3, <1>16, Taken
<1>18. ASSUME NEW b \in Author, b # a
       PROVE  DragOK(b)'
  BY <1>14, <1>16, <1>18, Taken DEF DragOK
<1>19. ASSUME ~spoilt
       PROVE  /\ author[a] = Editor!Idle
              /\ \A b \in Author \ {a} : Unoccupied(b)
              /\ \A j \in DOMAIN list \ left : Placed(list, j)
  BY <1>1, <1>2, <1>4, <1>19 DEF FormInv, DragOK
<1>20. ASSUME NEW j \in DOMAIN list \ (left \ {i}), ~spoilt
       PROVE  Placed(list, j)'
  <2>1. CASE j = i
    BY <1>5, <1>11, <1>13, <2>1 DEF Placed
  <2>2. CASE j # i
    <3>1. list[j] \in FieldId /\ list[j] # f
      BY <1>4, <1>5, <1>20, <2>2, OwnPlace
    <3>2. fields'[list[j]] = fields[list[j]] /\ Placed(list, j)
      BY <1>13, <1>19, <1>20, <2>2, <3>1
    <3>3. QED
      BY <3>2 DEF Placed
  <2>3. QED
    BY <2>1, <2>2
<1>21. DragOK(a)'
  <2>1. SUFFICES ASSUME ~spoilt
                 PROVE  /\ author'[a] = Editor!Idle
                        /\ \A b \in Author \ {a} : Unoccupied(b)'
                        /\ \A j \in DOMAIN list \ (left \ {i}) : Placed(list, j)'
    BY <1>7, <1>14 DEF DragOK
  <2>2. \A b \in Author \ {a} : Unoccupied(b)'
    BY <1>3, <1>14, <1>19, <2>1 DEF Unoccupied
  <2>3. QED
    BY <1>3, <1>19, <1>20, <2>1, <2>2
<1>22. SettledOK'
  BY <1>17 DEF SettledOK
<1>23. QED
  BY <1>3, <1>15, <1>18, <1>21, <1>22 DEF FormInv

\* A slot that was taken becomes idle, or its reorder is spoilt, or its update
\* goes on: what was settled is not at stake, and no reorder turns clean.
LEMMA TakenKeeps ==
    ASSUME FormInv, NEW a \in Author, ~Unoccupied(a),
           NEW x, NEW h, AuthorOK(h), x \in Drag \cup {None},
           x # None => x.spoilt,
           author' = [author EXCEPT ![a] = h], drag' = [drag EXCEPT ![a] = x],
           fields' \in [FieldId -> FieldRow \cup {None}],
           UNCHANGED <<fieldKeys, settled, page>>
    PROVE  FormInv'
<1>1. /\ author \in [Author -> Editor!Handler(FieldRow, FieldColumn)]
      /\ drag \in [Author -> Drag \cup {None}]
  BY DEF FormInv, FormTypeOK
<1>2. /\ \A b \in Author : author'[b] = IF b = a THEN h ELSE author[b]
      /\ \A b \in Author : drag'[b] = IF b = a THEN x ELSE drag[b]
      /\ author' \in [Author -> Editor!Handler(FieldRow, FieldColumn)]
      /\ drag' \in [Author -> Drag \cup {None}]
  BY <1>1 DEF AuthorOK
<1>3. FormTypeOK'
  BY <1>2 DEF FormInv, FormTypeOK
<1>4. \A b \in Author : AuthorOK(author'[b])
  BY <1>2 DEF FormInv
<1>5. \A b \in Author : DragOK(b)'
  BY <1>2, Taken DEF DragOK
<1>6. SettledOK'
  BY Taken DEF SettledOK
<1>7. QED
  BY <1>3, <1>4, <1>5, <1>6 DEF FormInv

\* An update that rejects leaves the reorder spoilt.
LEMMA OrderRejectedKeeps ==
    ASSUME FormInv, NEW a \in Author, OrderRejected(a)
    PROVE  FormInv'
<1>1. PICK d : d = drag[a]
  OBVIOUS
<1>2. d \in Drag /\ d # None
  BY <1>1 DEF OrderRejected, FormInv, FormTypeOK
<1>3. PICK list, left, spoilt :
        /\ list = d.list /\ left = d.left
        /\ d = [list |-> list, left |-> left, spoilt |-> spoilt]
        /\ list \in Asked /\ left \subseteq DOMAIN list
  BY <1>2, DragTyped
<1>4. PICK i : /\ i \in left
               /\ drag' = [drag EXCEPT ![a].left = @ \ {i}, ![a].spoilt = TRUE]
               /\ UNCHANGED <<fields, author, fieldKeys, settled, page>>
  BY <1>1, <1>3 DEF OrderRejected
<1>5. PICK x : x = [d EXCEPT !.left = @ \ {i}, !.spoilt = TRUE]
  OBVIOUS
<1>6. x = [list |-> list, left |-> left \ {i}, spoilt |-> TRUE]
  BY <1>3, <1>5
<1>7. [list |-> list, left |-> left \ {i}, spoilt |-> TRUE] \in Drag
  BY <1>3, DragMade
<1>8. x \in Drag /\ x.spoilt
  BY <1>6, <1>7
<1>9. /\ drag \in [Author -> Drag \cup {None}]
      /\ fields \in [FieldId -> FieldRow \cup {None}]
      /\ author \in [Author -> Editor!Handler(FieldRow, FieldColumn)]
      /\ AuthorOK(author[a])
  BY DEF FormInv, FormTypeOK
<1>10. drag' = [drag EXCEPT ![a] = x]
  BY <1>1, <1>4, <1>5, <1>9
<1>11. author' = [author EXCEPT ![a] = author[a]]
  BY <1>4, <1>9
<1>12. ~Unoccupied(a)
  BY <1>1, <1>2 DEF Unoccupied
<1>13. QED
  BY <1>4, <1>8, <1>9, <1>10, <1>11, <1>12, TakenKeeps

\* The answer: after a reorder that met nobody every field is in its place.
LEMMA ReorderedKeeps ==
    ASSUME FormInv, NEW a \in Author, Reordered(a)
    PROVE  FormInv'
<1>1. PICK d : d = drag[a]
  OBVIOUS
<1>2. d \in Drag /\ d # None
  BY <1>1 DEF Reordered, FormInv, FormTypeOK
<1>3. /\ d.left = {} /\ page' = None
      /\ settled' = IF d.spoilt THEN None ELSE d.list
      /\ drag' = [drag EXCEPT ![a] = None]
      /\ UNCHANGED <<fields, author, fieldKeys>>
  BY <1>1 DEF Reordered, AllWritten
<1>4. d.list \in Asked /\ d.spoilt \in BOOLEAN
  BY <1>2, DragTyped
<1>5. ~Unoccupied(a)
  BY <1>1, <1>2 DEF Unoccupied
<1>6. drag \in [Author -> Drag \cup {None}]
  BY DEF FormInv, FormTypeOK
<1>7. /\ drag' \in [Author -> Drag \cup {None}] /\ drag'[a] = None
      /\ \A b \in Author : b # a => drag'[b] = drag[b]
  BY <1>3, <1>6
<1>8. settled' \in Asked \cup {None}
  BY <1>3, <1>4
<1>9. FormTypeOK'
  BY <1>3, <1>7, <1>8 DEF FormInv, FormTypeOK
<1>10. \A b \in Author : DragOK(b)'
  BY <1>5, <1>7, Taken DEF DragOK
<1>11. ASSUME ~d.spoilt
       PROVE  /\ settled' = d.list
              /\ \A b \in Author : Unoccupied(b)'
              /\ \A i \in DOMAIN d.list : Placed(d.list, i)'
  <2>1. /\ author[a] = Editor!Idle
        /\ \A b \in Author \ {a} : Unoccupied(b)
        /\ \A i \in DOMAIN d.list \ d.left : Placed(d.list, i)
    BY <1>1, <1>2, <1>11 DEF FormInv, DragOK
  <2>2. \A i \in DOMAIN d.list : Placed(d.list, i)'
    BY <1>3, <2>1 DEF Placed
  <2>3. \A b \in Author : Unoccupied(b)'
    BY <1>3, <1>7, <2>1 DEF Unoccupied
  <2>4. QED
    BY <1>3, <1>11, <2>2, <2>3
<1>12. SettledOK'
  BY <1>3, <1>4, <1>11 DEF SettledOK
<1>13. QED
  BY <1>3, <1>9, <1>10, <1>12 DEF FormInv

\* The first round trip of update's save.
LEMMA ReloadFieldKeeps ==
    ASSUME FormInv, NEW a \in Author, ReloadField(a)
    PROVE  FormInv'
<1>1. PICK h, row, cols :
        /\ h = author[a] /\ row = fields[h.key]
        /\ cols = Editor!Changed(row, h.entity) \ Editor!Undefined(h.entity)
  OBVIOUS
<1>2. /\ h \in Editor!Handler(FieldRow, FieldColumn) /\ h.pc = "reload"
      /\ h.key \in FieldId /\ h.entity \in FieldRow
      /\ row \in FieldRow \cup {None}
  BY <1>1 DEF FormInv, FormTypeOK, AuthorOK, ReloadField, Editor!Reload
<1>3. PICK x : x = IF row # None THEN [h EXCEPT !.pc = "write", !.cols = cols]
                   ELSE [h EXCEPT !.pc = "insert"]
  OBVIOUS
<1>4. row # None => cols \subseteq FieldColumn
  BY <1>1, <1>2 DEF Editor!Changed, FieldRow, FieldColumn
<1>5. /\ x \in Editor!Handler(FieldRow, FieldColumn)
      /\ x.pc \in {"write", "insert"}
      /\ x.key = h.key /\ x.entity = h.entity
  <2>1. CASE row # None
    BY <1>2, <1>3, <1>4, <2>1 DEF Editor!Handler
  <2>2. CASE row = None
    BY <1>2, <1>3, <2>2 DEF Editor!Handler
  <2>3. QED
    BY <2>1, <2>2
<1>6. AuthorOK(x)
  BY <1>2, <1>5 DEF AuthorOK
<1>7. /\ drag \in [Author -> Drag \cup {None}]
      /\ fields \in [FieldId -> FieldRow \cup {None}]
      /\ author = [b \in Author |-> author[b]]
  BY DEF FormInv, FormTypeOK
<1>8. UNCHANGED <<fields, drag, fieldKeys, settled, page>>
  BY DEF ReloadField, Editor!Reload
<1>9. author' = [author EXCEPT ![a] = x]
  <2>1. CASE row # None
    BY <1>1, <1>3, <1>7, <2>1 DEF ReloadField, Editor!Reload
  <2>2. CASE row = None
    BY <1>1, <1>3, <1>7, <2>2 DEF ReloadField, Editor!Reload
  <2>3. QED
    BY <2>1, <2>2
<1>10. author[a] # Editor!Idle
  BY <1>1, <1>2, IdleAuthor
<1>11. PICK y : y = drag[a]
  OBVIOUS
<1>12. /\ y \in Drag \cup {None} /\ drag' = [drag EXCEPT ![a] = y]
       /\ ~Unoccupied(a)
  BY <1>7, <1>8, <1>10, <1>11 DEF Unoccupied
<1>13. y # None => y.spoilt
  BY <1>10, <1>11, <1>12, Taken
<1>14. QED
  BY <1>6, <1>7, <1>8, <1>9, <1>12, <1>13, TakenKeeps

\* The second round trip: every column comes from the entity or the row.
LEMMA WriteFieldKeeps ==
    ASSUME FormInv, NEW a \in Author, WriteField(a)
    PROVE  FormInv'
<1>1. PICK h, old, e, row :
        /\ h = author[a] /\ old = fields[h.key] /\ e = h.entity
        /\ row = Editor!Saved(h, old)
  OBVIOUS
<1>2. /\ h.pc \in {"write", "insert"}
      /\ h.key \in FieldId /\ e \in FieldRow
      /\ old \in FieldRow \cup {None}
  BY <1>1 DEF FormInv, FormTypeOK, AuthorOK, WriteField, Editor!Write
<1>3. /\ fields' = [fields EXCEPT ![h.key] = row]
      /\ author' = [author EXCEPT ![a] = Editor!Idle]
      /\ UNCHANGED <<drag, fieldKeys, settled, page>>
  BY <1>1 DEF WriteField, Editor!Write
<1>4. e = [event |-> e.event, text |-> e.text, order |-> e.order]
  BY <1>2 DEF FieldRow
<1>5. row \in FieldRow \cup {None}
  <2>1. CASE h.pc = "write" /\ old # None
    <3>1. row = [c \in DOMAIN old |-> IF c \in h.cols THEN e[c] ELSE old[c]]
      BY <1>1, <2>1 DEF Editor!Saved, Editor!Patch
    <3>2. old = [event |-> old.event, text |-> old.text, order |-> old.order]
          /\ old \in FieldRow
      BY <1>2, <2>1 DEF FieldRow
    <3>3. DOMAIN old = {"event", "text", "order"}
      BY <3>2
    <3>4. row = [event |-> row.event, text |-> row.text, order |-> row.order]
          /\ \A c \in {"event", "text", "order"} : row[c] \in {old[c], e[c]}
      BY <3>1, <3>3
    <3>5. /\ row.event \in {old.event, e.event}
          /\ row.text \in {old.text, e.text}
          /\ row.order \in {old.order, e.order}
      BY <3>4
    <3>6. QED
      BY <1>2, <3>2, <3>4, <3>5 DEF FieldRow
  <2>2. CASE h.pc = "insert" /\ old = None
    <3>1. row = [c \in DOMAIN e |-> e[c]]
      BY <1>1, <2>2 DEF Editor!Saved, Editor!Undefined
    <3>2. row = e
      BY <1>4, <3>1
    <3>3. QED
      BY <1>2, <3>2
  <2>3. CASE ~(h.pc = "write" /\ old # None) /\ ~(h.pc = "insert" /\ old = None)
    <3>1. row = old
      BY <1>1, <2>3 DEF Editor!Saved
    <3>2. QED
      BY <1>2, <3>1
  <2>4. QED
    BY <2>1, <2>2, <2>3
<1>6. /\ drag \in [Author -> Drag \cup {None}]
      /\ fields \in [FieldId -> FieldRow \cup {None}]
  BY DEF FormInv, FormTypeOK
<1>7. fields' \in [FieldId -> FieldRow \cup {None}]
  BY <1>2, <1>3, <1>5, <1>6
<1>8. author[a] # Editor!Idle
  BY <1>1, <1>2, IdleAuthor
<1>9. PICK y : y = drag[a]
  OBVIOUS
<1>10. /\ y \in Drag \cup {None} /\ drag' = [drag EXCEPT ![a] = y]
       /\ ~Unoccupied(a)
  BY <1>3, <1>6, <1>8, <1>9 DEF Unoccupied
<1>11. y # None => y.spoilt
  BY <1>8, <1>9, <1>10, Taken
<1>12. QED
  BY <1>3, <1>7, <1>10, <1>11, IdleAuthor, TakenKeeps

\* A failure: the slot is idle, and what a reorder has written stays.
LEMMA FormFailsKeeps ==
    ASSUME FormInv, NEW a \in Author, FormFails(a)
    PROVE  FormInv'
<1>1. /\ ~Unoccupied(a)
      /\ author' = [author EXCEPT ![a] = Editor!Idle]
      /\ drag' = [drag EXCEPT ![a] = None]
      /\ UNCHANGED <<fields, fieldKeys, settled, page>>
  BY DEF FormFails
<1>2. fields \in [FieldId -> FieldRow \cup {None}]
  BY DEF FormInv, FormTypeOK
<1>3. QED
  BY <1>1, <1>2, IdleAuthor, TakenKeeps

\* The form is rendered: stored fields, in their order.
LEMMA FindByEventKeeps ==
    ASSUME FormInv, NEW e \in FormEvent, FindByEvent(e)
    PROVE  FormInv'
<1>1. PICK S : S = FieldsOf(e)
  OBVIOUS
<1>2. PICK list \in SetToSeqs(S) :
         /\ InOrder(list) /\ page' = list
         /\ UNCHANGED <<fields, author, drag, fieldKeys, settled>>
  BY <1>1 DEF FindByEvent
<1>3. S \subseteq FieldId /\ \A f \in S : fields[f] # None
  BY <1>1 DEF FieldsOf, Editor!Stored
<1>4. IsFiniteSet(S) /\ Cardinality(S) \in Nat
  BY <1>3, FormAssumption, FS_Subset, FS_CardinalityType
<1>5. list \in [1..Cardinality(S) -> S]
  BY <1>2 DEF SetToSeqs
<1>6. /\ page' \in Seq(FieldId)
      /\ \A i \in DOMAIN page' : page'[i] \in S
  BY <1>2, <1>3, <1>4, <1>5
<1>7. FormTypeOK'
  BY <1>2, <1>6 DEF FormInv, FormTypeOK
<1>8. InOrder(list)'
  BY <1>2 DEF InOrder
<1>9. SettledOK'
  BY <1>2, <1>3, <1>6, <1>8 DEF FormInv, SettledOK, Unoccupied, Placed, InOrder
<1>10. QED
  BY <1>2, <1>7, <1>9 DEF FormInv, DragOK, Unoccupied, Placed

\* Every step keeps the invariant.
LEMMA FormStep ==
    ASSUME FormInv, [FormNext]_formVars
    PROVE  FormInv'
<1>1. ASSUME NEW a \in Author, NEW f \in Editor!Stored,
             \/ \E text \in Wording :
                   UpdateField(a, f, [fields[f] EXCEPT !.text = text])
             \/ \E index \in NewIndex :
                   UpdateField(a, f, [fields[f] EXCEPT !.order = index])
             \/ \E e \in FormEvent :
                   UpdateField(a, f, [fields[f] EXCEPT !.event = e])
      PROVE  FormInv'
  <2>1. PICK r : r = fields[f]
    OBVIOUS
  <2>2. f \in FieldId /\ r \in FieldRow
    BY <2>1 DEF Editor!Stored, FormInv, FormTypeOK
  <2>3. /\ \A text \in Wording : [r EXCEPT !.text = text] \in FieldRow
        /\ \A index \in NewIndex : [r EXCEPT !.order = index] \in FieldRow
        /\ \A e \in FormEvent : [r EXCEPT !.event = e] \in FieldRow
    BY <2>2, FormAssumption DEF FieldRow
  <2>4. \E row \in FieldRow : UpdateField(a, f, row)
    BY <1>1, <2>1, <2>3
  <2>5. QED
    BY <2>2, <2>4, EditingKeeps
<1>2. ASSUME NEW a \in Author,
             \/ \E e \in FormEvent, text \in Wording, index \in NewIndex :
                   CreateField(a, e, text, index)
             \/ \E f \in FieldId : RemoveField(a, f)
      PROVE  FormInv'
  BY <1>2, EditingKeeps
<1>3. ASSUME NEW a \in Author,
             \/ \E list \in Asked : Reorder(a, list)
             \/ UpdateOrder(a) \/ OrderRejected(a) \/ Reordered(a)
             \/ ReloadField(a) \/ WriteField(a) \/ FormFails(a)
      PROVE  FormInv'
  BY <1>3, ReorderKeeps, UpdateOrderKeeps, OrderRejectedKeeps,
     ReorderedKeeps, ReloadFieldKeeps, WriteFieldKeeps, FormFailsKeeps
<1>4. ASSUME NEW e \in FormEvent, FindByEvent(e)
      PROVE  FormInv'
  BY <1>4, FindByEventKeeps
<1>5. CASE UNCHANGED formVars
  BY <1>5 DEF formVars, FormInv, FormTypeOK, DragOK, SettledOK, Unoccupied,
              Placed, InOrder
<1>6. QED
  BY <1>1, <1>2, <1>3, <1>4, <1>5 DEF FormNext

\* There are no fields and no requests at first.
LEMMA FormStart ==
    ASSUME FormInit
    PROVE  FormInv
<1>1. /\ fields = [f \in FieldId |-> None]
      /\ author = [a \in Author |-> Editor!Idle]
      /\ drag = [a \in Author |-> None]
      /\ fieldKeys = {} /\ settled = None /\ page = None
  BY DEF FormInit
<1>2. FormTypeOK
  BY <1>1, IdleAuthor DEF FormTypeOK, AuthorOK
<1>3. QED
  BY <1>1, <1>2, IdleAuthor DEF FormInv, DragOK, SettledOK

\* Rendered in order and settled in its places: the orderIndexes are the
\* positions of the list, which repeats no field.
LEMMA FormTells ==
    ASSUME FormInv
    PROVE  RenderedAsReordered
<1>1. SUFFICES ASSUME settled # None, page # None,
                      NEW i \in DOMAIN page, NEW j \in DOMAIN page,
                      NEW k \in DOMAIN settled, NEW l \in DOMAIN settled,
                      page[i] = settled[k], page[j] = settled[l], k < l
               PROVE  i < j
  BY DEF RenderedAsReordered
<1>2. /\ settled \in Seq(FieldId) /\ IsInjective(settled)
      /\ page \in Seq(FieldId) /\ InOrder(page)
      /\ Placed(settled, k) /\ Placed(settled, l)
      /\ fields[page[i]] # None /\ fields[page[j]] # None
  BY <1>1, FormAssumption DEF FormInv, SettledOK
<1>3. i \in Nat /\ j \in Nat /\ k \in Nat /\ l \in Nat
  BY <1>1, <1>2
<1>4. fields[page[i]].order = k - 1 /\ fields[page[j]].order = l - 1
  BY <1>1, <1>2 DEF Placed
<1>5. i # j
  BY <1>1, <1>3, <1>4
<1>6. ~(j < i)
  BY <1>1, <1>2, <1>3, <1>4 DEF InOrder
<1>7. QED
  BY <1>3, <1>5, <1>6

\* For any fields, authors and lists: what a reorder that met no other request
\* asked for is the order of every later rendering until the form changes,
\* in whatever order its parallel updates run (form-builder.service.ts).
THEOREM OrderIsTheListsOrder == FormSpec => []RenderedAsReordered
<1>1. FormInv => RenderedAsReordered
  BY FormTells
<1>2. QED
  BY FormStart, FormStep, <1>1, PTL DEF FormSpec

-----------------------------------------------------------------------------
(* The event page                                                          *)

\* A list of some of the first n sections, none twice.
Listed(list, n) ==
    list \in Seq({AllSections[j] : j \in 1..n}) /\ IsInjective(list)

\* The next section may go to the end of such a list, or be left out.
LEMMA NextSection ==
    ASSUME NEW n \in 0..7, NEW list, Listed(list, n)
    PROVE  Listed(list, n + 1) /\ Listed(Append(list, AllSections[n + 1]), n + 1)
<1>1. PICK S, T : /\ S = {AllSections[j] : j \in 1..n}
                  /\ T = {AllSections[j] : j \in 1..(n + 1)}
  OBVIOUS
<1>2. S \subseteq T /\ AllSections[n + 1] \in T
  BY <1>1
<1>3. AllSections[n + 1] \notin S
  BY <1>1 DEF AllSections
<1>4. list \in Seq(S) /\ \A i, j \in DOMAIN list : list[i] = list[j] => i = j
  BY <1>1 DEF Listed, IsInjective
<1>5. PICK x, l : x = AllSections[n + 1] /\ l = Append(list, x)
  OBVIOUS
<1>6. /\ l \in Seq(T) /\ Len(list) \in Nat
      /\ DOMAIN l = 1..(Len(list) + 1) /\ DOMAIN list = 1..Len(list)
      /\ l[Len(list) + 1] = x
      /\ \A i \in 1..Len(list) : l[i] = list[i] /\ list[i] \in S
  BY <1>2, <1>4, <1>5
<1>7. ASSUME NEW i \in DOMAIN l, NEW j \in DOMAIN l, l[i] = l[j]
      PROVE  i = j
  BY <1>3, <1>4, <1>5, <1>6, <1>7
<1>8. list \in Seq(T)
  BY <1>2, <1>4
<1>9. QED
  BY <1>1, <1>4, <1>5, <1>6, <1>7, <1>8 DEF Listed, IsInjective

\* What the customiser lists are sections, none twice.
LEMMA SectionsListed ==
    ASSUME NEW ticked
    PROVE  /\ EnabledSections(ticked) \in Seq(ToSet(AllSections))
           /\ IsInjective(EnabledSections(ticked))
<1> DEFINE more(list, i) == IF AllSections[i] \in ticked
                            THEN Append(list, AllSections[i]) ELSE list
           step(f) == [i \in 0..Len(AllSections) |->
                          IF i = 0 THEN <<>>
                          ELSE IF AllSections[i] \in ticked
                          THEN Append(f[i - 1], AllSections[i])
                          ELSE f[i - 1]]
           among == CHOOSE f : f = step(f)
<1>1. Len(AllSections) = 8
  BY DEF AllSections
<1> DEFINE s1 == more(<<>>, 1)
           s2 == more(s1, 2)
           s3 == more(s2, 3)
           s4 == more(s3, 4)
           s5 == more(s4, 5)
           s6 == more(s5, 6)
           s7 == more(s6, 7)
           s8 == more(s7, 8)
<1>2. /\ s1 = more(<<>>, 1) /\ s2 = more(s1, 2) /\ s3 = more(s2, 3)
      /\ s4 = more(s3, 4) /\ s5 = more(s4, 5) /\ s6 = more(s5, 6)
      /\ s7 = more(s6, 7) /\ s8 = more(s7, 8)
  OBVIOUS
<1> HIDE DEF s1, s2, s3, s4, s5, s6, s7, s8
<1>3. PICK f : f = [i \in 0..8 |->
            CASE i = 0 -> <<>> [] i = 1 -> s1 [] i = 2 -> s2 [] i = 3 -> s3
              [] i = 4 -> s4 [] i = 5 -> s5 [] i = 6 -> s6 [] i = 7 -> s7
              [] i = 8 -> s8]
  OBVIOUS
<1>4. /\ f[0] = <<>> /\ f[1] = s1 /\ f[2] = s2 /\ f[3] = s3 /\ f[4] = s4
      /\ f[5] = s5 /\ f[6] = s6 /\ f[7] = s7 /\ f[8] = s8
  BY <1>3
<1> HIDE DEF more
<1>5. ASSUME NEW i \in 0..8
      PROVE  f[i] = IF i = 0 THEN <<>> ELSE more(f[i - 1], i)
  <2>1. CASE i \in {0, 1, 2}
    BY <1>2, <1>4, <2>1
  <2>2. CASE i \in {3, 4, 5}
    BY <1>2, <1>4, <2>2
  <2>3. CASE i \in {6, 7, 8}
    BY <1>2, <1>4, <2>3
  <2>4. QED
    BY <2>1, <2>2, <2>3
<1>6. f = step(f)
  BY <1>1, <1>3, <1>5 DEF more
<1>7. PICK g : g = among /\ g = step(g)
  BY <1>6
<1> HIDE DEF among
<1>8. among[0] = <<>> /\ \A i \in 1..8 : among[i] = more(among[i - 1], i)
  <2>1. \A i \in 0..8 : step(g)[i] = IF i = 0 THEN <<>> ELSE more(g[i - 1], i)
    BY <1>1 DEF more
  <2>2. \A i \in 0..8 : g[i] = IF i = 0 THEN <<>> ELSE more(g[i - 1], i)
    BY <1>7, <2>1
  <2>3. QED
    BY <1>7, <2>2
<1>9. Listed(among[0], 0)
  BY <1>8 DEF Listed, IsInjective
<1>10. ASSUME NEW i \in 1..8, Listed(among[i - 1], i - 1)
       PROVE  Listed(among[i], i)
  <2>1. i - 1 \in 0..7 /\ (i - 1) + 1 = i
    OBVIOUS
  <2>2. QED
    BY <1>8, <1>10, <2>1, NextSection DEF more
<1>11. Listed(among[1], 1) /\ Listed(among[2], 2) /\ Listed(among[3], 3)
  BY <1>9, <1>10
<1>12. Listed(among[4], 4) /\ Listed(among[5], 5) /\ Listed(among[6], 6)
  BY <1>10, <1>11
<1>13. Listed(among[8], 8)
  BY <1>10, <1>12
<1>14. EnabledSections(ticked) = among[8]
  BY <1>1 DEF EnabledSections, among
<1>15. {AllSections[j] : j \in 1..8} = ToSet(AllSections)
  BY <1>1 DEF ToSet, AllSections
<1>16. QED
  BY <1>13, <1>14, <1>15 DEF Listed

\* The templates' own lists of sections are not empty and repeat nothing.
LEMMA DefaultsListed ==
    ASSUME NEW template \in TemplateId
    PROVE  /\ DefaultSections(template) \in Seq(ToSet(AllSections))
           /\ DefaultSections(template) # <<>>
           /\ IsInjective(DefaultSections(template))
<1>1. PICK S : S = ToSet(AllSections)
  OBVIOUS
<1>2. S = {"hero", "about", "schedule", "speakers", "sponsors", "register",
           "location", "faq"}
  BY <1>1 DEF ToSet, AllSections
<1>3. CASE template = "tech-conf"
  BY <1>1, <1>2, <1>3 DEF DefaultSections, IsInjective
<1>4. CASE template = "workshop"
  BY <1>1, <1>2, <1>4 DEF DefaultSections, IsInjective
<1>5. CASE template = "meetup"
  BY <1>1, <1>2, <1>5 DEF DefaultSections, IsInjective
<1>6. CASE template = "hackathon"
  BY <1>1, <1>2, <1>6 DEF DefaultSections, IsInjective
<1>7. QED
  BY <1>3, <1>4, <1>5, <1>6 DEF TemplateId

\* A page of event e, in the table or in memory, that makes nothing up: its
\* template was picked, its publication happened, its sections repeat nothing.
PageOK(row, e, chosen, live) ==
    /\ row \in PageRow
    /\ row.templateId \in chosen[e] \cup {None}
    /\ row.status \in {"published", "ongoing", "completed"} => e \in live
    /\ IsInjective(row.configuration.enabledSections)

\* An edit in progress holds such a page.
EditOK(handler, chosen, live) ==
    /\ handler \in Design!Handler(PageRow, PageColumn)
    /\ handler.pc \in {"idle", "reload", "write", "insert"}
    /\ handler.pc = "idle" => handler = Design!Idle
    /\ handler.pc # "idle" =>
          /\ handler.key \in PageEvent
          /\ PageOK(handler.entity, handler.key, chosen, live)

\* The last edit of event e, while it and no other is in progress, and after.
AsAsked(row, edit) ==
    /\ row.templateId = edit.templateId
    /\ row.configuration = edit.configuration

Undisturbed(e) ==
    /\ \A o, p \in Organizer : organizer[o].key = e /\ organizer[p].key = e
                                  => o = p
    /\ \A o \in Organizer : organizer[o].key = e =>
          /\ AsAsked(organizer[o].entity, lastEdit[e])
          /\ organizer[o].pc = "write" =>
                /\ pages[e] # None
                /\ organizer[o].cols = Design!Changed(pages[e], organizer[o].entity)
          /\ organizer[o].pc = "insert" => pages[e] = None
    /\ (\A o \in Organizer : organizer[o].key # e)
          => AsAsked(pages[e], lastEdit[e])

\* What a visitor has just seen is what the table says.
VisitOK ==
    visit # None =>
        /\ visit.event \in PageEvent /\ visit.session \in BOOLEAN
        /\ visit.says = "Page" =>
              LET template == GetTemplate(pages[visit.event].templateId) IN
              /\ template # None
              /\ visit.session \/ FindOnePublic(visit.event)
              /\ visit.shown = Rendering(template,
                                         pages[visit.event].configuration)

\* The inductive invariant of the event page.
PageInv ==
    /\ PageTypeOK
    /\ \A e \in PageEvent : PageOK(pages[e], e, picked, wentLive)
    /\ \A o \in Organizer : EditOK(organizer[o], picked, wentLive)
    /\ \A e \in PageEvent : lastEdit[e] # None => Undisturbed(e)
    /\ VisitOK

\* Every template and every ticked set makes a configuration.
LEMMA Configurations ==
    /\ NoConfiguration \in Configuration
    /\ IsInjective(NoConfiguration.enabledSections)
    /\ \A tagline \in TemplateId \cup OwnTagline \cup {None} :
       \A list \in Seq(ToSet(AllSections)) :
       \A colours \in SUBSET Colour :
          [tagline |-> tagline, enabledSections |-> list,
           paletteOverride |-> colours] \in Configuration
BY DEF NoConfiguration, Configuration, IsInjective

\* Templates are picked and events published for good.
LEMMA PagesStayOK ==
    ASSUME NEW chosen, NEW live, NEW chosen2, NEW live2, live \subseteq live2,
           \A e \in PageEvent : chosen[e] \subseteq chosen2[e]
    PROVE  /\ \A row : \A e \in PageEvent :
                 PageOK(row, e, chosen, live) => PageOK(row, e, chosen2, live2)
           /\ \A handler :
                 EditOK(handler, chosen, live) => EditOK(handler, chosen2, live2)
<1>1. ASSUME NEW row, NEW e \in PageEvent, PageOK(row, e, chosen, live)
      PROVE  PageOK(row, e, chosen2, live2)
  BY <1>1 DEF PageOK
<1>2. ASSUME NEW handler, EditOK(handler, chosen, live)
      PROVE  EditOK(handler, chosen2, live2)
  BY <1>1, <1>2 DEF EditOK
<1>3. QED
  BY <1>1, <1>2

\* An idle slot is at no event.
LEMMA IdleEdit ==
    /\ Design!Idle \in Design!Handler(PageRow, PageColumn)
    /\ Design!Idle.key \notin PageEvent /\ Design!Idle.pc = "idle"
    /\ \A chosen, live : EditOK(Design!Idle, chosen, live)
<1>1. /\ Design!Idle \in Design!Handler(PageRow, PageColumn)
      /\ Design!Idle.key \notin PageEvent /\ Design!Idle.pc = "idle"
  BY PageAssumption DEF Design!Idle, Design!Handler
<1>2. QED
  BY <1>1 DEF EditOK

\* A request has loaded an event and will save entity.
LEMMA EditsKeep ==
    ASSUME PageInv, NEW o \in Organizer, NEW e \in PageEvent, NEW entity,
           Edits(o, e, entity), PageOK(entity, e, picked', wentLive'),
           picked' \in [PageEvent -> SUBSET TemplateId],
           \A d \in PageEvent : picked[d] \subseteq picked'[d],
           wentLive \subseteq wentLive', wentLive' \subseteq PageEvent
    PROVE  PageInv'
<1>1. PICK x : x = [Design!Idle EXCEPT !.pc = "reload", !.key = e,
                                       !.entity = entity]
  OBVIOUS
<1>2. /\ organizer[o] = Design!Idle /\ organizer' = [organizer EXCEPT ![o] = x]
      /\ pages' = pages /\ visit' = None
  BY <1>1 DEF Edits, Design!Take
<1>3. PICK edit : edit = [templateId |-> entity.templateId,
                          configuration |-> entity.configuration]
  OBVIOUS
<1>4. lastEdit' = [lastEdit EXCEPT ![e] =
                      IF \E p \in Organizer : organizer[p].key = e THEN None
                      ELSE edit]
  BY <1>3 DEF Edits
<1>5. entity \in PageRow
  BY DEF PageOK
<1>6. x = [pc |-> "reload", key |-> e, entity |-> entity, cols |-> {}]
  BY <1>1 DEF Design!Idle
<1>7. /\ x \in Design!Handler(PageRow, PageColumn) /\ x.pc = "reload"
      /\ x.key = e /\ x.entity = entity
  BY <1>5, <1>6 DEF Design!Handler
<1>8. EditOK(x, picked', wentLive')
  BY <1>7 DEF EditOK
<1>9. /\ \A p \in Organizer : organizer'[p] = IF p = o THEN x ELSE organizer[p]
      /\ organizer' \in [Organizer -> Design!Handler(PageRow, PageColumn)]
  BY <1>2, <1>7 DEF PageInv, PageTypeOK
<1>10. edit \in [templateId: TemplateId \cup {None},
                 configuration: Configuration]
  BY <1>3, <1>5 DEF PageRow
<1>11. /\ \A d \in PageEvent : d # e => lastEdit'[d] = lastEdit[d]
       /\ lastEdit'[e] # None => /\ lastEdit'[e] = edit
                                 /\ \A p \in Organizer : organizer[p].key # e
  BY <1>4 DEF PageInv, PageTypeOK
<1>12. PageTypeOK'
  BY <1>2, <1>4, <1>9, <1>10 DEF PageInv, PageTypeOK
<1>13. \A d \in PageEvent : PageOK(pages[d], d, picked', wentLive')
  BY PagesStayOK DEF PageInv
<1>14. \A p \in Organizer : EditOK(organizer'[p], picked', wentLive')
  BY <1>8, <1>9, PagesStayOK DEF PageInv
<1>15. ASSUME NEW d \in PageEvent, lastEdit'[d] # None
       PROVE  Undisturbed(d)'
  <2>1. CASE d = e
    <3>1. /\ lastEdit'[d] = edit
          /\ \A p \in Organizer : organizer'[p].key = d => p = o
      BY <1>9, <1>11, <1>15, <2>1
    <3>2. AsAsked(x.entity, edit)
      BY <1>3, <1>7 DEF AsAsked
    <3>3. organizer'[o] = x
      BY <1>9
    <3>4. QED
      BY <1>7, <2>1, <3>1, <3>2, <3>3 DEF Undisturbed, AsAsked
  <2>2. CASE d # e
    <3>1. lastEdit'[d] = lastEdit[d] /\ Undisturbed(d)
      BY <1>11, <1>15, <2>2 DEF PageInv
    <3>2. organizer[o].key # d /\ x.key # d
      BY <1>2, <1>7, <2>2, IdleEdit
    <3>3. \A p \in Organizer : organizer'[p].key = d \/ organizer[p].key = d
              => organizer'[p] = organizer[p]
      BY <1>9, <3>2
    <3>4. QED
      BY <1>2, <3>1, <3>2, <3>3 DEF Undisturbed, AsAsked
  <2>3. QED
    BY <2>1, <2>2
<1>16. VisitOK'
  BY <1>2 DEF VisitOK
<1>17. QED
  BY <1>2, <1>12, <1>13, <1>14, <1>15, <1>16 DEF PageInv

\* Every edit that an organiser asks for.
LEMMA OrganizersEdit ==
    ASSUME PageInv, NEW o \in Organizer, NEW e \in PageEvent,
           \/ \E template \in Offered : Apply(o, e, template)
           \/ \E tagline \in OwnTagline \cup {None}, ticked \in Ticked,
                 colours \in Recoloured : Customize(o, e, tagline, ticked, colours)
           \/ Publish(o, e)
           \/ Cancel(o, e)
    PROVE  PageInv'
<1>1. PICK row : row = pages[e]
  OBVIOUS
<1>2. /\ PageOK(row, e, picked, wentLive) /\ row \in PageRow
      /\ picked \in [PageEvent -> SUBSET TemplateId] /\ wentLive \subseteq PageEvent
  BY <1>1 DEF PageInv, PageTypeOK, PageOK
<1>3. ASSUME NEW template \in Offered, Apply(o, e, template)
      PROVE  PageInv'
  <2>1. PICK c : c = [tagline |-> template,
                      enabledSections |-> DefaultSections(template),
                      paletteOverride |-> {}]
    OBVIOUS
  <2>2. PICK x : x = [row EXCEPT !.templateId = template, !.configuration = c]
    OBVIOUS
  <2>3. template \in TemplateId
    BY PageAssumption
  <2>4. c \in Configuration /\ IsInjective(c.enabledSections)
    BY <2>1, <2>3, Configurations, DefaultsListed
  <2>5. /\ x \in PageRow /\ x.templateId = template /\ x.status = row.status
        /\ x.configuration = c
    BY <1>2, <2>2, <2>3, <2>4 DEF PageRow
  <2>6. /\ Edits(o, e, x) /\ picked' = [picked EXCEPT ![e] = @ \cup {template}]
        /\ wentLive' = wentLive
    BY <1>1, <1>3, <2>1, <2>2 DEF Apply
  <2>7. /\ picked' \in [PageEvent -> SUBSET TemplateId]
        /\ \A d \in PageEvent : picked[d] \subseteq picked'[d]
        /\ template \in picked'[e]
    BY <1>2, <2>3, <2>6
  <2>8. PageOK(x, e, picked', wentLive')
    BY <1>2, <2>4, <2>5, <2>6, <2>7 DEF PageOK
  <2>9. QED
    BY <1>2, <2>6, <2>7, <2>8, EditsKeep
<1>4. ASSUME NEW tagline \in OwnTagline \cup {None}, NEW ticked \in Ticked,
             NEW colours \in Recoloured,
             Customize(o, e, tagline, ticked, colours)
      PROVE  PageInv'
  <2>1. PICK c : c = [tagline |-> tagline,
                      enabledSections |-> EnabledSections(ticked),
                      paletteOverride |-> colours]
    OBVIOUS
  <2>2. PICK x : x = [row EXCEPT !.configuration = c]
    OBVIOUS
  <2>3. colours \in SUBSET Colour
    BY PageAssumption DEF Colour
  <2>4. c \in Configuration /\ IsInjective(c.enabledSections)
    BY <2>1, <2>3, Configurations, SectionsListed
  <2>5. /\ x \in PageRow /\ x.templateId = row.templateId
        /\ x.status = row.status /\ x.configuration = c
    BY <1>2, <2>2, <2>4 DEF PageRow
  <2>6. Edits(o, e, x) /\ picked' = picked /\ wentLive' = wentLive
    BY <1>1, <1>4, <2>1, <2>2 DEF Customize
  <2>7. PageOK(x, e, picked', wentLive')
    BY <1>2, <2>4, <2>5, <2>6 DEF PageOK
  <2>8. QED
    BY <1>2, <2>6, <2>7, EditsKeep
<1>5. ASSUME Publish(o, e)
      PROVE  PageInv'
  <2>1. PICK x : x = [row EXCEPT !.status = "published"]
    OBVIOUS
  <2>2. /\ x \in PageRow /\ x.templateId = row.templateId
        /\ x.configuration = row.configuration
    BY <1>2, <2>1 DEF PageRow, PageStatus
  <2>3. /\ Edits(o, e, x) /\ picked' = picked
        /\ wentLive' = wentLive \cup {e}
    BY <1>1, <1>5, <2>1 DEF Publish
  <2>4. PageOK(x, e, picked', wentLive')
    BY <1>2, <2>2, <2>3 DEF PageOK
  <2>5. QED
    BY <1>2, <2>3, <2>4, EditsKeep
<1>6. ASSUME Cancel(o, e)
      PROVE  PageInv'
  <2>1. PICK x : x = [row EXCEPT !.status = "cancelled"]
    OBVIOUS
  <2>2. /\ x \in PageRow /\ x.templateId = row.templateId
        /\ x.configuration = row.configuration /\ x.status = "cancelled"
    BY <1>2, <2>1 DEF PageRow, PageStatus
  <2>3. Edits(o, e, x) /\ picked' = picked /\ wentLive' = wentLive
    BY <1>1, <1>6, <2>1 DEF Cancel
  <2>4. PageOK(x, e, picked', wentLive')
    BY <1>2, <2>2, <2>3 DEF PageOK
  <2>5. QED
    BY <1>2, <2>3, <2>4, EditsKeep
<1>7. QED
  BY <1>3, <1>4, <1>5, <1>6

\* A step of the edit in slot o at its event k that changes no other row.
LEMMA EditStep ==
    ASSUME PageInv, NEW o \in Organizer, NEW x, NEW k \in PageEvent, NEW row,
           k = organizer[o].key, organizer' = [organizer EXCEPT ![o] = x],
           EditOK(x, picked, wentLive), x.key = k \/ x = Design!Idle,
           pages' = [pages EXCEPT ![k] = row], PageOK(row, k, picked, wentLive),
           visit' = None, UNCHANGED <<picked, wentLive, lastEdit>>,
           lastEdit[k] # None => Undisturbed(k)'
    PROVE  PageInv'
<1>1. /\ \A p \in Organizer : organizer'[p] = IF p = o THEN x ELSE organizer[p]
      /\ organizer' \in [Organizer -> Design!Handler(PageRow, PageColumn)]
  BY DEF PageInv, PageTypeOK, EditOK
<1>2. /\ \A d \in PageEvent : pages'[d] = IF d = k THEN row ELSE pages[d]
      /\ pages' \in [PageEvent -> PageRow]
  BY DEF PageInv, PageTypeOK, PageOK
<1>3. PageTypeOK'
  BY <1>1, <1>2 DEF PageInv, PageTypeOK
<1>4. \A d \in PageEvent : PageOK(pages'[d], d, picked', wentLive')
  BY <1>2 DEF PageInv
<1>5. \A p \in Organizer : EditOK(organizer'[p], picked', wentLive')
  BY <1>1 DEF PageInv
<1>6. ASSUME NEW d \in PageEvent, lastEdit'[d] # None
      PROVE  Undisturbed(d)'
  <2>1. CASE d = k
    BY <1>6, <2>1
  <2>2. CASE d # k
    <3>1. lastEdit'[d] = lastEdit[d] /\ Undisturbed(d) /\ pages'[d] = pages[d]
      BY <1>2, <1>6, <2>2 DEF PageInv
    <3>2. organizer[o].key # d /\ x.key # d
      BY <2>2, IdleEdit
    <3>3. \A p \in Organizer : organizer'[p].key = d \/ organizer[p].key = d
              => organizer'[p] = organizer[p]
      BY <1>1, <3>2
    <3>4. QED
      BY <3>1, <3>2, <3>3 DEF Undisturbed, AsAsked
  <2>3. QED
    BY <2>1, <2>2
<1>7. VisitOK'
  BY DEF VisitOK
<1>8. QED
  BY <1>3, <1>4, <1>5, <1>6, <1>7 DEF PageInv

\* The first round trip of a save.
LEMMA ReloadPageKeeps ==
    ASSUME PageInv, NEW o \in Organizer, ReloadPage(o)
    PROVE  PageInv'
<1>1. PICK h, k, row, cols :
        /\ h = organizer[o] /\ k = h.key /\ row = pages[k]
        /\ cols = Design!Changed(row, h.entity) \ Design!Undefined(h.entity)
  OBVIOUS
<1>2. /\ h \in Design!Handler(PageRow, PageColumn) /\ h.pc = "reload"
      /\ k \in PageEvent /\ PageOK(h.entity, k, picked, wentLive)
      /\ row \in PageRow /\ PageOK(row, k, picked, wentLive)
  BY <1>1 DEF PageInv, EditOK, ReloadPage, Design!Reload, PageOK
<1>3. PICK x : x = IF row # None THEN [h EXCEPT !.pc = "write", !.cols = cols]
                   ELSE [h EXCEPT !.pc = "insert"]
  OBVIOUS
<1>4. cols = Design!Changed(row, h.entity) /\ cols \subseteq PageColumn
  BY <1>1, <1>2 DEF Design!Undefined, Design!Changed, PageRow, PageColumn
<1>5. /\ x \in Design!Handler(PageRow, PageColumn) /\ x.pc \in {"write", "insert"}
      /\ x.key = k /\ x.entity = h.entity
      /\ x.pc = "write" => row # None /\ x.cols = cols
      /\ x.pc = "insert" => row = None
  BY <1>1, <1>2, <1>3, <1>4 DEF Design!Handler
<1>6. EditOK(x, picked, wentLive)
  BY <1>2, <1>5 DEF EditOK
<1>7. /\ organizer' = [organizer EXCEPT ![o] = x]
      /\ pages' = pages /\ visit' = None
      /\ UNCHANGED <<picked, wentLive, lastEdit>>
  <2>1. organizer = [p \in Organizer |-> organizer[p]]
    BY DEF PageInv, PageTypeOK
  <2>2. CASE row # None
    BY <1>1, <1>3, <2>1, <2>2 DEF ReloadPage, Design!Reload
  <2>3. CASE row = None
    BY <1>1, <1>3, <2>1, <2>3 DEF ReloadPage, Design!Reload
  <2>4. QED
    BY <2>2, <2>3
<1>8. pages' = [pages EXCEPT ![k] = row]
  BY <1>1, <1>2, <1>7 DEF PageInv, PageTypeOK
<1>9. ASSUME lastEdit[k] # None
      PROVE  Undisturbed(k)'
  <2>1. Undisturbed(k)
    BY <1>2, <1>9 DEF PageInv
  <2>2. \A p \in Organizer :
           organizer'[p] = IF p = o THEN x ELSE organizer[p]
    BY <1>7 DEF PageInv, PageTypeOK
  <2>3. organizer[o].key = k
    BY <1>1
  <2>4. /\ \A p \in Organizer : organizer'[p].key = k => p = o
        /\ organizer'[o] = x
    BY <2>1, <2>2, <2>3 DEF Undisturbed
  <2>5. AsAsked(x.entity, lastEdit[k])
    BY <1>1, <1>5, <2>1, <2>3 DEF Undisturbed
  <2>6. QED
    BY <1>1, <1>4, <1>5, <1>7, <2>4, <2>5 DEF Undisturbed, AsAsked
<1>10. k = organizer[o].key
  BY <1>1
<1>11. QED
  BY <1>2, <1>5, <1>6, <1>7, <1>8, <1>9, <1>10, EditStep

\* The second round trip: every column comes from the entity or the row, and
\* after an edit that nobody disturbed all from the entity.
LEMMA WritePageKeeps ==
    ASSUME PageInv, NEW o \in Organizer, WritePage(o)
    PROVE  PageInv'
<1>1. PICK h, k, old, e, row :
        /\ h = organizer[o] /\ k = h.key /\ old = pages[k] /\ e = h.entity
        /\ row = Design!Saved(h, old)
  OBVIOUS
<1>2. /\ h.pc \in {"write", "insert"}
      /\ k \in PageEvent /\ PageOK(e, k, picked, wentLive) /\ e \in PageRow
      /\ old \in PageRow /\ PageOK(old, k, picked, wentLive)
  BY <1>1 DEF PageInv, EditOK, WritePage, Design!Write, PageOK
<1>3. /\ pages' = [pages EXCEPT ![k] = row]
      /\ organizer' = [organizer EXCEPT ![o] = Design!Idle]
      /\ visit' = None /\ UNCHANGED <<picked, wentLive, lastEdit>>
  BY <1>1 DEF WritePage, Design!Write
<1>4. /\ old = [status |-> old.status, templateId |-> old.templateId,
                configuration |-> old.configuration]
      /\ e = [status |-> e.status, templateId |-> e.templateId,
              configuration |-> e.configuration]
  BY <1>2 DEF PageRow
<1>5. row = [status |-> row.status, templateId |-> row.templateId,
             configuration |-> row.configuration]
      /\ \A c \in PageColumn : row[c] \in {old[c], e[c]}
  <2>1. CASE h.pc = "write" /\ old # None
    <3>1. row = [c \in DOMAIN old |-> IF c \in h.cols THEN e[c] ELSE old[c]]
      BY <1>1, <2>1 DEF Design!Saved, Design!Patch
    <3>2. DOMAIN old = PageColumn
      BY <1>4 DEF PageColumn
    <3>3. QED
      BY <3>1, <3>2 DEF PageColumn
  <2>2. CASE h.pc = "insert" /\ old = None
    <3>1. row = [c \in DOMAIN e |-> e[c]]
      BY <1>1, <2>2 DEF Design!Saved, Design!Undefined
    <3>2. row = e
      BY <1>4, <3>1
    <3>3. QED
      BY <1>4, <3>2
  <2>3. CASE ~(h.pc = "write" /\ old # None) /\ ~(h.pc = "insert" /\ old = None)
    <3>1. row = old
      BY <1>1, <2>3 DEF Design!Saved
    <3>2. QED
      BY <1>4, <3>1
  <2>4. QED
    BY <2>1, <2>2, <2>3
<1>6. /\ row.status \in {old.status, e.status}
      /\ row.templateId \in {old.templateId, e.templateId}
      /\ row.configuration \in {old.configuration, e.configuration}
  BY <1>5 DEF PageColumn
<1>7. row \in PageRow
  BY <1>2, <1>5, <1>6 DEF PageRow
<1>8. PageOK(row, k, picked, wentLive)
  BY <1>2, <1>6, <1>7 DEF PageOK
<1>9. ASSUME lastEdit[k] # None
      PROVE  Undisturbed(k)'
  <2>1. Undisturbed(k) /\ organizer[o].key = k
    BY <1>1, <1>2, <1>9 DEF PageInv
  <2>2. /\ AsAsked(e, lastEdit[k])
        /\ h.pc = "write" => old # None /\ h.cols = Design!Changed(old, e)
        /\ h.pc = "insert" => old = None
    BY <1>1, <2>1 DEF Undisturbed
  <2>3. row.templateId = e.templateId /\ row.configuration = e.configuration
    <3>1. CASE h.pc = "write"
      <4>1. row = [c \in DOMAIN old |-> IF c \in h.cols THEN e[c] ELSE old[c]]
        BY <1>1, <2>2, <3>1 DEF Design!Saved, Design!Patch
      <4>2. h.cols = {c \in DOMAIN old : old[c] # e[c]}
        BY <2>2, <3>1 DEF Design!Changed
      <4>3. \A c \in DOMAIN old : row[c] = e[c]
        BY <4>1, <4>2
      <4>4. "templateId" \in DOMAIN old /\ "configuration" \in DOMAIN old
        BY <1>4
      <4>5. QED
        BY <4>3, <4>4
    <3>2. CASE h.pc = "insert"
      <4>1. row = [c \in DOMAIN e |-> e[c]]
        BY <1>1, <2>2, <3>2 DEF Design!Saved, Design!Undefined
      <4>2. QED
        BY <1>4, <4>1
    <3>3. QED
      BY <1>2, <3>1, <3>2
  <2>4. \A p \in Organizer :
           organizer'[p] = IF p = o THEN Design!Idle ELSE organizer[p]
    BY <1>3 DEF PageInv, PageTypeOK
  <2>5. \A p \in Organizer : organizer'[p].key # k
    BY <1>2, <2>1, <2>4, IdleEdit DEF Undisturbed
  <2>6. pages'[k] = row /\ lastEdit' = lastEdit
    BY <1>2, <1>3 DEF PageInv, PageTypeOK
  <2>7. QED
    BY <2>2, <2>3, <2>5, <2>6 DEF Undisturbed, AsAsked
<1>10. k = organizer[o].key
  BY <1>1
<1>11. QED
  BY <1>2, <1>3, <1>8, <1>9, <1>10, IdleEdit, EditStep

\* A failed edit is as good as never asked for: the slot is idle, the row as
\* it was, and what was asked for is no longer known.
LEMMA PageFailsKeeps ==
    ASSUME PageInv, NEW o \in Organizer, PageFails(o)
    PROVE  PageInv'
<1>1. PICK k : k = organizer[o].key
  OBVIOUS
<1>2. /\ organizer' = [organizer EXCEPT ![o] = Design!Idle]
      /\ lastEdit' = [lastEdit EXCEPT ![k] = None]
      /\ UNCHANGED <<pages, picked, wentLive>> /\ visit' = None
  BY <1>1 DEF PageFails
<1>3. k \in PageEvent
  BY <1>1 DEF PageFails, PageInv, EditOK
<1>4. /\ \A p \in Organizer :
            organizer'[p] = IF p = o THEN Design!Idle ELSE organizer[p]
      /\ organizer' \in [Organizer -> Design!Handler(PageRow, PageColumn)]
  BY <1>2, IdleEdit DEF PageInv, PageTypeOK
<1>5. /\ lastEdit'[k] = None
      /\ \A d \in PageEvent : d # k => lastEdit'[d] = lastEdit[d]
  BY <1>2, <1>3 DEF PageInv, PageTypeOK
<1>6. PageTypeOK'
  BY <1>2, <1>4 DEF PageInv, PageTypeOK
<1>7. \A p \in Organizer : EditOK(organizer'[p], picked', wentLive')
  BY <1>2, <1>4, IdleEdit DEF PageInv
<1>8. ASSUME NEW d \in PageEvent, lastEdit'[d] # None
      PROVE  Undisturbed(d)'
  <2>1. d # k /\ lastEdit'[d] = lastEdit[d]
    BY <1>5, <1>8
  <2>2. Undisturbed(d)
    BY <1>8, <2>1 DEF PageInv
  <2>3. \A p \in Organizer : organizer'[p].key = d \/ organizer[p].key = d
            => organizer'[p] = organizer[p]
    BY <1>1, <1>4, <2>1, IdleEdit
  <2>4. QED
    BY <1>2, <2>1, <2>2, <2>3 DEF Undisturbed, AsAsked
<1>9. VisitOK'
  BY <1>2 DEF VisitOK
<1>10. QED
  BY <1>2, <1>6, <1>7, <1>8, <1>9 DEF PageInv

\* A page that is looked at shows the row of the moment.
LEMMA PublicEventPageKeeps ==
    ASSUME PageInv, NEW e \in PageEvent, NEW session \in BOOLEAN,
           PublicEventPage(e, session)
    PROVE  PageInv'
<1>1. PICK template, found :
         /\ template = GetTemplate(pages[e].templateId)
         /\ found = (session \/ FindOnePublic(e))
  OBVIOUS
<1>2. /\ UNCHANGED <<pages, organizer, picked, wentLive, lastEdit>>
      /\ visit' = [event |-> e, session |-> session,
             says |-> IF found /\ template # None THEN "Page"
                      ELSE IF session THEN "PickATemplate" ELSE "NotLive",
             shown |-> IF found /\ template # None
                       THEN Rendering(template, pages[e].configuration)
                       ELSE None]
  BY <1>1 DEF PublicEventPage
<1>3. visit'.event = e /\ visit'.session = session
  BY <1>2
<1>4. ASSUME visit'.says = "Page"
      PROVE  /\ found /\ template # None
             /\ visit'.shown = Rendering(template, pages[e].configuration)
  BY <1>2, <1>4
<1>5. VisitOK'
  BY <1>1, <1>2, <1>3, <1>4 DEF VisitOK, FindOnePublic
<1>6. PageTypeOK'
  BY <1>2, <1>3 DEF PageInv, PageTypeOK
<1>7. QED
  BY <1>2, <1>5, <1>6 DEF PageInv, Undisturbed, AsAsked

\* Every step keeps the invariant.
LEMMA PageStep ==
    ASSUME PageInv, [PageNext]_pageVars
    PROVE  PageInv'
<1>1. ASSUME NEW o \in Organizer, NEW e \in PageEvent,
             \/ \E template \in Offered : Apply(o, e, template)
             \/ \E tagline \in OwnTagline \cup {None}, ticked \in Ticked,
                   colours \in Recoloured :
                      Customize(o, e, tagline, ticked, colours)
             \/ Publish(o, e)
             \/ Cancel(o, e)
      PROVE  PageInv'
  BY <1>1, OrganizersEdit
<1>2. ASSUME NEW o \in Organizer, ReloadPage(o) \/ WritePage(o) \/ PageFails(o)
      PROVE  PageInv'
  BY <1>2, ReloadPageKeeps, WritePageKeeps, PageFailsKeeps
<1>3. ASSUME NEW e \in PageEvent, NEW session \in BOOLEAN,
             PublicEventPage(e, session)
      PROVE  PageInv'
  BY <1>3, PublicEventPageKeeps
<1>4. CASE UNCHANGED pageVars
  BY <1>4 DEF pageVars, PageInv, PageTypeOK, Undisturbed, AsAsked, VisitOK,
              FindOnePublic
<1>5. QED
  BY <1>1, <1>2, <1>3, <1>4 DEF PageNext

\* Nothing is asked for and nothing shown at first.
LEMMA PageStart ==
    ASSUME PageInit
    PROVE  PageInv
<1>1. PICK row : row = [status |-> "draft", templateId |-> None,
                        configuration |-> NoConfiguration]
  OBVIOUS
<1>2. /\ row \in PageRow /\ row.templateId = None /\ row.status = "draft"
      /\ IsInjective(row.configuration.enabledSections)
  BY <1>1, Configurations DEF PageRow, PageStatus
<1>3. /\ pages = [e \in PageEvent |-> row]
      /\ organizer = [o \in Organizer |-> Design!Idle]
      /\ picked = [e \in PageEvent |-> {}] /\ wentLive = {}
      /\ lastEdit = [e \in PageEvent |-> None] /\ visit = None
  BY <1>1 DEF PageInit
<1>4. PageTypeOK
  BY <1>2, <1>3, IdleEdit DEF PageTypeOK
<1>5. \A e \in PageEvent : PageOK(pages[e], e, picked, wentLive)
  BY <1>2, <1>3 DEF PageOK
<1>6. \A o \in Organizer : EditOK(organizer[o], picked, wentLive)
  BY <1>3, IdleEdit
<1>7. QED
  BY <1>3, <1>4, <1>5, <1>6 DEF PageInv, VisitOK

\* What the invariant says of a page that is rendered.
LEMMA PageTells ==
    ASSUME PageInv
    PROVE  PagesWereChosen /\ LastEditShown
<1>1. SUFFICES ASSUME Rendered
               PROVE  PagesWereChosen /\ LastEditShown
  BY DEF PagesWereChosen, LastEditShown
<1>2. PICK e, row, template, config :
        /\ e = visit.event /\ row = pages[e] /\ config = row.configuration
        /\ template = GetTemplate(row.templateId)
  OBVIOUS
<1>3. /\ e \in PageEvent /\ template # None
      /\ visit.session \/ FindOnePublic(e)
      /\ visit.shown = Rendering(template, config)
  BY <1>1, <1>2 DEF PageInv, VisitOK, Rendered
<1>4. PageOK(row, e, picked, wentLive) /\ row \in PageRow
  BY <1>2, <1>3 DEF PageInv, PageOK
<1>5. /\ template = row.templateId /\ template \in TemplateId
      /\ template \in picked[e]
  BY <1>2, <1>3, <1>4 DEF GetTemplate, PageOK
<1>6. /\ visit.shown.template = template
      /\ visit.shown.sections = ResolveSections(template, config)
      /\ visit.shown.palette = ResolvePalette(template, config)
      /\ visit.shown.tagline = IF config.tagline # None THEN config.tagline
                               ELSE template
  BY <1>3 DEF Rendering
<1>7. PagesWereChosen
  <2>1. /\ ResolveSections(template, config) # <<>>
        /\ IsInjective(ResolveSections(template, config))
    BY <1>2, <1>4, <1>5, DefaultsListed DEF ResolveSections, PageOK
  <2>2. ~visit.session => e \in wentLive
    BY <1>2, <1>3, <1>4 DEF FindOnePublic, PageOK
  <2>3. QED
    BY <1>2, <1>5, <1>6, <2>1, <2>2 DEF PagesWereChosen
<1>8. LastEditShown
  <2>1. SUFFICES ASSUME lastEdit[e] # None,
                        \A o \in Organizer : organizer[o].key # e
                 PROVE  LastEditShown
    BY <1>2 DEF LastEditShown
  <2>2. PICK edit : edit = lastEdit[e]
    OBVIOUS
  <2>3. template = edit.templateId /\ config = edit.configuration
    BY <1>2, <1>3, <1>5, <2>1, <2>2 DEF PageInv, Undisturbed, AsAsked
  <2>4. ASSUME NEW c \in Colour
        PROVE  (visit.shown.palette[c] = "event") = (c \in config.paletteOverride)
    <3>1. visit.shown.palette[c] = IF c \in config.paletteOverride THEN "event"
                                   ELSE template
      BY <1>6 DEF ResolvePalette
    <3>2. template # "event"
      BY <1>5 DEF TemplateId
    <3>3. CASE c \in config.paletteOverride
      BY <3>1, <3>3
    <3>4. CASE c \notin config.paletteOverride
      BY <3>1, <3>2, <3>4
    <3>5. QED
      BY <3>3, <3>4
  <2>5. config.enabledSections # <<>> =>
            visit.shown.sections = config.enabledSections
    BY <1>6 DEF ResolveSections
  <2>6. config.tagline # None => visit.shown.tagline = config.tagline
    BY <1>6
  <2>7. QED
    BY <1>2, <1>6, <2>2, <2>3, <2>4, <2>5, <2>6 DEF LastEditShown
<1>9. QED
  BY <1>7, <1>8

\* For any events, organisers and edits, overlapping or not: a rendered page
\* has a template that an organiser picked and sections that repeat nothing,
\* and visitors see it only after it was published (e/[id]/page.tsx).
THEOREM RenderedPagesWereChosen == PageSpec => []PagesWereChosen
<1>1. PageInv => PagesWereChosen
  BY PageTells
<1>2. QED
  BY PageStart, PageStep, <1>1, PTL DEF PageSpec

\* For any events, organisers and edits: what the last edit that had the event
\* for itself asked for is what /e/:id renders.
THEOREM SavedEditsAreShown == PageSpec => []LastEditShown
<1>1. PageInv => LastEditShown
  BY PageTells
<1>2. QED
  BY PageStart, PageStep, <1>1, PTL DEF PageSpec

-----------------------------------------------------------------------------
(* Sums over finite sets.  A fold takes its elements one by one, in an     *)
(* order nobody knows.  Induction is on the subsets: of those that break a *)
(* claim, take one that contains no other.                                 *)

\* Of the subsets in Bad, one contains no other.
LEMMA SmallestSubset ==
    ASSUME NEW S, IsFiniteSet(S), NEW Bad \in SUBSET SUBSET S, Bad # {}
    PROVE  \E T \in Bad : \A U \in Bad : U \subseteq T => U = T
<1>1. PICK R : R = StrictSubsetOrdering(S)
  OBVIOUS
<1>2. IsWellFoundedOn(R, SUBSET S)
  BY <1>1, FS_StrictSubsetOrderingWellFounded, FS_FiniteSubsetsOfFinite
<1>3. PICK T \in Bad : \A U \in Bad : ~(<<U, T>> \in R)
  BY <1>2, WFMin
<1>4. ASSUME NEW U \in Bad, U \subseteq T
      PROVE  U = T
  BY <1>1, <1>3, <1>4 DEF StrictSubsetOrdering
<1>5. QED
  BY <1>4

\* The element of s that a fold takes first.
First(s) == CHOOSE x \in s : TRUE

\* It is one.
LEMMA FirstIsIn == ASSUME NEW s, s # {} PROVE First(s) \in s
BY DEF First

\* f adds up w over the subsets of S, as the folds of the libraries do.
AddsUp(f, w, S) ==
    f = [s \in SUBSET S |-> IF s = {} THEN 0
                            ELSE w[First(s)] + f[s \ {First(s)}]]

\* The sum of w over S.
Total(w, S) == (CHOOSE f : AddsUp(f, w, S))[S]

\* w and v are the same on S.
Agree(w, v, S) == \A x \in S : w[x] = v[x]

\* There is one sum at most, whatever lies outside the set.
LEMMA OneSum ==
    ASSUME NEW w, NEW v, NEW A, NEW B, IsFiniteSet(A), NEW f, NEW g,
           AddsUp(f, w, A), AddsUp(g, v, B), Agree(w, v, A \cap B)
    PROVE  \A s \in SUBSET (A \cap B) : f[s] = g[s]
<1>b. PICK Bad : Bad = {s \in SUBSET (A \cap B) : f[s] # g[s]}
  OBVIOUS
<1>1. SUFFICES ASSUME Bad # {}
               PROVE  FALSE
  BY <1>b
<1>2. PICK T \in Bad : \A U \in Bad : U \subseteq T => U = T
  <2>1. Bad \in SUBSET SUBSET A
    BY <1>b
  <2>2. QED
    BY <1>1, <2>1, SmallestSubset
<1>3. T \in SUBSET (A \cap B) /\ f[T] # g[T]
  BY <1>b
<1>4. T # {}
  BY <1>3 DEF AddsUp
<1>5. PICK x, U : x = First(T) /\ U = T \ {x}
  OBVIOUS
<1>6. x \in T /\ U \in SUBSET (A \cap B) /\ U # T
  BY <1>3, <1>4, <1>5, FirstIsIn
<1>7. f[U] = g[U]
  BY <1>b, <1>2, <1>5, <1>6
<1>8. f[T] = w[x] + f[U]
  BY <1>3, <1>4, <1>5 DEF AddsUp
<1>9. g[T] = v[x] + g[U]
  BY <1>3, <1>4, <1>5 DEF AddsUp
<1>10. w[x] = v[x]
  BY <1>3, <1>6 DEF Agree
<1>11. QED
  BY <1>3, <1>7, <1>8, <1>9, <1>10

\* And there is one.
LEMMA SumExists ==
    ASSUME NEW w, NEW S, IsFiniteSet(S)
    PROVE  \E f : AddsUp(f, w, S)
<1>b. PICK Bad : Bad = {T \in SUBSET S : ~ \E f : AddsUp(f, w, T)}
  OBVIOUS
<1>1. SUFFICES ASSUME Bad # {}
               PROVE  FALSE
  <2>1. S \in SUBSET S
    OBVIOUS
  <2>2. QED
    BY <1>b, <2>1
<1>2. PICK T \in Bad : \A U \in Bad : U \subseteq T => U = T
  <2>1. Bad \in SUBSET SUBSET S
    BY <1>b
  <2>2. QED
    BY <1>1, <2>1, SmallestSubset
<1>3. T \in SUBSET S /\ ~ \E f : AddsUp(f, w, T)
  BY <1>b
<1>4. PICK F : F = [x \in T |-> CHOOSE f : AddsUp(f, w, T \ {x})]
  OBVIOUS
<1>5. ASSUME NEW x \in T
      PROVE  AddsUp(F[x], w, T \ {x})
  <2>1. T \ {x} \in SUBSET S /\ T \ {x} \subseteq T /\ T \ {x} # T
    BY <1>3
  <2>2. T \ {x} \notin Bad
    BY <1>2, <2>1
  <2>3. \E f : AddsUp(f, w, T \ {x})
    BY <1>b, <2>1, <2>2
  <2>4. QED
    BY <1>4, <2>3
<1>6. PICK g : g = [s \in SUBSET T |-> IF s = {} THEN 0
                       ELSE w[First(s)] + F[First(s)][s \ {First(s)}]]
  OBVIOUS
<1>7. ASSUME NEW s \in SUBSET T, s # {}
      PROVE  F[First(s)][s \ {First(s)}] = g[s \ {First(s)}]
  <2>1. PICK x, U : x = First(s) /\ U = s \ {x}
    OBVIOUS
  <2>2. x \in T /\ U \in SUBSET (T \ {x}) /\ U \in SUBSET T
    BY <1>7, <2>1, FirstIsIn
  <2>3. CASE U = {}
    <3>1. F[x][U] = 0
      BY <1>5, <2>2, <2>3 DEF AddsUp
    <3>2. g[U] = 0
      BY <1>6, <2>2, <2>3
    <3>3. QED
      BY <2>1, <3>1, <3>2
  <2>4. CASE U # {}
    <3>1. PICK y, V : y = First(U) /\ V = U \ {y}
      OBVIOUS
    <3>2. y \in U /\ y \in T /\ V \in SUBSET (T \ {x})
          /\ V \in SUBSET (T \ {y})
      BY <2>2, <2>4, <3>1, FirstIsIn
    <3>3. F[x][U] = w[y] + F[x][V]
      BY <1>5, <2>2, <2>4, <3>1 DEF AddsUp
    <3>4. g[U] = w[y] + F[y][V]
      BY <1>6, <2>2, <2>4, <3>1
    <3>5. F[x][V] = F[y][V]
      <4>1. PICK A, B, f, h : /\ A = T \ {x} /\ B = T \ {y}
                              /\ f = F[x] /\ h = F[y]
        OBVIOUS
      <4>2. AddsUp(f, w, A) /\ AddsUp(h, w, B) /\ V \in SUBSET (A \cap B)
        BY <1>5, <2>2, <3>2, <4>1
      <4>3. IsFiniteSet(A)
        BY <1>3, <4>1, FS_Subset
      <4>4. \A s0 \in SUBSET (A \cap B) : f[s0] = h[s0]
        BY <4>2, <4>3, OneSum DEF Agree
      <4>5. QED
        BY <4>1, <4>2, <4>4
    <3>6. QED
      BY <2>1, <3>3, <3>4, <3>5
  <2>5. QED
    BY <2>3, <2>4
<1>8. AddsUp(g, w, T)
  BY <1>6, <1>7 DEF AddsUp
<1>9. QED
  BY <1>3, <1>8

\* The fold finds it.
LEMMA TotalAddsUp ==
    ASSUME NEW w, NEW S, IsFiniteSet(S), NEW f, AddsUp(f, w, S)
    PROVE  \A T \in SUBSET S : Total(w, T) = f[T]
<1> SUFFICES ASSUME NEW T \in SUBSET S
             PROVE  Total(w, T) = f[T]
  OBVIOUS
<1>1. IsFiniteSet(T)
  BY FS_Subset
<1>2. PICK g : g = (CHOOSE h : AddsUp(h, w, T))
  OBVIOUS
<1>3. AddsUp(g, w, T)
  BY <1>1, <1>2, SumExists
<1>4. g[T] = f[T]
  <2>1. PICK A, B, h, k, C : /\ A = T /\ B = S /\ h = g /\ k = f
                             /\ C = A \cap B
    OBVIOUS
  <2>2. AddsUp(h, w, A) /\ AddsUp(k, w, B) /\ IsFiniteSet(A)
        /\ T \in SUBSET (A \cap B)
    BY <1>1, <1>3, <2>1
  <2>3. \A s \in SUBSET (A \cap B) : h[s] = k[s]
    BY <2>2, OneSum DEF Agree
  <2>4. QED
    BY <2>1, <2>2, <2>3
<1>5. QED
  BY <1>2, <1>4 DEF Total

\* The sum of nothing, and the element that is taken first.
LEMMA TotalFirst ==
    ASSUME NEW w, NEW S, IsFiniteSet(S)
    PROVE  /\ Total(w, {}) = 0
           /\ S # {} => Total(w, S) = w[First(S)] + Total(w, S \ {First(S)})
<1>1. PICK f : AddsUp(f, w, S)
  BY SumExists
<1>2. \A T \in SUBSET S : Total(w, T) = f[T]
  BY <1>1, TotalAddsUp
<1>3. f[{}] = 0
  BY <1>1 DEF AddsUp
<1>4. S # {} => f[S] = w[First(S)] + f[S \ {First(S)}]
  BY <1>1 DEF AddsUp
<1>5. QED
  BY <1>2, <1>3, <1>4

\* Sums of numbers are numbers.
LEMMA TotalTyped ==
    ASSUME NEW w, NEW S, IsFiniteSet(S), \A x \in S : w[x] \in Nat
    PROVE  \A T \in SUBSET S : Total(w, T) \in Nat
<1>b. PICK Bad : Bad = {T \in SUBSET S : Total(w, T) \notin Nat}
  OBVIOUS
<1>1. SUFFICES ASSUME Bad # {}
               PROVE  FALSE
  BY <1>b
<1>2. PICK T \in Bad : \A U \in Bad : U \subseteq T => U = T
  <2>1. Bad \in SUBSET SUBSET S
    BY <1>b
  <2>2. QED
    BY <1>1, <2>1, SmallestSubset
<1>3. T \in SUBSET S /\ Total(w, T) \notin Nat
  BY <1>b
<1>4. IsFiniteSet(T)
  BY <1>3, FS_Subset
<1>5. T # {}
  <2>1. Total(w, {}) = 0
    BY <1>4, TotalFirst
  <2>2. QED
    BY <1>3, <2>1
<1>6. PICK x, U : x = First(T) /\ U = T \ {x}
  OBVIOUS
<1>7. x \in T /\ U \in SUBSET S /\ U \subseteq T /\ U # T
  BY <1>3, <1>5, <1>6, FirstIsIn
<1>8. Total(w, U) \in Nat /\ w[x] \in Nat
  BY <1>b, <1>2, <1>3, <1>7
<1>9. Total(w, T) = w[x] + Total(w, U)
  BY <1>4, <1>5, <1>6, TotalFirst
<1>10. QED
  BY <1>3, <1>8, <1>9

\* The order does not matter: any element may be taken first.
LEMMA TotalTake ==
    ASSUME NEW w, NEW S, IsFiniteSet(S), \A x \in S : w[x] \in Nat,
           NEW y \in S
    PROVE  Total(w, S) = w[y] + Total(w, S \ {y})
<1>b. PICK Bad : Bad = {T \in SUBSET S : \E z \in T :
                            Total(w, T) # w[z] + Total(w, T \ {z})}
  OBVIOUS
<1>1. SUFFICES ASSUME Bad # {}
               PROVE  FALSE
  <2>1. S \in SUBSET S
    OBVIOUS
  <2>2. QED
    BY <1>b, <2>1
<1>2. PICK T \in Bad : \A U \in Bad : U \subseteq T => U = T
  <2>1. Bad \in SUBSET SUBSET S
    BY <1>b
  <2>2. QED
    BY <1>1, <2>1, SmallestSubset
<1>3. T \in SUBSET S
  BY <1>b
<1>4. PICK z \in T : Total(w, T) # w[z] + Total(w, T \ {z})
  BY <1>b
<1>5. PICK x : x = First(T)
  OBVIOUS
<1>6. x \in T /\ IsFiniteSet(T) /\ T # {}
  BY <1>3, <1>4, <1>5, FirstIsIn, FS_Subset
<1>7. Total(w, T) = w[x] + Total(w, T \ {x})
  BY <1>5, <1>6, TotalFirst
<1>8. x # z
  BY <1>4, <1>7
<1>9. PICK A, B, C : /\ A = T \ {x} /\ B = T \ {z}
                     /\ C = T \ {x, z}
  OBVIOUS
<1>10. /\ A \in SUBSET S /\ A \subseteq T /\ A # T /\ z \in A /\ C = A \ {z}
       /\ B \in SUBSET S /\ B \subseteq T /\ B # T /\ x \in B /\ C = B \ {x}
       /\ C \in SUBSET S
  BY <1>3, <1>6, <1>8, <1>9
<1>11. A \notin Bad /\ B \notin Bad
  BY <1>2, <1>10
<1>12. Total(w, A) = w[z] + Total(w, C) /\ Total(w, B) = w[x] + Total(w, C)
  BY <1>b, <1>10, <1>11
<1>13. w[x] \in Nat /\ w[z] \in Nat /\ Total(w, C) \in Nat
  BY <1>3, <1>6, <1>10, TotalTyped
<1>14. QED
  BY <1>4, <1>7, <1>9, <1>12, <1>13

\* A sum that a LAMBDA describes is the sum of that function.
LEMMA SumIsTotal ==
    \A w, S : MapThenSumSet(LAMBDA a : w[a], S) = Total(w, S)
BY DEF MapThenSumSet, MapThenFoldSet, Total, AddsUp, First

\* The sum of two functions that agree on the set is the same.
LEMMA TotalOf ==
    ASSUME NEW w, NEW v, NEW S, IsFiniteSet(S), Agree(w, v, S)
    PROVE  Total(w, S) = Total(v, S)
<1>1. PICK A, B, f, g : /\ A = S /\ B = S
                        /\ f = (CHOOSE h : AddsUp(h, w, S))
                        /\ g = (CHOOSE h : AddsUp(h, v, S))
  OBVIOUS
<1>2. /\ AddsUp(f, w, A) /\ AddsUp(g, v, B) /\ IsFiniteSet(A)
      /\ S \in SUBSET (A \cap B)
      /\ Agree(w, v, A \cap B)
  <2>1. \E h : AddsUp(h, w, S)
    BY SumExists
  <2>2. \E h : AddsUp(h, v, S)
    BY SumExists
  <2>3. AddsUp(f, w, S)
    BY <1>1, <2>1
  <2>4. AddsUp(g, v, S)
    BY <1>1, <2>2
  <2>5. QED
    BY <1>1, <2>3, <2>4 DEF Agree
<1>3. \A s \in SUBSET (A \cap B) : f[s] = g[s]
  BY <1>2, OneSum
<1>4. QED
  BY <1>1, <1>2, <1>3 DEF Total

\* Groups add up to the whole: as many as there are of each kind are as
\* many as there are.
LEMMA GroupsAddUp ==
    ASSUME NEW K, IsFiniteSet(K), NEW G, IsFiniteSet(G),
           NEW key, \A x \in G : key[x] \in K,
           NEW w, w = [k \in K |-> Cardinality({x \in G : key[x] = k})]
    PROVE  Total(w, K) = Cardinality(G)
<1>b. PICK Bad : Bad = {T \in SUBSET K :
                    Total(w, T) # Cardinality({x \in G : key[x] \in T})}
  OBVIOUS
<1>1. SUFFICES ASSUME Bad # {}
               PROVE  FALSE
  <2>1. K \in SUBSET K /\ {x \in G : key[x] \in K} = G
    OBVIOUS
  <2>2. QED
    BY <1>b, <2>1
<1>2. PICK T \in Bad : \A U \in Bad : U \subseteq T => U = T
  <2>1. Bad \in SUBSET SUBSET K
    BY <1>b
  <2>2. QED
    BY <1>1, <2>1, SmallestSubset
<1>3. /\ T \in SUBSET K
      /\ Total(w, T) # Cardinality({x \in G : key[x] \in T})
  BY <1>b
<1>4. IsFiniteSet(T)
  BY <1>3, FS_Subset
<1>5. T # {}
  <2>1. Total(w, {}) = 0
    BY <1>4, TotalFirst
  <2>2. ASSUME T = {} PROVE {x \in G : key[x] \in T} = {}
    BY <2>2
  <2>3. QED
    BY <1>3, <2>1, <2>2, FS_EmptySet
<1>6. PICK k, U : k = First(T) /\ U = T \ {k}
  OBVIOUS
<1>7. k \in T /\ k \in K /\ U \in SUBSET K /\ U \subseteq T /\ U # T
  BY <1>3, <1>5, <1>6, FirstIsIn
<1>8. PICK A, B, C : /\ A = {x \in G : key[x] = k}
                     /\ B = {x \in G : key[x] \in U}
                     /\ C = {x \in G : key[x] \in T}
  OBVIOUS
<1>9. Total(w, U) = Cardinality(B)
  BY <1>b, <1>2, <1>7, <1>8
<1>10. w[k] = Cardinality(A)
  BY <1>7, <1>8
<1>11. Total(w, T) = w[k] + Total(w, U)
  BY <1>4, <1>5, <1>6, TotalFirst
<1>12. Cardinality(C) = Cardinality(A) + Cardinality(B)
  <2>1. A \in SUBSET G /\ B \in SUBSET G
    BY <1>8
  <2>2. IsFiniteSet(A) /\ IsFiniteSet(B)
    BY <2>1, FS_Subset
  <2>3. C = A \cup B
    BY <1>6, <1>7, <1>8
  <2>4. A \cap B = {}
    BY <1>6, <1>8
  <2>5. Cardinality(A) \in Nat /\ Cardinality(B) \in Nat
    BY <2>2, FS_CardinalityType
  <2>6. Cardinality(A \cup B)
            = Cardinality(A) + Cardinality(B) - Cardinality(A \cap B)
    BY <2>2, FS_Union
  <2>7. Cardinality(A \cap B) = 0
    BY <2>4, FS_EmptySet
  <2>8. QED
    BY <2>3, <2>5, <2>6, <2>7
<1>13. QED
  BY <1>3, <1>8, <1>9, <1>10, <1>11, <1>12

-----------------------------------------------------------------------------
(* The counts of a table, and what one saved row does to them              *)

\* A row of the table.
GuestRow == [status: GuestStatus, amountPaid: Price]

\* The registrations of a table g, and those of a status.
GuestsOf(g) == {a \in Attendee : g[a] # None}
WithOf(g, status) == {a \in GuestsOf(g) : g[a].status = status}

\* One if it holds, else none.
One(condition) == IF condition THEN 1 ELSE 0

\* Two sets that differ in one element differ by one.
LEMMA CountsApart ==
    ASSUME NEW S, NEW T, NEW a, IsFiniteSet(S), IsFiniteSet(T),
           \A b : b # a => (b \in S <=> b \in T)
    PROVE  /\ Cardinality(S) \in Nat /\ Cardinality(T) \in Nat
           /\ Cardinality(T)
                  = Cardinality(S) + One(a \in T) - One(a \in S)
<1>0. Cardinality(S) \in Nat /\ Cardinality(T) \in Nat
  BY FS_CardinalityType
<1>1. PICK R : R = S \ {a}
  OBVIOUS
<1>2. IsFiniteSet(R) /\ a \notin R
  BY <1>1, FS_RemoveElement
<1>3. Cardinality(R) \in Nat
  BY <1>2, FS_CardinalityType
<1>4. Cardinality(R \cup {a}) = Cardinality(R) + 1
  BY <1>2, FS_AddElement
<1>5. S = R \/ S = R \cup {a}
  BY <1>1
<1>6. T = R \/ T = R \cup {a}
  BY <1>1
<1>7. Cardinality(S) = Cardinality(R) + One(a \in S)
  <2>1. CASE S = R
    BY <1>2, <1>3, <2>1 DEF One
  <2>2. CASE S = R \cup {a}
    BY <1>3, <1>4, <2>2 DEF One
  <2>3. QED
    BY <1>5, <2>1, <2>2
<1>8. Cardinality(T) = Cardinality(R) + One(a \in T)
  <2>1. CASE T = R
    BY <1>2, <1>3, <2>1 DEF One
  <2>2. CASE T = R \cup {a}
    BY <1>3, <1>4, <2>2 DEF One
  <2>3. QED
    BY <1>6, <2>1, <2>2
<1>9. One(a \in S) \in Nat /\ One(a \in T) \in Nat
  BY DEF One
<1>10. QED
  BY <1>0, <1>3, <1>7, <1>8, <1>9

\* The registrations of a table are finitely many.
LEMMA GuestsAreFinite ==
    ASSUME NEW g
    PROVE  /\ IsFiniteSet(GuestsOf(g)) /\ Cardinality(GuestsOf(g)) \in Nat
           /\ \A s : /\ IsFiniteSet(WithOf(g, s))
                     /\ Cardinality(WithOf(g, s)) \in Nat
<1>1. GuestsOf(g) \in SUBSET Attendee /\ IsFiniteSet(Attendee)
  BY DashboardAssumption DEF GuestsOf
<1>2. IsFiniteSet(GuestsOf(g))
  BY <1>1, FS_Subset
<1>3. ASSUME NEW s
      PROVE  IsFiniteSet(WithOf(g, s))
  <2>1. WithOf(g, s) \in SUBSET GuestsOf(g)
    BY DEF WithOf
  <2>2. QED
    BY <1>2, <2>1, FS_Subset
<1>4. QED
  BY <1>2, <1>3, FS_CardinalityType

\* h is the table g with a row saved.
SavedInto(h, g, a, row) ==
    h[a] = row /\ \A b \in Attendee \ {a} : h[b] = g[b]

\* A row saved changes the counts by one at most, each in its own way.
LEMMA RowCounts ==
    ASSUME NEW g, NEW h, NEW a \in Attendee, NEW row \in GuestRow,
           SavedInto(h, g, a, row)
    PROVE  /\ Cardinality(GuestsOf(h))
                  = Cardinality(GuestsOf(g)) + 1 - (IF g[a] # None THEN 1 ELSE 0)
           /\ \A s : Cardinality(WithOf(h, s))
                         = Cardinality(WithOf(g, s)) + (IF row.status = s THEN 1 ELSE 0)
                               - (IF g[a] # None /\ g[a].status = s THEN 1 ELSE 0)
<1>1. row # None
  BY GuestAssumption DEF GuestRow
<1>2. h[a] = row /\ \A b \in Attendee : b # a => h[b] = g[b]
  BY DEF SavedInto
<1>3. Cardinality(GuestsOf(h))
          = Cardinality(GuestsOf(g)) + 1 - (IF g[a] # None THEN 1 ELSE 0)
  <2>1. PICK S, T : S = GuestsOf(g) /\ T = GuestsOf(h)
    OBVIOUS
  <2>2. IsFiniteSet(S) /\ IsFiniteSet(T)
    BY <2>1, GuestsAreFinite
  <2>3. \A b : b # a => (b \in S <=> b \in T)
    BY <1>2, <2>1 DEF GuestsOf
  <2>4. Cardinality(T) = Cardinality(S) + One(a \in T) - One(a \in S)
    BY <2>2, <2>3, CountsApart
  <2>5. a \in T /\ (a \in S <=> g[a] # None)
    BY <1>1, <1>2, <2>1 DEF GuestsOf
  <2>6. One(a \in T) = 1 /\ One(a \in S) = (IF g[a] # None THEN 1 ELSE 0)
    BY <2>5 DEF One
  <2>7. QED
    BY <2>1, <2>4, <2>6
<1>4. ASSUME NEW s
      PROVE  Cardinality(WithOf(h, s))
                 = Cardinality(WithOf(g, s)) + (IF row.status = s THEN 1 ELSE 0)
                       - (IF g[a] # None /\ g[a].status = s THEN 1 ELSE 0)
  <2>1. PICK S, T : S = WithOf(g, s) /\ T = WithOf(h, s)
    OBVIOUS
  <2>2. IsFiniteSet(S) /\ IsFiniteSet(T)
    BY <2>1, GuestsAreFinite
  <2>3. \A b : b # a => (b \in S <=> b \in T)
    BY <1>2, <2>1 DEF WithOf, GuestsOf
  <2>4. Cardinality(T) = Cardinality(S) + One(a \in T) - One(a \in S)
    BY <2>2, <2>3, CountsApart
  <2>5. /\ a \in T <=> row.status = s
        /\ a \in S <=> g[a] # None /\ g[a].status = s
    BY <1>1, <1>2, <2>1 DEF WithOf, GuestsOf
  <2>6. /\ One(a \in T) = (IF row.status = s THEN 1 ELSE 0)
        /\ One(a \in S) = (IF g[a] # None /\ g[a].status = s THEN 1 ELSE 0)
    BY <2>5 DEF One
  <2>7. QED
    BY <2>1, <2>4, <2>6
<1>5. QED
  BY <1>3, <1>4

\* The revenue of a table.
RevenueOf(g) == MapThenSumSet(LAMBDA a : g[a].amountPaid, GuestsOf(g))

\* The revenue of a table is a sum over its registrations.
LEMMA RevenueIsTotal ==
    ASSUME NEW g, NEW w, \A a \in GuestsOf(g) : w[a] = g[a].amountPaid
    PROVE  RevenueOf(g) = Total(w, GuestsOf(g))
<1>1. PICK G : G = GuestsOf(g)
  OBVIOUS
<1>2. IsFiniteSet(G)
  BY <1>1, GuestsAreFinite
<1>3. PICK sum : sum = (CHOOSE f : f = [s \in SUBSET G |->
                            IF s = {} THEN 0
                            ELSE g[First(s)].amountPaid + f[s \ {First(s)}]])
  OBVIOUS
<1>4. RevenueOf(g) = sum[G]
  BY <1>1, <1>3 DEF RevenueOf, MapThenSumSet, MapThenFoldSet, First
<1>5. ASSUME NEW f
      PROVE  [s \in SUBSET G |->
                  IF s = {} THEN 0
                  ELSE g[First(s)].amountPaid + f[s \ {First(s)}]]
               = [s \in SUBSET G |-> IF s = {} THEN 0
                                     ELSE w[First(s)] + f[s \ {First(s)}]]
  <2>1. ASSUME NEW s \in SUBSET G, s # {}
        PROVE  w[First(s)] = g[First(s)].amountPaid
    BY <1>1, <2>1, FirstIsIn
  <2>2. QED
    BY <2>1
<1>6. PICK f : AddsUp(f, w, G)
  BY <1>2, SumExists
<1>7. f = [s \in SUBSET G |-> IF s = {} THEN 0
                 ELSE g[First(s)].amountPaid + f[s \ {First(s)}]]
  BY <1>5, <1>6 DEF AddsUp
<1>8. sum = [s \in SUBSET G |-> IF s = {} THEN 0
                 ELSE g[First(s)].amountPaid + sum[s \ {First(s)}]]
  BY <1>3, <1>7
<1>9. AddsUp(sum, w, G)
  BY <1>5, <1>8 DEF AddsUp
<1>10. G \in SUBSET G
  OBVIOUS
<1>11. Total(w, G) = sum[G]
  BY <1>2, <1>9, <1>10, TotalAddsUp
<1>12. QED
  BY <1>1, <1>4, <1>11

\* A row saved over a registration of the same amount keeps the revenue, and
\* a new one adds to it.
LEMMA RevenueGrows ==
    ASSUME NEW g \in [Attendee -> GuestRow \cup {None}],
           NEW a \in Attendee, NEW row \in GuestRow,
           g[a] # None => row.amountPaid = g[a].amountPaid,
           NEW h, SavedInto(h, g, a, row)
    PROVE  RevenueOf(g) \in Nat /\ RevenueOf(h) \in Nat
           /\ RevenueOf(g) <= RevenueOf(h)
<1>1. PICK w : w = [b \in Attendee |-> IF h[b] = None THEN 0
                                       ELSE h[b].amountPaid]
  OBVIOUS
<1>2. PICK G, H : G = GuestsOf(g) /\ H = GuestsOf(h)
  OBVIOUS
<1>3. IsFiniteSet(G) /\ IsFiniteSet(H)
  BY <1>2, GuestsAreFinite
<1>4. row # None /\ h[a] = row /\ \A b \in Attendee : b # a => h[b] = g[b]
  BY GuestAssumption DEF GuestRow, SavedInto
<1>5. H = G \cup {a}
  BY <1>2, <1>4 DEF GuestsOf
<1>6. \A b \in GuestsOf(h) : w[b] = h[b].amountPaid
  BY <1>1 DEF GuestsOf
<1>7. \A b \in GuestsOf(g) : w[b] = g[b].amountPaid
  <2>1. ASSUME NEW b \in GuestsOf(g)
        PROVE  w[b] = g[b].amountPaid
    <3>1. b \in Attendee /\ g[b] # None /\ h[b] # None
      BY <1>4 DEF GuestsOf
    <3>2. w[b] = h[b].amountPaid
      BY <1>1, <3>1
    <3>3. h[b].amountPaid = g[b].amountPaid
      BY <1>4, <3>1
    <3>4. QED
      BY <3>2, <3>3
  <2>2. QED
    BY <2>1
<1>8. RevenueOf(h) = Total(w, H) /\ RevenueOf(g) = Total(w, G)
  BY <1>2, <1>6, <1>7, RevenueIsTotal
<1>9. \A b \in H : w[b] \in Nat
  <2>1. ASSUME NEW b \in H
        PROVE  w[b] \in Nat
    <3>1. b \in Attendee /\ h[b] # None /\ h[b] \in GuestRow
      BY <1>2, <1>4 DEF GuestsOf
    <3>2. h[b].amountPaid \in Price
      BY <3>1 DEF GuestRow
    <3>3. QED
      BY <1>1, <3>1, <3>2, DashboardAssumption
  <2>2. QED
    BY <2>1
<1>10. G \in SUBSET H /\ H \in SUBSET H
  BY <1>5
<1>11. Total(w, G) \in Nat /\ Total(w, H) \in Nat
  BY <1>3, <1>9, <1>10, TotalTyped
<1>12. Total(w, G) <= Total(w, H)
  <2>1. CASE a \in G
    BY <1>5, <1>11, <2>1
  <2>2. CASE a \notin G
    <3>1. a \in H /\ H \ {a} = G /\ w[a] \in Nat
      BY <1>5, <1>9, <2>2
    <3>2. Total(w, H) = w[a] + Total(w, G)
      BY <1>3, <1>9, <3>1, TotalTake
    <3>3. QED
      BY <1>11, <3>1, <3>2
  <2>3. QED
    BY <2>1, <2>2
<1>13. QED
  BY <1>8, <1>11, <1>12

\* The revenue is a number.
LEMMA RevenueIsNumber ==
    ASSUME NEW g \in [Attendee -> GuestRow \cup {None}]
    PROVE  RevenueOf(g) \in Nat
<1>1. PICK w : w = [b \in Attendee |-> g[b].amountPaid]
  OBVIOUS
<1>2. PICK G : G = GuestsOf(g)
  OBVIOUS
<1>3. \A b \in GuestsOf(g) : w[b] = g[b].amountPaid
  BY <1>1 DEF GuestsOf
<1>4. RevenueOf(g) = Total(w, G)
  BY <1>2, <1>3, RevenueIsTotal
<1>5. \A b \in G : w[b] \in Nat
  BY <1>1, <1>2, DashboardAssumption DEF GuestsOf, GuestRow
<1>6. IsFiniteSet(G) /\ G \in SUBSET G
  BY <1>2, GuestsAreFinite
<1>7. QED
  BY <1>4, <1>5, <1>6, TotalTyped

-----------------------------------------------------------------------------
(* The figures                                                             *)

\* The inductive form of the figures' type.
FiguresTyped ==
    /\ DashboardTypeOK
    /\ figure = [q \in Query |-> figure[q]]

\* A row saved is a registration's.
LEMMA SavesTyped ==
    ASSUME FiguresTyped, NEW a \in Attendee, NEW row,
           row \in [status: GuestStatus, amountPaid: Price], Saves(a, row)
    PROVE  FiguresTyped'
<1>1. /\ guests' = [guests EXCEPT ![a] = row]
      /\ saves' = IF screen # {} THEN saves + 1 ELSE 0
      /\ UNCHANGED <<screen, asked, figure>>
      /\ saves < MaxChange /\ saves \in 0..MaxChange /\ MaxChange \in Nat
  BY DashboardAssumption DEF Saves, FiguresTyped, DashboardTypeOK
<1>2. saves' \in 0..MaxChange
  BY <1>1
<1>3. guests' \in [Attendee -> [status: GuestStatus, amountPaid: Price]
                                   \cup {None}]
  BY <1>1 DEF FiguresTyped, DashboardTypeOK
<1>4. QED
  BY <1>1, <1>2, <1>3 DEF FiguresTyped, DashboardTypeOK

\* Every step keeps the types.
LEMMA FiguresStayTyped ==
    ASSUME FiguresTyped, [DashboardNext]_dashboardVars
    PROVE  FiguresTyped'
<1>1. ASSUME NEW a \in Attendee, NEW status \in {"pending", "confirmed"},
             NEW amount \in Price, SignUp(a, status, amount)
      PROVE  FiguresTyped'
  <2>1. PICK row : row = [status |-> status, amountPaid |-> amount]
    OBVIOUS
  <2>2. row \in [status: GuestStatus, amountPaid: Price] /\ Saves(a, row)
    BY <1>1, <2>1 DEF SignUp, GuestStatus
  <2>3. QED
    BY <2>2, SavesTyped
<1>2. ASSUME NEW a \in Attendee, NEW status \in GuestStatus, SaveStatus(a, status)
      PROVE  FiguresTyped'
  <2>1. PICK old, row : old = guests[a] /\ row = [old EXCEPT !.status = status]
    OBVIOUS
  <2>2. old \in [status: GuestStatus, amountPaid: Price]
    BY <1>2, <2>1 DEF SaveStatus, FiguresTyped, DashboardTypeOK
  <2>3. row \in [status: GuestStatus, amountPaid: Price] /\ Saves(a, row)
    BY <1>2, <2>1, <2>2 DEF SaveStatus
  <2>4. QED
    BY <2>3, SavesTyped
<1>3. ASSUME NEW queries \in {AnalyticsPage, PlatformOverview, CheckInPage,
                              RegistrationsPage}, Open(queries)
      PROVE  FiguresTyped'
  BY <1>3, DashboardAssumption DEF Open, FiguresTyped, DashboardTypeOK
<1>4. ASSUME NEW q \in asked, Run(q)
      PROVE  FiguresTyped'
  <2>1. q \in screen
    BY <1>4 DEF FiguresTyped, DashboardTypeOK
  <2>2. PICK n : n = Counted(q)
    OBVIOUS
  <2>3. /\ figure' = [figure EXCEPT ![q] = n] /\ asked' = asked \ {q}
        /\ UNCHANGED <<guests, screen, saves>>
    BY <1>4, <2>2 DEF Run
  <2>4. /\ figure' = [p \in Query |-> figure'[p]]
        /\ \A p \in Query : p # q => figure'[p] = figure[p]
    BY <2>3 DEF FiguresTyped
  <2>5. QED
    BY <2>1, <2>3, <2>4 DEF FiguresTyped, DashboardTypeOK
<1>5. ASSUME NEW q \in asked, CallFails(q)
      PROVE  FiguresTyped'
  <2>1. PICK call : call = {p \in screen : p[1] = q[1]}
    OBVIOUS
  <2>2. /\ figure' = [p \in Query |-> IF p \in call THEN None ELSE figure[p]]
        /\ asked' = asked \ call
        /\ UNCHANGED <<guests, screen, saves>>
    BY <1>5, <2>1 DEF CallFails
  <2>3. QED
    BY <2>2 DEF FiguresTyped, DashboardTypeOK
<1>6. CASE UNCHANGED dashboardVars
  BY <1>6 DEF dashboardVars, FiguresTyped, DashboardTypeOK
<1>7. QED
  BY <1>1, <1>2, <1>3, <1>4, <1>5, <1>6 DEF DashboardNext

\* Nobody has signed up and no page was asked for at first.
LEMMA FiguresStart == DashboardInit => FiguresTyped
BY DashboardAssumption DEF DashboardInit, FiguresTyped, DashboardTypeOK

\* How far a figure is from what it would be now.
Drift(v, now) == IF v = None THEN 0 ELSE v - now

\* What the tiles would show now.
TotalNow == Cardinality(Guests)
ConfirmedNow == Cardinality(With("confirmed"))
CheckedInNow == Cardinality(With("checked_in"))

\* How far the tiles of a page are from the truth, taken together.
DashboardDrift ==
    Drift(figure[<<"dashboard", "total">>], TotalNow)
        - Drift(figure[<<"dashboard", "confirmed">>], ConfirmedNow)
        - Drift(figure[<<"dashboard", "checkedIn">>], CheckedInNow)

AttendanceDrift ==
    Drift(figure[<<"attendance", "total">>], TotalNow)
        - Drift(figure[<<"attendance", "checkedIn">>], CheckedInNow)

\* No more than the rows saved meanwhile.
Within(n) == -saves <= n /\ n <= saves

\* A query that was answered with nothing: its call failed.
LostQuery(q) == q \notin asked /\ ~Got(q)

\* Of the queries of one call, none is answered when one is not.
CallsFailAsOne ==
    \A p, q \in screen :
        /\ p[1] = q[1] /\ p[1] \in {"dashboard", "attendance"}
        /\ LostQuery(p)
        => LostQuery(q)

FiguresAreNumbers ==
    \A q \in Query :
        Got(q) /\ q[2] \in {"total", "confirmed", "checkedIn", "revenue"}
            => figure[q] \in Nat

\* The groups that a query returned, summed, and the list.
SumIsNear(q) == Got(q) => SumOf(q) \in Nat /\ Within(SumOf(q) - TotalNow)

ListIsNear ==
    Got(<<"list", "all">>) =>
        /\ Cardinality(StillToCome) \in Nat
        /\ Within(Cardinality(StillToCome) - (TotalNow - CheckedInNow))

RevenueBehind ==
    \A call \in {"dashboard", "platform"} :
        Got(<<call, "revenue">>) => figure[<<call, "revenue">>] <= Revenue

\* The inductive invariant, at every moment of the loading of a page: what
\* has been counted has drifted no further than rows were saved.
FiguresInv ==
    /\ FiguresTyped
    /\ \A q \in asked : ~Got(q)
    /\ CallsFailAsOne
    /\ FiguresAreNumbers
    /\ Within(DashboardDrift) /\ Within(AttendanceDrift)
    /\ SumIsNear(<<"stats", "byStatus">>) /\ SumIsNear(<<"pricing", "byTier">>)
    /\ ListIsNear
    /\ RevenueBehind

-----------------------------------------------------------------------------
(* What a saved row, a query and a failed call do to the figures           *)

\* The counts are numbers, of a table.
LEMMA CountsNow ==
    /\ TotalNow = Cardinality(GuestsOf(guests))
    /\ ConfirmedNow = Cardinality(WithOf(guests, "confirmed"))
    /\ CheckedInNow = Cardinality(WithOf(guests, "checked_in"))
    /\ TotalNow \in Nat /\ ConfirmedNow \in Nat /\ CheckedInNow \in Nat
<1>1. Guests = GuestsOf(guests) /\ \A s : With(s) = WithOf(guests, s)
  BY DEF Guests, With, GuestsOf, WithOf
<1>2. QED
  BY <1>1, GuestsAreFinite DEF TotalNow, ConfirmedNow, CheckedInNow

\* And after a step they are the counts of the table it leaves.
LEMMA CountsThen ==
    /\ TotalNow' = Cardinality(GuestsOf(guests'))
    /\ ConfirmedNow' = Cardinality(WithOf(guests', "confirmed"))
    /\ CheckedInNow' = Cardinality(WithOf(guests', "checked_in"))
    /\ TotalNow' \in Nat /\ ConfirmedNow' \in Nat /\ CheckedInNow' \in Nat
<1>1. Guests' = GuestsOf(guests') /\ \A s : With(s)' = WithOf(guests', s)
  BY DEF Guests, With, GuestsOf, WithOf
<1>2. QED
  BY <1>1, GuestsAreFinite DEF TotalNow, ConfirmedNow, CheckedInNow

\* The sum of the groups that a query returned.
SumOver(w) == MapThenSumSet(LAMBDA key : w[key], DOMAIN w)

\* It is the sum over its keys.
LEMMA SumOverIsTotal == \A w : SumOver(w) = Total(w, DOMAIN w)
BY DEF SumOver, MapThenSumSet, MapThenFoldSet, Total, AddsUp, First

\* Who is still to come, on a list.
ToComeOn(list) == {a \in DOMAIN list : list[a] # "checked_in"}

\* No query has been answered.
NothingShown == \A q \in Query : ~Got(q)

\* A page without figures is not wrong.
LEMMA NoFigures ==
    FiguresTyped /\ NothingShown /\ CallsFailAsOne => FiguresInv
<1> SUFFICES ASSUME FiguresTyped, NothingShown, CallsFailAsOne
             PROVE  FiguresInv
  OBVIOUS
<1>1. saves \in Nat /\ asked \subseteq Query
  BY DashboardAssumption DEF FiguresTyped, DashboardTypeOK, Query,
     AnalyticsPage, PlatformOverview, CheckInPage, RegistrationsPage
<1>2. /\ ~Got(<<"dashboard", "total">>) /\ ~Got(<<"dashboard", "confirmed">>)
      /\ ~Got(<<"dashboard", "checkedIn">>) /\ ~Got(<<"attendance", "total">>)
      /\ ~Got(<<"attendance", "checkedIn">>) /\ ~Got(<<"stats", "byStatus">>)
      /\ ~Got(<<"pricing", "byTier">>) /\ ~Got(<<"list", "all">>)
      /\ ~Got(<<"dashboard", "revenue">>) /\ ~Got(<<"platform", "revenue">>)
  BY DEF NothingShown, Query, EventDashboard, PricingBreakdown,
     PlatformOverview, Attendance, EventStats, RegistrationList
<1>3. DashboardDrift = 0 /\ AttendanceDrift = 0
  BY <1>2 DEF DashboardDrift, AttendanceDrift, Drift, Got
<1>4. Within(DashboardDrift) /\ Within(AttendanceDrift)
  BY <1>1, <1>3 DEF Within
<1>5. ListIsNear /\ RevenueBehind /\ SumIsNear(<<"stats", "byStatus">>)
      /\ SumIsNear(<<"pricing", "byTier">>)
  BY <1>2 DEF ListIsNear, RevenueBehind, SumIsNear
<1>6. FiguresAreNumbers
  BY DEF FiguresAreNumbers, NothingShown
<1>7. QED
  BY <1>1, <1>4, <1>5, <1>6 DEF FiguresInv, NothingShown

\* Nor is it after a step.
LEMMA NoFiguresThen ==
    FiguresTyped' /\ NothingShown' /\ CallsFailAsOne' => FiguresInv'
BY NoFigures, PTL

\* No page was asked for at first.
LEMMA FiguresBegin == DashboardInit => FiguresInv
<1> SUFFICES ASSUME DashboardInit
             PROVE  FiguresInv
  OBVIOUS
<1>1. FiguresTyped
  BY FiguresStart
<1>2. NothingShown
  BY DEF DashboardInit, NothingShown, Got
<1>3. CallsFailAsOne
  BY DEF DashboardInit, CallsFailAsOne
<1>4. QED
  BY <1>1, <1>2, <1>3, NoFigures

\* What a saved row adds to the totals, the confirmed and the checked in.
Moves(t, c, k) ==
    \/ t = 1 /\ c \in 0..1 /\ k = 0
    \/ t = 0 /\ c \in -1..1 /\ k \in -1..1 /\ c + k \in -1..1

\* A sign-up, or a status saved over another.
Saveable(a, row) ==
    IF guests[a] = None THEN row.status \in {"pending", "confirmed"}
    ELSE row.amountPaid = guests[a].amountPaid

\* A save moves each count by one at most, and no two of them alike.
LEMMA SaveMoves ==
    ASSUME FiguresTyped, NEW a \in Attendee, NEW row \in GuestRow,
           Saves(a, row), Saveable(a, row)
    PROVE  \E t, c, k \in Int :
               /\ TotalNow' = TotalNow + t
               /\ ConfirmedNow' = ConfirmedNow + c
               /\ CheckedInNow' = CheckedInNow + k
               /\ Moves(t, c, k)
<1>1. PICK g, h : g = guests /\ h = guests'
  OBVIOUS
<1>2. SavedInto(h, g, a, row)
  BY <1>1 DEF FiguresTyped, DashboardTypeOK, Saves, SavedInto
<1>3. PICK t, c, k :
          /\ t = 1 - (IF g[a] # None THEN 1 ELSE 0)
          /\ c = (IF row.status = "confirmed" THEN 1 ELSE 0)
                     - (IF g[a] # None /\ g[a].status = "confirmed" THEN 1 ELSE 0)
          /\ k = (IF row.status = "checked_in" THEN 1 ELSE 0)
                     - (IF g[a] # None /\ g[a].status = "checked_in" THEN 1 ELSE 0)
  OBVIOUS
<1>4. /\ Cardinality(GuestsOf(h))
             = Cardinality(GuestsOf(g)) + 1 - (IF g[a] # None THEN 1 ELSE 0)
      /\ \A s : Cardinality(WithOf(h, s))
                    = Cardinality(WithOf(g, s)) + (IF row.status = s THEN 1 ELSE 0)
                          - (IF g[a] # None /\ g[a].status = s THEN 1 ELSE 0)
  BY <1>2, RowCounts
<1>6. t \in Int /\ c \in Int /\ k \in Int
  BY <1>3
<1>7. TotalNow' = TotalNow + t
  <2>1. Cardinality(GuestsOf(g)) \in Nat /\ (IF g[a] # None THEN 1 ELSE 0) \in Int
    BY GuestsAreFinite DEF One
  <2>2. QED
    BY <1>1, <1>3, <1>4, <2>1, CountsNow, CountsThen
<1>8. ConfirmedNow' = ConfirmedNow + c
  <2>1. /\ Cardinality(WithOf(g, "confirmed")) \in Nat
        /\ (IF row.status = "confirmed" THEN 1 ELSE 0) \in Int
        /\ (IF g[a] # None /\ g[a].status = "confirmed" THEN 1 ELSE 0) \in Int
    BY GuestsAreFinite DEF One
  <2>2. QED
    BY <1>1, <1>3, <1>4, <2>1, CountsNow, CountsThen
<1>9. CheckedInNow' = CheckedInNow + k
  <2>1. /\ Cardinality(WithOf(g, "checked_in")) \in Nat
        /\ (IF row.status = "checked_in" THEN 1 ELSE 0) \in Int
        /\ (IF g[a] # None /\ g[a].status = "checked_in" THEN 1 ELSE 0) \in Int
    BY GuestsAreFinite DEF One
  <2>2. QED
    BY <1>1, <1>3, <1>4, <2>1, CountsNow, CountsThen
<1>10. Moves(t, c, k)
  <2>1. CASE g[a] = None
    <3>1. row.status \in {"pending", "confirmed"}
      BY <1>1, <2>1 DEF Saveable
    <3>2. t = 1 /\ k = 0 /\ c \in 0..1
      BY <1>3, <2>1, <3>1 DEF One
    <3>3. QED
      BY <3>2 DEF Moves
  <2>2. CASE g[a] # None
    <3>1. t = 0
      BY <1>3, <2>2 DEF One
    <3>2. c \in -1..1 /\ k \in -1..1 /\ c + k \in -1..1
      BY <1>3, <2>2 DEF One
    <3>3. QED
      BY <3>1, <3>2 DEF Moves
  <2>3. QED
    BY <2>1, <2>2
<1>11. QED
  BY <1>6, <1>7, <1>8, <1>9, <1>10

\* A figure drifts by what is added to its count, if it has been counted.
LEMMA DriftMoves ==
    ASSUME NEW v \in Nat \cup {None}, NEW now \in Nat, NEW d \in Int
    PROVE  /\ Drift(v, now) \in Int
           /\ \E D \in {0, d} : Drift(v, now + d) = Drift(v, now) - D
<1>1. CASE v = None
  <2>1. Drift(v, now) = 0 /\ Drift(v, now + d) = 0
    BY <1>1 DEF Drift
  <2>2. 0 \in {0, d} /\ 0 = 0 - 0
    OBVIOUS
  <2>3. QED
    BY <2>1, <2>2
<1>2. CASE v # None
  <2>1. v \in Nat
    BY <1>2
  <2>2. Drift(v, now) = v - now /\ Drift(v, now + d) = v - now - d
    BY <1>2, <2>1 DEF Drift
  <2>3. QED
    BY <2>1, <2>2
<1>3. QED
  BY <1>1, <1>2

\* The figures of the tiles are numbers, or not there.
LEMMA TileValues ==
    ASSUME FiguresInv
    PROVE  /\ figure[<<"dashboard", "total">>] \in Nat \cup {None}
           /\ figure[<<"dashboard", "confirmed">>] \in Nat \cup {None}
           /\ figure[<<"dashboard", "checkedIn">>] \in Nat \cup {None}
           /\ figure[<<"attendance", "total">>] \in Nat \cup {None}
           /\ figure[<<"attendance", "checkedIn">>] \in Nat \cup {None}
<1>1. /\ <<"dashboard", "total">> \in Query
      /\ <<"dashboard", "confirmed">> \in Query
      /\ <<"dashboard", "checkedIn">> \in Query
      /\ <<"attendance", "total">> \in Query
      /\ <<"attendance", "checkedIn">> \in Query
  BY DEF Query, EventDashboard, Attendance
<1>2. QED
  BY <1>1 DEF FiguresInv, FiguresAreNumbers, Got

\* The revenue of a page is that of its table.
LEMMA RevenueNow ==
    Revenue = RevenueOf(guests) /\ Revenue' = RevenueOf(guests')
BY DEF Revenue, RevenueOf, Guests, GuestsOf, MapThenSumSet, MapThenFoldSet

\* The sum on a page is that of what its query returned.
LEMMA SumNow ==
    ASSUME NEW q
    PROVE  SumOf(q) = SumOver(figure[q]) /\ SumOf(q)' = SumOver(figure'[q])
BY DEF SumOf, SumOver, MapThenSumSet, MapThenFoldSet

\* A save takes no figure further from the truth than itself.
LEMMA SavedRow ==
    ASSUME FiguresInv, NEW a \in Attendee, NEW row \in GuestRow,
           Saves(a, row), Saveable(a, row)
    PROVE  FiguresInv'
<1>1. /\ UNCHANGED <<screen, asked, figure>>
      /\ guests' = [guests EXCEPT ![a] = row]
      /\ saves' = IF screen # {} THEN saves + 1 ELSE 0
      /\ saves \in Nat
  BY DashboardAssumption DEF Saves, FiguresInv, FiguresTyped, DashboardTypeOK
<1>2. FiguresTyped'
  BY SavesTyped DEF FiguresInv, GuestRow
<1>3. CallsFailAsOne'
  BY <1>1 DEF FiguresInv, CallsFailAsOne, LostQuery, Got
<1>4. \A q : Got(q)' <=> Got(q)
  BY <1>1 DEF Got
<1>5. CASE screen = {}
  <2>1. \A q \in Query : ~Got(q)
    BY <1>5 DEF FiguresInv, FiguresTyped, DashboardTypeOK, Got
  <2>2. NothingShown'
    BY <1>4, <2>1 DEF NothingShown
  <2>3. QED
    BY <1>2, <1>3, <2>2, NoFiguresThen
<1>6. CASE screen # {}
  <2>1. saves' = saves + 1
    BY <1>1, <1>6
  <2>2. PICK t, c, k \in Int :
            /\ TotalNow' = TotalNow + t
            /\ ConfirmedNow' = ConfirmedNow + c
            /\ CheckedInNow' = CheckedInNow + k
            /\ Moves(t, c, k)
    BY SaveMoves DEF FiguresInv
  <2>3. Within(DashboardDrift)'
    <3>1. PICK v1, v2, v3, n1, n2, n3 :
              /\ v1 = figure[<<"dashboard", "total">>] /\ n1 = TotalNow
              /\ v2 = figure[<<"dashboard", "confirmed">>] /\ n2 = ConfirmedNow
              /\ v3 = figure[<<"dashboard", "checkedIn">>] /\ n3 = CheckedInNow
      OBVIOUS
    <3>2. /\ v1 \in Nat \cup {None} /\ v2 \in Nat \cup {None}
          /\ v3 \in Nat \cup {None}
          /\ n1 \in Nat /\ n2 \in Nat /\ n3 \in Nat
      BY <3>1, TileValues, CountsNow
    <3>3. PICK T \in {0, t} : Drift(v1, n1 + t) = Drift(v1, n1) - T
      BY <3>2, DriftMoves
    <3>4. PICK C \in {0, c} : Drift(v2, n2 + c) = Drift(v2, n2) - C
      BY <3>2, DriftMoves
    <3>5. PICK K \in {0, k} : Drift(v3, n3 + k) = Drift(v3, n3) - K
      BY <3>2, DriftMoves
    <3>6. /\ Drift(v1, n1) \in Int /\ Drift(v2, n2) \in Int
          /\ Drift(v3, n3) \in Int
      BY <3>2, DriftMoves
    <3>7. DashboardDrift = Drift(v1, n1) - Drift(v2, n2) - Drift(v3, n3)
      BY <3>1 DEF DashboardDrift
    <3>8. DashboardDrift'
              = Drift(v1, n1 + t) - Drift(v2, n2 + c) - Drift(v3, n3 + k)
      BY <1>1, <2>2, <3>1 DEF DashboardDrift
    <3>9. -1 <= C + K - T /\ C + K - T <= 1
      BY <2>2 DEF Moves
    <3>10. T \in Int /\ C \in Int /\ K \in Int
      OBVIOUS
    <3>11. -saves <= DashboardDrift /\ DashboardDrift <= saves
      BY DEF FiguresInv, Within
    <3>12. -saves' <= DashboardDrift' /\ DashboardDrift' <= saves'
      BY <1>1, <2>1, <3>3, <3>4, <3>5, <3>6, <3>7, <3>8, <3>9, <3>10, <3>11
    <3>13. QED
      BY <3>12 DEF Within
  <2>4. Within(AttendanceDrift)'
    <3>1. PICK v1, v3, n1, n3 :
              /\ v1 = figure[<<"attendance", "total">>] /\ n1 = TotalNow
              /\ v3 = figure[<<"attendance", "checkedIn">>]
              /\ n3 = CheckedInNow
      OBVIOUS
    <3>2. /\ v1 \in Nat \cup {None} /\ v3 \in Nat \cup {None}
          /\ n1 \in Nat /\ n3 \in Nat
      BY <3>1, TileValues, CountsNow
    <3>3. PICK T \in {0, t} : Drift(v1, n1 + t) = Drift(v1, n1) - T
      BY <3>2, DriftMoves
    <3>5. PICK K \in {0, k} : Drift(v3, n3 + k) = Drift(v3, n3) - K
      BY <3>2, DriftMoves
    <3>6. Drift(v1, n1) \in Int /\ Drift(v3, n3) \in Int
      BY <3>2, DriftMoves
    <3>7. AttendanceDrift = Drift(v1, n1) - Drift(v3, n3)
      BY <3>1 DEF AttendanceDrift
    <3>8. AttendanceDrift' = Drift(v1, n1 + t) - Drift(v3, n3 + k)
      BY <1>1, <2>2, <3>1 DEF AttendanceDrift
    <3>9. -1 <= K - T /\ K - T <= 1
      BY <2>2 DEF Moves
    <3>10. T \in Int /\ K \in Int
      OBVIOUS
    <3>11. -saves <= AttendanceDrift /\ AttendanceDrift <= saves
      BY DEF FiguresInv, Within
    <3>12. -saves' <= AttendanceDrift' /\ AttendanceDrift' <= saves'
      BY <1>1, <2>1, <3>3, <3>5, <3>6, <3>7, <3>8, <3>9, <3>10, <3>11
    <3>13. QED
      BY <3>12 DEF Within
  <2>5. ASSUME NEW q, SumIsNear(q)
        PROVE  SumIsNear(q)'
    <3>1. SumOf(q)' = SumOf(q)
      BY <1>1, SumNow
    <3>2. CASE Got(q)
      <4>1. PICK n : n = SumOf(q)
        OBVIOUS
      <4>2. n \in Nat /\ -saves <= n - TotalNow /\ n - TotalNow <= saves
        BY <2>5, <3>2, <4>1 DEF SumIsNear, Within
      <4>3. t \in 0..1
        BY <2>2 DEF Moves
      <4>4. -saves' <= n - TotalNow' /\ n - TotalNow' <= saves'
        BY <1>1, <2>1, <2>2, <4>2, <4>3, CountsNow
      <4>5. QED
        BY <3>1, <4>1, <4>2, <4>4 DEF SumIsNear, Within
    <3>3. QED
      BY <1>4, <3>2 DEF SumIsNear
  <2>6. ListIsNear'
    <3>1. StillToCome' = StillToCome
      BY <1>1 DEF StillToCome
    <3>2. CASE Got(<<"list", "all">>)
      <4>1. PICK n : n = Cardinality(StillToCome)
        OBVIOUS
      <4>2. /\ n \in Nat /\ -saves <= n - (TotalNow - CheckedInNow)
            /\ n - (TotalNow - CheckedInNow) <= saves
        BY <3>2, <4>1 DEF FiguresInv, ListIsNear, Within
      <4>3. -1 <= k - t /\ k - t <= 1
        BY <2>2 DEF Moves
      <4>4. /\ -saves' <= n - (TotalNow' - CheckedInNow')
            /\ n - (TotalNow' - CheckedInNow') <= saves'
        BY <1>1, <2>1, <2>2, <4>2, <4>3, CountsNow
      <4>5. QED
        BY <3>1, <4>1, <4>2, <4>4 DEF ListIsNear, Within
    <3>3. QED
      BY <1>4, <3>2 DEF ListIsNear
  <2>7. RevenueBehind'
    <3>1. PICK g, h : g = guests /\ h = guests'
      OBVIOUS
    <3>2. /\ g \in [Attendee -> GuestRow \cup {None}]
          /\ SavedInto(h, g, a, row)
      BY <1>1, <3>1 DEF FiguresInv, FiguresTyped, DashboardTypeOK, GuestRow,
         SavedInto
    <3>3. g[a] # None => row.amountPaid = g[a].amountPaid
      BY <3>1 DEF Saveable
    <3>4. /\ RevenueOf(g) \in Nat /\ RevenueOf(h) \in Nat
          /\ RevenueOf(g) <= RevenueOf(h)
      BY <3>2, <3>3, RevenueGrows
    <3>5. Revenue = RevenueOf(g) /\ Revenue' = RevenueOf(h)
      BY <3>1, RevenueNow
    <3>6. ASSUME NEW call \in {"dashboard", "platform"},
                 Got(<<call, "revenue">>)
          PROVE  figure[<<call, "revenue">>] <= Revenue'
      <4>1. <<call, "revenue">> \in Query
        BY DEF Query, EventDashboard, PlatformOverview
      <4>2. figure[<<call, "revenue">>] \in Nat
        BY <3>6, <4>1 DEF FiguresInv, FiguresAreNumbers
      <4>3. figure[<<call, "revenue">>] <= Revenue
        BY <3>6 DEF FiguresInv, RevenueBehind
      <4>4. QED
        BY <3>4, <3>5, <4>2, <4>3
    <3>7. QED
      BY <1>1, <1>4, <3>6 DEF RevenueBehind
  <2>8. /\ (\A q \in asked : ~Got(q))'
        /\ FiguresAreNumbers'
    BY <1>1, <1>4 DEF FiguresInv, FiguresAreNumbers
  <2>9. QED
    BY <1>2, <1>3, <2>3, <2>4, <2>5, <2>6, <2>7, <2>8 DEF FiguresInv
<1>7. QED
  BY <1>5, <1>6

\* The queries, one by one.
LEMMA Queries ==
    Query = {<<"dashboard", "total">>, <<"dashboard", "confirmed">>,
             <<"dashboard", "checkedIn">>, <<"dashboard", "revenue">>,
             <<"pricing", "byTier">>, <<"platform", "total">>,
             <<"platform", "revenue">>, <<"attendance", "total">>,
             <<"attendance", "checkedIn">>, <<"stats", "byStatus">>,
             <<"list", "all">>}
BY DEF Query, EventDashboard, PricingBreakdown, PlatformOverview, Attendance,
   EventStats, RegistrationList

\* What a query returns, whoever asks.
LEMMA QueriesReturn ==
    /\ \A call : /\ Counted(<<call, "total">>) = TotalNow
                 /\ Counted(<<call, "confirmed">>) = ConfirmedNow
                 /\ Counted(<<call, "checkedIn">>) = CheckedInNow
                 /\ Counted(<<call, "revenue">>) = Revenue
    /\ Counted(<<"stats", "byStatus">>)
           = [s \in GuestStatus |-> Cardinality(With(s))]
    /\ Counted(<<"pricing", "byTier">>)
           = [p \in Price |-> Cardinality({a \in Guests :
                                              guests[a].amountPaid = p})]
    /\ Counted(<<"list", "all">>) = [a \in Guests |-> guests[a].status]
<1>1. ASSUME NEW call
      PROVE  /\ Counted(<<call, "total">>) = TotalNow
             /\ Counted(<<call, "confirmed">>) = ConfirmedNow
             /\ Counted(<<call, "checkedIn">>) = CheckedInNow
             /\ Counted(<<call, "revenue">>) = Revenue
  BY DEF Counted, Number, TotalNow, ConfirmedNow, CheckedInNow
<1>2. Counted(<<"stats", "byStatus">>)
          = [s \in GuestStatus |-> Cardinality(With(s))]
  BY DEF Counted, Table
<1>3. Counted(<<"pricing", "byTier">>)
          = [p \in Price |-> Cardinality({a \in Guests :
                                             guests[a].amountPaid = p})]
  BY DEF Counted, Table
<1>4. Counted(<<"list", "all">>) = [a \in Guests |-> guests[a].status]
  BY DEF Counted, Table
<1>5. QED
  BY <1>1, <1>2, <1>3, <1>4

\* A figure of a query that runs is exact, and the others keep their drift.
LEMMA DriftStays ==
    ASSUME NEW v, NEW w, NEW now \in Nat,
           w = v \/ (v = None /\ w = now)
    PROVE  Drift(w, now) = Drift(v, now)
<1>1. CASE w = v
  BY <1>1
<1>2. CASE v = None /\ w = now
  <2>1. now # None
    BY DashboardAssumption
  <2>2. Drift(v, now) = 0 /\ Drift(w, now) = 0
    BY <1>2, <2>1 DEF Drift
  <2>3. QED
    BY <2>2
<1>3. QED
  BY <1>1, <1>2

\* The statuses are finitely many.
LEMMA StatusesAreFinite == IsFiniteSet(GuestStatus)
<1>1. GuestStatus = (({"pending"} \cup {"confirmed"}) \cup {"cancelled"})
                        \cup {"checked_in"}
  BY DEF GuestStatus
<1>2. IsFiniteSet({"pending"} \cup {"confirmed"})
  BY FS_Singleton, FS_AddElement
<1>3. IsFiniteSet(({"pending"} \cup {"confirmed"}) \cup {"cancelled"})
  BY <1>2, FS_AddElement
<1>4. QED
  BY <1>1, <1>3, FS_AddElement

\* The registrations of each status, and of each amount, are together those
\* there are.
LEMMA SumsAreExact ==
    ASSUME FiguresTyped
    PROVE  /\ SumOver(Counted(<<"stats", "byStatus">>)) = TotalNow
           /\ SumOver(Counted(<<"pricing", "byTier">>)) = TotalNow
<1>1. \A a \in Guests : guests[a] \in GuestRow
  BY DEF FiguresTyped, DashboardTypeOK, Guests, GuestRow
<1>2. PICK G : G = Guests
  OBVIOUS
<1>3. IsFiniteSet(G)
  <2>1. G = GuestsOf(guests)
    BY <1>2 DEF Guests, GuestsOf
  <2>2. QED
    BY <2>1, GuestsAreFinite
<1>4. SumOver(Counted(<<"stats", "byStatus">>)) = TotalNow
  <2>1. PICK w, key : /\ w = Counted(<<"stats", "byStatus">>)
                      /\ key = [a \in G |-> guests[a].status]
    OBVIOUS
  <2>2. \A s \in GuestStatus : With(s) = {a \in G : key[a] = s}
    BY <1>2, <2>1 DEF With
  <2>3. w = [s \in GuestStatus |-> Cardinality({a \in G : key[a] = s})]
    BY <2>1, <2>2, QueriesReturn
  <2>4. \A a \in G : key[a] \in GuestStatus
    BY <1>1, <1>2, <2>1 DEF GuestRow
  <2>5. Total(w, GuestStatus) = Cardinality(G)
    BY <1>3, <2>3, <2>4, StatusesAreFinite, GroupsAddUp
  <2>6. DOMAIN w = GuestStatus
    BY <2>3
  <2>7. QED
    BY <1>2, <2>1, <2>5, <2>6, SumOverIsTotal DEF TotalNow
<1>5. SumOver(Counted(<<"pricing", "byTier">>)) = TotalNow
  <2>1. PICK w, key : /\ w = Counted(<<"pricing", "byTier">>)
                      /\ key = [a \in G |-> guests[a].amountPaid]
    OBVIOUS
  <2>2. \A p \in Price : {a \in Guests : guests[a].amountPaid = p}
                             = {a \in G : key[a] = p}
    BY <1>2, <2>1
  <2>3. w = [p \in Price |-> Cardinality({a \in G : key[a] = p})]
    BY <2>1, <2>2, QueriesReturn
  <2>4. \A a \in G : key[a] \in Price
    BY <1>1, <1>2, <2>1 DEF GuestRow
  <2>5. IsFiniteSet(Price)
    BY DashboardAssumption
  <2>6. Total(w, Price) = Cardinality(G)
    BY <1>3, <2>3, <2>4, <2>5, GroupsAddUp
  <2>7. DOMAIN w = Price
    BY <2>3
  <2>8. QED
    BY <1>2, <2>1, <2>6, <2>7, SumOverIsTotal DEF TotalNow
<1>6. QED
  BY <1>4, <1>5

\* Those who are not checked in, and those who are neither confirmed nor
\* checked in.
LEMMA OthersCounted ==
    ASSUME FiguresTyped
    PROVE  /\ Cardinality(Guests \ With("checked_in"))
                  = TotalNow - CheckedInNow
           /\ Cardinality(With("pending") \cup With("cancelled"))
                  = TotalNow - ConfirmedNow - CheckedInNow
<1>1. PICK G, C, K, A, O : /\ G = Guests /\ C = With("confirmed")
                           /\ K = With("checked_in")
                           /\ A = Guests \ With("checked_in")
                           /\ O = With("pending") \cup With("cancelled")
  OBVIOUS
<1>2. /\ C \subseteq A /\ O \subseteq A /\ C \cup O = A /\ C \cap O = {}
      /\ A \cup K = G /\ A \cap K = {} /\ A \subseteq G /\ K \subseteq G
  <2>1. \A a \in Guests : guests[a].status \in GuestStatus
    BY DEF FiguresTyped, DashboardTypeOK, Guests
  <2>2. QED
    BY <1>1, <2>1 DEF With, GuestStatus
<1>3. IsFiniteSet(G)
  <2>1. G = GuestsOf(guests)
    BY <1>1 DEF Guests, GuestsOf
  <2>2. QED
    BY <2>1, GuestsAreFinite
<1>4. /\ IsFiniteSet(A) /\ IsFiniteSet(K) /\ IsFiniteSet(C) /\ IsFiniteSet(O)
  <2>1. A \in SUBSET G /\ K \in SUBSET G /\ C \in SUBSET G /\ O \in SUBSET G
    BY <1>2
  <2>2. QED
    BY <1>3, <2>1, FS_Subset
<1>5. /\ Cardinality(A) \in Nat /\ Cardinality(K) \in Nat
      /\ Cardinality(C) \in Nat /\ Cardinality(O) \in Nat
  BY <1>4, FS_CardinalityType
<1>6. Cardinality(G) = Cardinality(A) + Cardinality(K)
  <2>1. Cardinality(A \cup K)
            = Cardinality(A) + Cardinality(K) - Cardinality(A \cap K)
    BY <1>4, FS_Union
  <2>2. Cardinality(A \cap K) = 0
    BY <1>2, FS_EmptySet
  <2>3. QED
    BY <1>2, <1>5, <2>1, <2>2
<1>7. Cardinality(A) = Cardinality(C) + Cardinality(O)
  <2>0. Cardinality(C \cup O) = Cardinality(A)
    BY <1>2
  <2>1. Cardinality(C \cup O)
            = Cardinality(C) + Cardinality(O) - Cardinality(C \cap O)
    BY <1>4, FS_Union
  <2>2. Cardinality(C \cap O) = 0
    BY <1>2, FS_EmptySet
  <2>3. QED
    BY <1>5, <2>0, <2>1, <2>2
<1>8. /\ TotalNow = Cardinality(G) /\ ConfirmedNow = Cardinality(C)
      /\ CheckedInNow = Cardinality(K)
  BY <1>1 DEF TotalNow, ConfirmedNow, CheckedInNow
<1>9. QED
  BY <1>1, <1>5, <1>6, <1>7, <1>8

\* A query that runs finds what is true at that moment.
LEMMA RunKeepsFigures ==
    ASSUME FiguresInv, FiguresTyped', NEW q \in asked, Run(q)
    PROVE  FiguresInv'
<1>1. PICK n : n = Counted(q)
  OBVIOUS
<1>2. /\ figure' = [figure EXCEPT ![q] = n] /\ asked' = asked \ {q}
      /\ UNCHANGED <<guests, screen, saves>>
  BY <1>1 DEF Run
<1>3. /\ q \in screen /\ q \in Query /\ ~Got(q) /\ saves \in Nat
      /\ figure = [p \in Query |-> figure[p]]
  <2>1. q \in screen /\ \A p \in {q} : ~Got(p)
    BY DEF FiguresInv, FiguresTyped, DashboardTypeOK
  <2>2. screen \subseteq Query
    BY DEF FiguresInv, FiguresTyped, DashboardTypeOK, Query,
       AnalyticsPage, PlatformOverview, CheckInPage, RegistrationsPage
  <2>3. QED
    BY <2>1, <2>2, DashboardAssumption DEF FiguresInv, FiguresTyped,
       DashboardTypeOK
<1>4. figure'[q] = n /\ \A p \in Query : p # q => figure'[p] = figure[p]
  BY <1>2, <1>3
<1>5. /\ Guests' = Guests /\ TotalNow' = TotalNow
      /\ ConfirmedNow' = ConfirmedNow /\ CheckedInNow' = CheckedInNow
      /\ TotalNow \in Nat /\ ConfirmedNow \in Nat /\ CheckedInNow \in Nat
      /\ Revenue' = Revenue /\ Revenue \in Nat
  <2>1. guests' = guests
    BY <1>2
  <2>2. guests \in [Attendee -> GuestRow \cup {None}]
    BY DEF FiguresInv, FiguresTyped, DashboardTypeOK, GuestRow
  <2>3. RevenueOf(guests) \in Nat
    BY <2>2, RevenueIsNumber
  <2>4. Guests' = Guests
    BY <2>1 DEF Guests
  <2>5. QED
    BY <2>1, <2>3, <2>4, CountsNow, CountsThen, RevenueNow
<1>6. q[2] \in {"total", "confirmed", "checkedIn", "revenue"} => n \in Nat
  BY <1>1, <1>3, <1>5, QueriesReturn, Queries
<1>7. (\A p \in asked : ~Got(p))'
  <2>1. ASSUME NEW p \in asked, p # q
        PROVE  figure'[p] = None
    <3>1. p \in Query /\ figure[p] = None
      BY DEF FiguresInv, FiguresTyped, DashboardTypeOK, Query, Got,
         AnalyticsPage, PlatformOverview, CheckInPage, RegistrationsPage
    <3>2. QED
      BY <1>4, <2>1, <3>1
  <2>2. QED
    BY <1>2, <2>1 DEF Got
<1>8. CallsFailAsOne'
  <2>1. SUFFICES ASSUME NEW p \in screen, NEW r \in screen, p[1] = r[1],
                        p[1] \in {"dashboard", "attendance"}, LostQuery(p)'
                 PROVE  LostQuery(r)'
    BY <1>2 DEF CallsFailAsOne
  <2>2. p \in Query /\ r \in Query
    BY DEF FiguresInv, FiguresTyped, DashboardTypeOK, Query,
       AnalyticsPage, PlatformOverview, CheckInPage, RegistrationsPage
  <2>3. p # q
    <3>1. ASSUME p = q
          PROVE  FALSE
      <4>1. q[2] \in {"total", "confirmed", "checkedIn", "revenue"}
        BY <1>3, <2>1, <3>1, Queries
      <4>2. n # None
        BY <1>6, <4>1, DashboardAssumption
      <4>3. QED
        BY <1>4, <2>1, <3>1, <4>2 DEF LostQuery, Got
    <3>2. QED
      BY <3>1
  <2>4. LostQuery(p)
    BY <1>2, <1>4, <2>1, <2>2, <2>3 DEF LostQuery, Got
  <2>5. LostQuery(r)
    BY <2>1, <2>4 DEF FiguresInv, CallsFailAsOne
  <2>6. r # q
    BY <2>5 DEF LostQuery
  <2>7. QED
    BY <1>2, <1>4, <2>2, <2>5, <2>6 DEF LostQuery, Got
<1>9. FiguresAreNumbers'
  <2>1. SUFFICES ASSUME NEW p \in Query, Got(p)',
                        p[2] \in {"total", "confirmed", "checkedIn", "revenue"}
                 PROVE  figure'[p] \in Nat
    BY DEF FiguresAreNumbers
  <2>2. CASE p = q
    BY <1>4, <1>6, <2>1, <2>2
  <2>3. CASE p # q
    BY <1>4, <2>1, <2>3 DEF FiguresInv, FiguresAreNumbers, Got
  <2>4. QED
    BY <2>2, <2>3
<1>10. ASSUME NEW p \in Query, NEW now \in Nat, Counted(p) = now
       PROVE  Drift(figure'[p], now) = Drift(figure[p], now)
  <2>1. figure'[p] = figure[p] \/ (figure[p] = None /\ figure'[p] = now)
    BY <1>1, <1>3, <1>4, <1>10 DEF Got
  <2>2. QED
    BY <2>1, DriftStays
<1>11. Within(DashboardDrift)'
  <2>1. /\ <<"dashboard", "total">> \in Query
        /\ <<"dashboard", "confirmed">> \in Query
        /\ <<"dashboard", "checkedIn">> \in Query
    BY Queries
  <2>2. DashboardDrift' = DashboardDrift
    BY <1>5, <1>10, <2>1, QueriesReturn DEF DashboardDrift
  <2>3. QED
    BY <1>2, <2>2 DEF FiguresInv, Within
<1>12. Within(AttendanceDrift)'
  <2>1. /\ <<"attendance", "total">> \in Query
        /\ <<"attendance", "checkedIn">> \in Query
    BY Queries
  <2>2. AttendanceDrift' = AttendanceDrift
    BY <1>5, <1>10, <2>1, QueriesReturn DEF AttendanceDrift
  <2>3. QED
    BY <1>2, <2>2 DEF FiguresInv, Within
<1>13. ASSUME NEW p \in Query, SumIsNear(p),
              SumOver(Counted(p)) = TotalNow
       PROVE  SumIsNear(p)'
  <2>1. CASE p = q
    <3>1. SumOf(p)' = TotalNow'
      BY <1>1, <1>4, <1>5, <1>13, <2>1, SumNow
    <3>2. PICK t : t = TotalNow
      OBVIOUS
    <3>3. t - t = 0 /\ -saves <= 0 /\ 0 <= saves
      BY <1>3, <1>5, <3>2
    <3>4. QED
      BY <1>2, <1>5, <3>1, <3>2, <3>3 DEF SumIsNear, Within
  <2>2. CASE p # q
    <3>1. figure'[p] = figure[p]
      BY <1>4, <2>2
    <3>2. SumOf(p)' = SumOf(p)
      BY <3>1, SumNow
    <3>3. QED
      BY <1>2, <1>5, <1>13, <3>1, <3>2 DEF SumIsNear, Within, Got
  <2>3. QED
    BY <2>1, <2>2
<1>14. /\ SumIsNear(<<"stats", "byStatus">>)'
       /\ SumIsNear(<<"pricing", "byTier">>)'
  <2>1. <<"stats", "byStatus">> \in Query /\ <<"pricing", "byTier">> \in Query
    BY Queries
  <2>2. FiguresTyped
    BY DEF FiguresInv
  <2>3. /\ SumOver(Counted(<<"stats", "byStatus">>)) = TotalNow
        /\ SumOver(Counted(<<"pricing", "byTier">>)) = TotalNow
    BY <2>2, SumsAreExact
  <2>4. QED
    BY <1>13, <2>1, <2>3 DEF FiguresInv
<1>15. ListIsNear'
  <2>1. PICK l : l = <<"list", "all">>
    OBVIOUS
  <2>2. l \in Query
    BY <2>1, Queries
  <2>3. CASE l = q
    <3>1. figure'[l] = [a \in Guests |-> guests[a].status]
      BY <1>1, <1>4, <2>1, <2>3, QueriesReturn
    <3>2. StillToCome' = Guests \ With("checked_in")
      BY <2>1, <3>1 DEF StillToCome, With
    <3>3. Cardinality(StillToCome)' = TotalNow - CheckedInNow
      BY <3>2, OthersCounted DEF FiguresInv
    <3>4. Cardinality(StillToCome)' \in Nat
      <4>1. Guests \in SUBSET Attendee
        BY DEF Guests
      <4>2. StillToCome' \in SUBSET Attendee
        BY <3>2, <4>1
      <4>3. QED
        BY <4>2, DashboardAssumption, FS_Subset, FS_CardinalityType
    <3>5. PICK t : t = TotalNow - CheckedInNow
      OBVIOUS
    <3>6. t \in Int /\ t - t = 0 /\ -saves <= 0 /\ 0 <= saves
      BY <1>3, <1>5, <3>5
    <3>7. QED
      BY <1>2, <1>5, <3>3, <3>4, <3>5, <3>6 DEF ListIsNear, Within
  <2>4. CASE l # q
    <3>1. figure'[l] = figure[l]
      BY <1>4, <2>2, <2>4
    <3>2. StillToCome' = StillToCome
      BY <2>1, <3>1 DEF StillToCome
    <3>3. QED
      BY <1>2, <1>5, <2>1, <3>1, <3>2 DEF FiguresInv, ListIsNear, Within, Got
  <2>5. QED
    BY <2>3, <2>4
<1>16. RevenueBehind'
  <2>1. SUFFICES ASSUME NEW call \in {"dashboard", "platform"},
                        Got(<<call, "revenue">>)'
                 PROVE  figure'[<<call, "revenue">>] <= Revenue'
    BY DEF RevenueBehind
  <2>2. PICK p : p = <<call, "revenue">>
    OBVIOUS
  <2>3. p \in Query
    BY <2>2, Queries
  <2>4. CASE p = q
    BY <1>1, <1>4, <1>5, <2>2, <2>4, QueriesReturn
  <2>5. CASE p # q
    BY <1>4, <1>5, <2>1, <2>2, <2>3, <2>5 DEF FiguresInv, RevenueBehind, Got
  <2>6. QED
    BY <2>2, <2>4, <2>5
<1>17. QED
  BY <1>7, <1>8, <1>9, <1>11, <1>12, <1>14, <1>15, <1>16 DEF FiguresInv

\* What a call that fails takes away is not wrong, and not missed by half.
LEMMA FailureKeepsFigures ==
    ASSUME FiguresInv, FiguresTyped', NEW q \in asked, CallFails(q)
    PROVE  FiguresInv'
<1>1. PICK call : call = {p \in screen : p[1] = q[1]}
  OBVIOUS
<1>2. /\ figure' = [p \in Query |-> IF p \in call THEN None ELSE figure[p]]
      /\ asked' = asked \ call
      /\ UNCHANGED <<guests, screen, saves>>
  BY <1>1 DEF CallFails
<1>3. screen \subseteq Query /\ saves \in Nat
  BY DashboardAssumption DEF FiguresInv, FiguresTyped, DashboardTypeOK, Query,
     AnalyticsPage, PlatformOverview, CheckInPage, RegistrationsPage
<1>4. \A p \in Query : /\ figure'[p] = None \/ figure'[p] = figure[p]
                       /\ p \notin call => figure'[p] = figure[p]
                       /\ Got(p)' => Got(p) /\ figure'[p] = figure[p]
  BY <1>2 DEF Got
<1>5. /\ TotalNow' = TotalNow /\ ConfirmedNow' = ConfirmedNow
      /\ CheckedInNow' = CheckedInNow /\ Revenue' = Revenue
  BY <1>2, CountsNow, CountsThen, RevenueNow
<1>6. (\A p \in asked : ~Got(p))'
  <2>1. ASSUME NEW p \in asked
        PROVE  figure'[p] = None
    <3>1. p \in Query /\ figure[p] = None
      BY <1>3 DEF FiguresInv, FiguresTyped, DashboardTypeOK, Got
    <3>2. QED
      BY <1>4, <3>1
  <2>2. QED
    BY <1>2, <2>1 DEF Got
<1>7. CallsFailAsOne'
  <2>1. SUFFICES ASSUME NEW p \in screen, NEW r \in screen, p[1] = r[1],
                        p[1] \in {"dashboard", "attendance"}, LostQuery(p)'
                 PROVE  LostQuery(r)'
    BY <1>2 DEF CallsFailAsOne
  <2>2. CASE p[1] = q[1]
    <3>1. r \in call /\ r \in Query
      BY <1>1, <1>3, <2>1, <2>2
    <3>2. QED
      BY <1>2, <3>1 DEF LostQuery, Got
  <2>3. CASE p[1] # q[1]
    <3>1. p \notin call /\ r \notin call /\ p \in Query /\ r \in Query
      BY <1>1, <1>3, <2>1, <2>3
    <3>2. LostQuery(p)
      BY <1>2, <1>4, <2>1, <3>1 DEF LostQuery, Got
    <3>3. LostQuery(r)
      BY <2>1, <3>2 DEF FiguresInv, CallsFailAsOne
    <3>4. QED
      BY <1>2, <1>4, <3>1, <3>3 DEF LostQuery, Got
  <2>4. QED
    BY <2>2, <2>3
<1>8. FiguresAreNumbers'
  BY <1>4 DEF FiguresInv, FiguresAreNumbers
\* A tile of the call is empty, one of another call as before.
<1>9. ASSUME NEW p \in Query
      PROVE  IF p[1] = q[1] THEN figure'[p] = None
             ELSE figure'[p] = figure[p]
  <2>1. p \notin screen => figure[p] = None
    BY DEF FiguresInv, FiguresTyped, DashboardTypeOK
  <2>2. QED
    BY <1>1, <1>2, <2>1
<1>10. Within(DashboardDrift)'
  <2>1. /\ <<"dashboard", "total">> \in Query
        /\ <<"dashboard", "confirmed">> \in Query
        /\ <<"dashboard", "checkedIn">> \in Query
    BY Queries
  <2>2. CASE q[1] = "dashboard"
    <3>1. /\ figure'[<<"dashboard", "total">>] = None
          /\ figure'[<<"dashboard", "confirmed">>] = None
          /\ figure'[<<"dashboard", "checkedIn">>] = None
      BY <1>9, <2>1, <2>2
    <3>2. DashboardDrift' = 0
      BY <3>1 DEF DashboardDrift, Drift
    <3>3. QED
      BY <1>2, <1>3, <3>2 DEF Within
  <2>3. CASE q[1] # "dashboard"
    <3>1. DashboardDrift' = DashboardDrift
      BY <1>5, <1>9, <2>1, <2>3 DEF DashboardDrift
    <3>2. QED
      BY <1>2, <3>1 DEF FiguresInv, Within
  <2>4. QED
    BY <2>2, <2>3
<1>11. Within(AttendanceDrift)'
  <2>1. /\ <<"attendance", "total">> \in Query
        /\ <<"attendance", "checkedIn">> \in Query
    BY Queries
  <2>2. CASE q[1] = "attendance"
    <3>1. /\ figure'[<<"attendance", "total">>] = None
          /\ figure'[<<"attendance", "checkedIn">>] = None
      BY <1>9, <2>1, <2>2
    <3>2. AttendanceDrift' = 0
      BY <3>1 DEF AttendanceDrift, Drift
    <3>3. QED
      BY <1>2, <1>3, <3>2 DEF Within
  <2>3. CASE q[1] # "attendance"
    <3>1. AttendanceDrift' = AttendanceDrift
      BY <1>5, <1>9, <2>1, <2>3 DEF AttendanceDrift
    <3>2. QED
      BY <1>2, <3>1 DEF FiguresInv, Within
  <2>4. QED
    BY <2>2, <2>3
<1>12. ASSUME NEW p \in Query, SumIsNear(p)
       PROVE  SumIsNear(p)'
  <2>1. CASE Got(p)'
    <3>1. Got(p) /\ figure'[p] = figure[p]
      BY <1>4, <2>1
    <3>2. SumOf(p)' = SumOf(p)
      BY <3>1, SumNow
    <3>3. QED
      BY <1>2, <1>5, <1>12, <3>1, <3>2 DEF SumIsNear, Within
  <2>2. QED
    BY <2>1 DEF SumIsNear
<1>13. /\ SumIsNear(<<"stats", "byStatus">>)'
       /\ SumIsNear(<<"pricing", "byTier">>)'
  BY <1>12, Queries DEF FiguresInv
<1>14. ListIsNear'
  <2>1. PICK l : l = <<"list", "all">>
    OBVIOUS
  <2>2. CASE Got(l)'
    <3>1. Got(l) /\ figure'[l] = figure[l]
      BY <1>4, <2>1, <2>2, Queries
    <3>2. StillToCome' = StillToCome
      BY <2>1, <3>1 DEF StillToCome
    <3>3. QED
      BY <1>2, <1>5, <2>1, <3>1, <3>2 DEF FiguresInv, ListIsNear, Within
  <2>3. QED
    BY <2>1, <2>2 DEF ListIsNear
<1>15. RevenueBehind'
  <2>1. SUFFICES ASSUME NEW c \in {"dashboard", "platform"},
                        Got(<<c, "revenue">>)'
                 PROVE  figure'[<<c, "revenue">>] <= Revenue'
    BY DEF RevenueBehind
  <2>2. <<c, "revenue">> \in Query
    BY Queries
  <2>3. /\ Got(<<c, "revenue">>)
        /\ figure'[<<c, "revenue">>] = figure[<<c, "revenue">>]
    BY <1>4, <2>1, <2>2
  <2>4. QED
    BY <1>5, <2>3 DEF FiguresInv, RevenueBehind
<1>16. QED
  BY <1>6, <1>7, <1>8, <1>10, <1>11, <1>13, <1>14, <1>15 DEF FiguresInv

\* Every step keeps the invariant.
LEMMA FiguresStayNear ==
    ASSUME FiguresInv, [DashboardNext]_dashboardVars
    PROVE  FiguresInv'
<1>0. FiguresTyped /\ FiguresTyped'
  BY FiguresStayTyped DEF FiguresInv
<1>1. ASSUME NEW a \in Attendee, NEW status \in {"pending", "confirmed"},
             NEW amount \in Price, SignUp(a, status, amount)
      PROVE  FiguresInv'
  <2>1. PICK row : row = [status |-> status, amountPaid |-> amount]
    OBVIOUS
  <2>2. row \in GuestRow /\ Saves(a, row)
    BY <1>1, <2>1 DEF SignUp, GuestStatus, GuestRow
  <2>3. Saveable(a, row)
    BY <1>1, <2>1 DEF SignUp, Saveable
  <2>4. QED
    BY <2>2, <2>3, SavedRow
<1>2. ASSUME NEW a \in Attendee, NEW status \in GuestStatus, SaveStatus(a, status)
      PROVE  FiguresInv'
  <2>1. PICK old, row : old = guests[a] /\ row = [old EXCEPT !.status = status]
    OBVIOUS
  <2>2. old \in GuestRow /\ old # None
    BY <1>2, <2>1 DEF SaveStatus, FiguresInv, FiguresTyped, DashboardTypeOK,
       GuestRow
  <2>3. row \in GuestRow /\ Saves(a, row) /\ row.amountPaid = old.amountPaid
    BY <1>2, <2>1, <2>2 DEF SaveStatus, GuestRow
  <2>4. Saveable(a, row)
    BY <2>1, <2>2, <2>3 DEF Saveable
  <2>5. QED
    BY <2>3, <2>4, SavedRow
<1>3. ASSUME NEW queries \in {AnalyticsPage, PlatformOverview, CheckInPage,
                              RegistrationsPage}, Open(queries)
      PROVE  FiguresInv'
  <2>1. NothingShown'
    BY <1>3 DEF Open, NothingShown, Got
  <2>2. CallsFailAsOne'
    BY <1>3 DEF Open, CallsFailAsOne, LostQuery
  <2>3. QED
    BY <1>0, <2>1, <2>2, NoFiguresThen
<1>4. ASSUME NEW q \in asked, Run(q)
      PROVE  FiguresInv'
  BY <1>0, <1>4, RunKeepsFigures
<1>5. ASSUME NEW q \in asked, CallFails(q)
      PROVE  FiguresInv'
  BY <1>0, <1>5, FailureKeepsFigures
<1>6. CASE UNCHANGED dashboardVars
  <2>1. UNCHANGED <<guests, screen, asked, figure, saves>>
    BY <1>6 DEF dashboardVars
  <2>2. /\ TotalNow' = TotalNow /\ ConfirmedNow' = ConfirmedNow
        /\ CheckedInNow' = CheckedInNow /\ Revenue' = Revenue
    BY <2>1, CountsNow, CountsThen, RevenueNow
  <2>3. \A p : SumOf(p)' = SumOf(p)
    BY <2>1, SumNow
  <2>4. \A p : Got(p)' <=> Got(p)
    BY <2>1 DEF Got
  <2>5. StillToCome' = StillToCome
    BY <2>1 DEF StillToCome
  <2>6. /\ SumIsNear(<<"stats", "byStatus">>)'
        /\ SumIsNear(<<"pricing", "byTier">>)'
    BY <2>1, <2>2, <2>3, <2>4 DEF FiguresInv, SumIsNear, Within
  <2>7. /\ (\A q \in asked : ~Got(q))'
        /\ CallsFailAsOne' /\ FiguresAreNumbers'
    BY <2>1, <2>4 DEF FiguresInv, CallsFailAsOne, FiguresAreNumbers, LostQuery
  <2>8. Within(DashboardDrift)' /\ Within(AttendanceDrift)'
    BY <2>1, <2>2 DEF FiguresInv, Within, DashboardDrift, AttendanceDrift
  <2>9. ListIsNear' /\ RevenueBehind'
    BY <2>1, <2>2, <2>4, <2>5 DEF FiguresInv, ListIsNear, RevenueBehind, Within
  <2>10. QED
    BY <1>0, <2>6, <2>7, <2>8, <2>9 DEF FiguresInv
<1>7. QED
  BY <1>1, <1>2, <1>3, <1>4, <1>5, <1>6 DEF DashboardNext

\* What the invariant says of a page whose queries have all been answered.
LEMMA FiguresAreNear == FiguresInv => FiguresOffBySaves
<1> SUFFICES ASSUME FiguresInv, screen # {}, asked = {}
             PROVE  /\ Got(<<"attendance", "total">>) =>
                          Apart(NotCheckedIn, Cardinality(Guests \ With("checked_in")))
                              <= saves
                    /\ Got(<<"list", "all">>) =>
                          Apart(Cardinality(StillToCome),
                                Cardinality(Guests \ With("checked_in"))) <= saves
                    /\ Got(<<"stats", "byStatus">>) =>
                          Apart(SumOf(<<"stats", "byStatus">>), Cardinality(Guests))
                              <= saves
                    /\ Got(<<"pricing", "byTier">>) =>
                          Apart(SumOf(<<"pricing", "byTier">>), Cardinality(Guests))
                              <= saves
                    /\ Got(<<"dashboard", "total">>) =>
                          Apart(figure[<<"dashboard", "total">>]
                                    - figure[<<"dashboard", "confirmed">>]
                                    - figure[<<"dashboard", "checkedIn">>],
                                Cardinality(With("pending") \cup With("cancelled")))
                              <= saves
                    /\ \A call \in {"dashboard", "platform"} :
                          Got(<<call, "revenue">>)
                              => figure[<<call, "revenue">>] <= Revenue
  BY DEF FiguresOffBySaves
<1>1. /\ Cardinality(Guests \ With("checked_in")) = TotalNow - CheckedInNow
      /\ Cardinality(With("pending") \cup With("cancelled"))
             = TotalNow - ConfirmedNow - CheckedInNow
  BY OthersCounted DEF FiguresInv
<1>2. /\ saves \in Nat /\ TotalNow \in Nat /\ ConfirmedNow \in Nat
      /\ CheckedInNow \in Nat /\ Cardinality(Guests) = TotalNow
  BY DashboardAssumption, CountsNow DEF FiguresInv, FiguresTyped,
     DashboardTypeOK, TotalNow
<1>3. ASSUME NEW m \in Int, NEW n \in Int, -saves <= m - n, m - n <= saves
      PROVE  Apart(m, n) <= saves
  BY <1>2, <1>3 DEF Apart
<1>4. \A p \in Query : Got(p) => p \in screen
  BY DEF FiguresInv, FiguresTyped, DashboardTypeOK, Got
\* The calls that have answered one of their queries have answered all.
<1>5. ASSUME NEW p \in screen, NEW r \in screen, Got(r), p[1] = r[1],
             p[1] \in {"dashboard", "attendance"}
      PROVE  Got(p)
  BY <1>5 DEF FiguresInv, CallsFailAsOne, LostQuery
<1>6. ASSUME Got(<<"attendance", "total">>)
      PROVE  Apart(NotCheckedIn, Cardinality(Guests \ With("checked_in"))) <= saves
  <2>1. PICK p, r : p = <<"attendance", "total">>
                    /\ r = <<"attendance", "checkedIn">>
    OBVIOUS
  <2>2. p \in Query /\ r \in Query
    BY <2>1, Queries
  <2>3. screen = CheckInPage
    BY <1>4, <1>6, <2>1, <2>2 DEF FiguresInv, FiguresTyped, DashboardTypeOK,
       AnalyticsPage, PlatformOverview, RegistrationsPage, EventDashboard,
       PricingBreakdown, EventStats, RegistrationList
  <2>4. p \in screen /\ r \in screen /\ r[1] = p[1] /\ r[1] = "attendance"
    BY <2>1, <2>3 DEF CheckInPage, Attendance
  <2>5. Got(p) /\ Got(r)
    BY <1>5, <1>6, <2>1, <2>4
  <2>6. PICK v, w : v = figure[p] /\ w = figure[r]
    OBVIOUS
  <2>7. v \in Nat /\ w \in Nat /\ v # None /\ w # None
    BY <2>1, <2>2, <2>5, <2>6 DEF FiguresInv, FiguresAreNumbers, Got
  <2>8. AttendanceDrift = (v - TotalNow) - (w - CheckedInNow)
    BY <2>1, <2>6, <2>7 DEF AttendanceDrift, Drift
  <2>9. -saves <= AttendanceDrift /\ AttendanceDrift <= saves
    BY DEF FiguresInv, Within
  <2>10. NotCheckedIn = v - w
    BY <2>1, <2>6 DEF NotCheckedIn
  <2>11. PICK m, n : m = v - w /\ n = TotalNow - CheckedInNow
    OBVIOUS
  <2>12. m \in Int /\ n \in Int /\ -saves <= m - n /\ m - n <= saves
    BY <1>2, <2>7, <2>8, <2>9, <2>11
  <2>13. QED
    BY <1>1, <1>3, <2>10, <2>11, <2>12
<1>7. ASSUME Got(<<"list", "all">>)
      PROVE  Apart(Cardinality(StillToCome),
                   Cardinality(Guests \ With("checked_in"))) <= saves
  <2>1. PICK m, n : m = Cardinality(StillToCome) /\ n = TotalNow - CheckedInNow
    OBVIOUS
  <2>2. m \in Int /\ n \in Int /\ -saves <= m - n /\ m - n <= saves
    BY <1>2, <1>7, <2>1 DEF FiguresInv, ListIsNear, Within
  <2>3. QED
    BY <1>1, <1>3, <2>1, <2>2
<1>8. ASSUME NEW p, SumIsNear(p), Got(p)
      PROVE  Apart(SumOf(p), Cardinality(Guests)) <= saves
  <2>1. PICK m, n : m = SumOf(p) /\ n = TotalNow
    OBVIOUS
  <2>2. m \in Int /\ n \in Int /\ -saves <= m - n /\ m - n <= saves
    BY <1>2, <1>8, <2>1 DEF SumIsNear, Within
  <2>3. QED
    BY <1>2, <1>3, <2>1, <2>2
<1>9. ASSUME Got(<<"dashboard", "total">>)
      PROVE  Apart(figure[<<"dashboard", "total">>]
                       - figure[<<"dashboard", "confirmed">>]
                       - figure[<<"dashboard", "checkedIn">>],
                   Cardinality(With("pending") \cup With("cancelled"))) <= saves
  <2>1. PICK p, c, r : p = <<"dashboard", "total">>
                       /\ c = <<"dashboard", "confirmed">>
                       /\ r = <<"dashboard", "checkedIn">>
    OBVIOUS
  <2>2. p \in Query /\ c \in Query /\ r \in Query
    BY <2>1, Queries
  <2>3. screen = AnalyticsPage
    BY <1>4, <1>9, <2>1, <2>2 DEF FiguresInv, FiguresTyped, DashboardTypeOK,
       CheckInPage, PlatformOverview, RegistrationsPage, Attendance,
       EventStats, RegistrationList
  <2>4. /\ p \in screen /\ c \in screen /\ r \in screen
        /\ c[1] = p[1] /\ r[1] = p[1] /\ p[1] = "dashboard"
    BY <2>1, <2>3 DEF AnalyticsPage, EventDashboard
  <2>5. Got(p) /\ Got(c) /\ Got(r)
    BY <1>5, <1>9, <2>1, <2>4
  <2>6. PICK v, u, w : v = figure[p] /\ u = figure[c] /\ w = figure[r]
    OBVIOUS
  <2>7. /\ v \in Nat /\ u \in Nat /\ w \in Nat
        /\ v # None /\ u # None /\ w # None
    BY <2>1, <2>2, <2>5, <2>6 DEF FiguresInv, FiguresAreNumbers, Got
  <2>8. DashboardDrift
            = (v - TotalNow) - (u - ConfirmedNow) - (w - CheckedInNow)
    BY <2>1, <2>6, <2>7 DEF DashboardDrift, Drift
  <2>9. -saves <= DashboardDrift /\ DashboardDrift <= saves
    BY DEF FiguresInv, Within
  <2>11. PICK m, n : m = v - u - w /\ n = TotalNow - ConfirmedNow - CheckedInNow
    OBVIOUS
  <2>12. m \in Int /\ n \in Int /\ -saves <= m - n /\ m - n <= saves
    BY <1>2, <2>7, <2>8, <2>9, <2>11
  <2>13. QED
    BY <1>1, <1>3, <2>1, <2>6, <2>11, <2>12
<1>10. \A call \in {"dashboard", "platform"} :
           Got(<<call, "revenue">>) => figure[<<call, "revenue">>] <= Revenue
  BY DEF FiguresInv, RevenueBehind
<1>11. SumIsNear(<<"stats", "byStatus">>) /\ SumIsNear(<<"pricing", "byTier">>)
  BY DEF FiguresInv
<1>12. QED
  BY <1>6, <1>7, <1>8, <1>9, <1>10, <1>11

\* No figure on a page, whichever queries it is made of and whatever was saved
\* between them, is further from the truth than rows were saved.
THEOREM FiguresAreRecent == DashboardSpec => []FiguresOffBySaves
<1>1. DashboardInit => FiguresInv
  BY FiguresBegin
<1>2. FiguresInv /\ [DashboardNext]_dashboardVars => FiguresInv'
  BY FiguresStayNear
<1>3. FiguresInv => FiguresOffBySaves
  BY FiguresAreNear
<1>4. QED
  BY <1>1, <1>2, <1>3, PTL DEF DashboardSpec

-----------------------------------------------------------------------------
(* The clicks of the console                                               *)

\* The first k calls were carried out, once each, and no other.
Upto(done, k) == \A i \in DOMAIN done : done[i] = IF i <= k THEN 1 ELSE 0

\* How far a click is that stands at one of its calls.
Underway(c) ==
    /\ c.script \in ServerAction
    /\ Len(c.done) = Len(c.script.calls)
    /\ c.call \in 1..Len(c.done)
    /\ c.answer = "none"
    /\ CASE c.pc \in {"send", "service"} -> Upto(c.done, c.call - 1)
         [] c.pc = "relay" ->
               /\ c.status \in Status
               /\ c.status = "refused" => Upto(c.done, c.call - 1)
               /\ c.status \in {"json", "empty", "cut"} => Upto(c.done, c.call)
               /\ Upto(c.done, c.call - 1) \/ Upto(c.done, c.call)

\* What an answer leaves open, it says.
Told(c) ==
    /\ \E k \in 0..2 : Upto(c.done, k)
    /\ c.answer = "ok" => Upto(c.done, Len(c.done))
    /\ c.answer = "refused" => Upto(c.done, c.call - 1)
    /\ c.answer = "login" => Upto(c.done, 0)

ClickOK(c) ==
    /\ c \in Click
    /\ IF c.pc = "answered" THEN Told(c) ELSE Underway(c)

\* The inductive invariant of the clicks.
ConsoleInv == ConsoleTypeOK /\ \A b \in Tab : ClickOK(click[b])

\* Every script makes one call or two.
LEMMA ScriptCalls ==
    ASSUME NEW script \in ServerAction
    PROVE  /\ Len(script.calls) \in 1..2
           /\ DOMAIN script.calls = 1..Len(script.calls)
BY DEF ServerAction, PublishEvent, CreateEvent, ApplyTemplate,
       SaveCustomization, SendCampaign, CreateCampaign, CreateFormField,
       DeleteFormField, ManualCheckIn, CreateTask, MoveTask, CreateTicket,
       TicketOp, SetRole, ToggleActive, SendNotification, RegisterAttendee,
       Script

\* A step of one click.
LEMMA ClickStep ==
    ASSUME ConsoleInv, NEW b \in Tab, NEW x, click' = [click EXCEPT ![b] = x],
           ClickOK(x), UNCHANGED <<clock, signedIn, signing>>
    PROVE  ConsoleInv'
<1>1. \A d \in Tab : click'[d] = IF d = b THEN x ELSE click[d]
  BY DEF ConsoleInv, ConsoleTypeOK
<1>2. x \in Click
  BY DEF ClickOK
<1>3. ConsoleTypeOK'
  BY <1>2 DEF ConsoleInv, ConsoleTypeOK
<1>4. QED
  BY <1>1, <1>3 DEF ConsoleInv

\* The two ways a click changes at a time: its call gets a status, or its
\* action an answer.
LEMMA ClickChanges ==
    ASSUME ConsoleInv, NEW b \in Tab
    PROVE  /\ \A status : Relays(b, status) =>
                 click' = [click EXCEPT ![b] =
                    [click[b] EXCEPT !.pc = "relay", !.status = status]]
           /\ \A answer : Answered(b, answer) =>
                 click' = [click EXCEPT ![b] =
                    [click[b] EXCEPT !.pc = "answered", !.answer = answer]]
           /\ click' = [click EXCEPT ![b].pc = "send", ![b].call = @ + 1] =>
                 click' = [click EXCEPT ![b] =
                    [click[b] EXCEPT !.pc = "send", !.call = @ + 1]]
<1>1. click = [d \in Tab |-> click[d]]
  BY DEF ConsoleInv, ConsoleTypeOK
<1>2. ASSUME NEW status, Relays(b, status)
      PROVE  click' = [click EXCEPT ![b] =
                [click[b] EXCEPT !.pc = "relay", !.status = status]]
  BY <1>1, <1>2 DEF Relays
<1>3. ASSUME NEW answer, Answered(b, answer)
      PROVE  click' = [click EXCEPT ![b] =
                [click[b] EXCEPT !.pc = "answered", !.answer = answer]]
  BY <1>1, <1>3 DEF Answered
<1>4. ASSUME click' = [click EXCEPT ![b].pc = "send", ![b].call = @ + 1]
      PROVE  click' = [click EXCEPT ![b] =
                [click[b] EXCEPT !.pc = "send", !.call = @ + 1]]
  <2>1. PICK c, x, y : /\ c = click[b] /\ x = [c EXCEPT !.pc = "send"]
                       /\ y = [x EXCEPT !.call = @ + 1]
    OBVIOUS
  <2>2. c \in Click /\ x.call = c.call
    BY <2>1 DEF ConsoleInv, ConsoleTypeOK, Click
  <2>3. click' = [click EXCEPT ![b] = y]
    BY <1>1, <1>4, <2>1
  <2>4. y = [c EXCEPT !.pc = "send", !.call = @ + 1]
    BY <2>1, <2>2 DEF Click
  <2>5. QED
    BY <2>1, <2>3, <2>4
<1>5. QED
  BY <1>2, <1>3, <1>4

\* A new click has carried out nothing.
LEMMA NewClick ==
    ASSUME ConsoleInv, NEW script \in ServerAction, NEW token \in Int \cup {None}
    PROVE  LET done == [i \in DOMAIN script.calls |-> 0]
           IN  /\ \A answer \in {"inline", "login"} :
                     ClickOK([NoClick EXCEPT !.script = script,
                                             !.answer = answer, !.done = done])
               /\ ClickOK([NoClick EXCEPT !.pc = "send", !.script = script,
                             !.token = token, !.call = 1, !.done = done])
<1>1. PICK done : done = [i \in DOMAIN script.calls |-> 0]
  OBVIOUS
<1>2. /\ Len(script.calls) \in 1..2
      /\ DOMAIN script.calls = 1..Len(script.calls)
  BY ScriptCalls
<1>3. done \in Seq(Nat) /\ Len(done) = Len(script.calls) /\ Upto(done, 0)
  BY <1>1, <1>2 DEF Upto
<1>4. ASSUME NEW answer \in {"inline", "login"}
      PROVE  ClickOK([NoClick EXCEPT !.script = script, !.answer = answer,
                                     !.done = done])
  <2>1. PICK x : x = [NoClick EXCEPT !.script = script, !.answer = answer,
                                     !.done = done]
    OBVIOUS
  <2>2. x = [pc |-> "answered", script |-> script, token |-> None, call |-> 0,
             done |-> done, status |-> None, answer |-> answer]
    BY <2>1 DEF NoClick
  <2>3. x \in Click
    BY <1>3, <2>2 DEF Click, Answer
  <2>4. x.pc = "answered" /\ x.answer = answer /\ x.done = done
    BY <2>2
  <2>5. Told(x)
    BY <1>3, <2>4 DEF Told
  <2>6. QED
    BY <2>1, <2>3, <2>4, <2>5 DEF ClickOK
<1>5. ClickOK([NoClick EXCEPT !.pc = "send", !.script = script,
                 !.token = token, !.call = 1, !.done = done])
  <2>1. PICK x : x = [NoClick EXCEPT !.pc = "send", !.script = script,
                        !.token = token, !.call = 1, !.done = done]
    OBVIOUS
  <2>2. x = [pc |-> "send", script |-> script, token |-> token, call |-> 1,
             done |-> done, status |-> None, answer |-> "none"]
    BY <2>1 DEF NoClick
  <2>3. x \in Click
    BY <1>3, <2>2 DEF Click, Answer
  <2>4. Underway(x)
    BY <1>2, <1>3, <2>2 DEF Underway
  <2>5. QED
    BY <2>1, <2>2, <2>3, <2>4 DEF ClickOK
<1>6. QED
  BY <1>1, <1>4, <1>5

\* The call that a click stands at is carried out.
LEMMA CarriesOut ==
    ASSUME ConsoleInv, NEW b \in Tab, click[b].pc = "service",
           NEW c, c = Carried(b)
    PROVE  /\ c = [click[b] EXCEPT !.done = c.done]
           /\ c.done \in Seq(Nat) /\ Len(c.done) = Len(click[b].done)
           /\ Upto(c.done, click[b].call)
<1>1. PICK old, k, d : old = click[b] /\ k = old.call /\ d = old.done
  OBVIOUS
<1>2. ClickOK(old) /\ old.pc = "service"
  BY <1>1 DEF ConsoleInv
<1>3. /\ d \in Seq(Nat) /\ k \in 1..Len(d) /\ Upto(d, k - 1) /\ old \in Click
  BY <1>1, <1>2 DEF ClickOK, Underway, Click
<1>4. PICK e : e = [d EXCEPT ![k] = d[k] + 1]
  OBVIOUS
<1>5. /\ e \in Seq(Nat) /\ Len(e) = Len(d)
      /\ \A i \in 1..Len(d) : e[i] = IF i = k THEN d[i] + 1 ELSE d[i]
  BY <1>3, <1>4
<1>6. Upto(e, k)
  <2>1. \A i \in 1..Len(d) : d[i] = IF i <= k - 1 THEN 1 ELSE 0
    BY <1>3 DEF Upto
  <2>2. \A i \in 1..Len(d) : e[i] = IF i <= k THEN 1 ELSE 0
    BY <1>3, <1>5, <2>1
  <2>3. DOMAIN e = 1..Len(d)
    BY <1>5
  <2>4. QED
    BY <2>2, <2>3 DEF Upto
<1>7. c = [old EXCEPT !.done = e]
  BY <1>1, <1>4 DEF Carried
<1>8. c.done = e
  BY <1>3, <1>7 DEF Click
<1>9. QED
  BY <1>1, <1>5, <1>6, <1>7, <1>8

\* The status of a call that was not carried out.
LEMMA NotCarriedOut ==
    ASSUME ConsoleInv, NEW b \in Tab, click[b].pc \in {"send", "service"},
           NEW status \in {"refused", "unavailable"}
    PROVE  ClickOK([click[b] EXCEPT !.pc = "relay", !.status = status])
<1>1. PICK c : c = click[b]
  OBVIOUS
<1>2. PICK x : x = [c EXCEPT !.pc = "relay", !.status = status]
  OBVIOUS
<1>3. c \in Click /\ Underway(c) /\ c.pc \in {"send", "service"}
  BY <1>1 DEF ConsoleInv, ClickOK
<1>4. x \in Click
  BY <1>2, <1>3 DEF Click, Status
<1>5. /\ x.pc = "relay" /\ x.status = status /\ x.script = c.script
      /\ x.done = c.done /\ x.call = c.call /\ x.answer = c.answer
  BY <1>2, <1>3 DEF Click
<1>6. x.status \in Status
  BY <1>5 DEF Status
<1>7. Underway(x)
  BY <1>3, <1>5, <1>6 DEF Underway
<1>8. QED
  BY <1>1, <1>2, <1>4, <1>5, <1>7 DEF ClickOK

\* The call has been carried out, and its answer has set out.
LEMMA SetsOut ==
    ASSUME ConsoleInv, NEW b \in Tab, click[b].pc = "service",
           NEW status \in Status \ {"refused"}
    PROVE  ClickOK([Carried(b) EXCEPT !.pc = "relay", !.status = status])
<1>1. PICK old, c : old = click[b] /\ c = Carried(b)
  OBVIOUS
<1>2. PICK x : x = [c EXCEPT !.pc = "relay", !.status = status]
  OBVIOUS
<1>3. old \in Click /\ Underway(old)
  BY <1>1 DEF ConsoleInv, ClickOK
<1>4. /\ c = [old EXCEPT !.done = c.done]
      /\ c.done \in Seq(Nat) /\ Len(c.done) = Len(old.done)
      /\ Upto(c.done, old.call)
  BY <1>1, CarriesOut
<1>5. x = [pc |-> "relay", script |-> old.script, token |-> old.token,
           call |-> old.call, done |-> c.done, status |-> status,
           answer |-> old.answer]
  BY <1>2, <1>3, <1>4 DEF Click
<1>6. x \in Click
  BY <1>3, <1>4, <1>5 DEF Click
<1>7. Underway(x)
  BY <1>3, <1>4, <1>5 DEF Underway
<1>8. QED
  BY <1>1, <1>2, <1>5, <1>6, <1>7 DEF ClickOK

\* The tab is told that nothing is known.
LEMMA ToldNothing ==
    ASSUME ConsoleInv, NEW b \in Tab, click[b].pc # "answered",
           NEW answer \in {"unreachable", "unavailable", "thrown", "inline"}
    PROVE  ClickOK([click[b] EXCEPT !.pc = "answered", !.answer = answer])
<1>1. PICK c : c = click[b]
  OBVIOUS
<1>2. PICK x : x = [c EXCEPT !.pc = "answered", !.answer = answer]
  OBVIOUS
<1>3. c \in Click /\ Underway(c) /\ c.pc # "answered"
  BY <1>1 DEF ConsoleInv, ClickOK
<1>4. x \in Click
  BY <1>2, <1>3 DEF Click, Answer
<1>5. /\ x.pc = "answered" /\ x.done = c.done /\ x.call = c.call
      /\ x.answer = answer
  BY <1>2, <1>3 DEF Click
<1>6. \E k \in 0..2 : Upto(c.done, k)
  <2>1. c.call \in 0..2 /\ c.call \in 1..Len(c.done) /\ c.done \in Seq(Nat)
    BY <1>3 DEF Underway, Click
  <2>2. Upto(c.done, c.call - 1) \/ Upto(c.done, c.call)
    BY <1>3 DEF Underway, Click
  <2>3. c.call - 1 \in 0..2
    BY <2>1
  <2>4. QED
    BY <2>1, <2>2, <2>3
<1>7. Told(x)
  BY <1>5, <1>6 DEF Told
<1>8. QED
  BY <1>1, <1>2, <1>4, <1>5, <1>7 DEF ClickOK

\* An answer that does not come back, from wherever the call is.
LEMMA UnreachableKeeps ==
    ASSUME ConsoleInv, NEW b \in Tab, Unreachable(b)
    PROVE  ConsoleInv'
<1>1. PICK c \in {click[b]} \cup
                 (IF click[b].pc = "service" THEN {Carried(b)} ELSE {}) :
          click' = [click EXCEPT ![b] = [c EXCEPT !.pc = "answered",
                                                  !.answer = "unreachable"]]
  BY DEF Unreachable
<1>2. PICK x : x = [c EXCEPT !.pc = "answered", !.answer = "unreachable"]
  OBVIOUS
<1>3. click[b].pc # "answered"
  BY DEF Unreachable
<1>4. CASE c = click[b]
  BY <1>1, <1>2, <1>3, <1>4, ToldNothing, ClickStep DEF Unreachable
<1>5. CASE click[b].pc = "service" /\ c = Carried(b)
  <2>1. PICK old : old = click[b]
    OBVIOUS
  <2>2. old \in Click /\ Underway(old)
    BY <1>3, <2>1 DEF ConsoleInv, ClickOK
  <2>3. /\ c = [old EXCEPT !.done = c.done]
        /\ c.done \in Seq(Nat) /\ Upto(c.done, old.call)
    BY <1>5, <2>1, CarriesOut
  <2>4. x = [pc |-> "answered", script |-> old.script, token |-> old.token,
             call |-> old.call, done |-> c.done, status |-> old.status,
             answer |-> "unreachable"]
    BY <1>2, <2>2, <2>3 DEF Click
  <2>5. x \in Click /\ old.call \in 0..2
    BY <2>2, <2>3, <2>4 DEF Click, Answer
  <2>6. Told(x)
    BY <2>3, <2>4, <2>5 DEF Told
  <2>7. ClickOK(x)
    BY <2>4, <2>5, <2>6 DEF ClickOK
  <2>8. QED
    BY <1>1, <1>2, <2>7, ClickStep DEF Unreachable
<1>6. QED
  BY <1>1, <1>4, <1>5

\* apiFetch has the status of a call.
LEMMA ReturnKeeps ==
    ASSUME ConsoleInv, NEW b \in Tab, Return(b)
    PROVE  ConsoleInv'
<1>1. PICK c : c = click[b]
  OBVIOUS
<1>2. /\ c \in Click /\ Underway(c) /\ c.pc = "relay"
      /\ UNCHANGED <<clock, signedIn, signing>>
  BY <1>1 DEF Return, ConsoleInv, ClickOK
<1>3. c.status \in Status /\ c.call \in 1..Len(c.done) /\ c.done \in Seq(Nat)
  BY <1>2 DEF Underway, Click
<1>4. CASE c.status = "refused" /\ Answered(b, "refused")
  <2>1. PICK x : x = [c EXCEPT !.pc = "answered", !.answer = "refused"]
    OBVIOUS
  <2>2. /\ x \in Click /\ x.pc = "answered" /\ x.done = c.done
        /\ x.call = c.call /\ x.answer = "refused" /\ c.call \in 0..2
    BY <1>2, <2>1 DEF Click, Answer
  <2>3. Upto(c.done, c.call - 1) /\ c.call - 1 \in 0..2
    BY <1>2, <1>3, <1>4, <2>2 DEF Underway
  <2>4. Told(x)
    BY <2>2, <2>3 DEF Told
  <2>5. QED
    <3>1. ClickOK(x)
      BY <2>2, <2>4 DEF ClickOK
    <3>2. click' = [click EXCEPT ![b] = x]
      BY <1>1, <1>4, <2>1, ClickChanges
    <3>3. QED
      BY <1>2, <3>1, <3>2, ClickStep
<1>5. ASSUME NEW answer \in {"unavailable", "thrown"}, Answered(b, answer)
      PROVE  ConsoleInv'
  <2>1. PICK x : x = [c EXCEPT !.pc = "answered", !.answer = answer]
    OBVIOUS
  <2>2. ClickOK(x)
    BY <1>1, <1>2, <2>1, ToldNothing
  <2>3. click' = [click EXCEPT ![b] = x]
    BY <1>1, <1>5, <2>1, ClickChanges
  <2>4. QED
    BY <1>2, <2>2, <2>3, ClickStep
<1>6. CASE c.status = "json" /\ c.call < Len(c.script.calls)
           /\ click' = [click EXCEPT ![b].pc = "send", ![b].call = @ + 1]
  <2>1. PICK x : x = [c EXCEPT !.pc = "send", !.call = @ + 1]
    OBVIOUS
  <2>2. Len(c.done) = Len(c.script.calls) /\ Len(c.script.calls) \in 1..2
    BY <1>2, ScriptCalls DEF Underway
  <2>3. c.call + 1 \in 0..2
    <3>1. PICK n : n = Len(c.script.calls)
      OBVIOUS
    <3>2. n \in 1..2 /\ c.call \in 1..n /\ c.call < n
      BY <1>3, <1>6, <2>2, <3>1
    <3>3. QED
      BY <3>2
  <2>4. x = [pc |-> "send", script |-> c.script, token |-> c.token,
             call |-> c.call + 1, done |-> c.done, status |-> c.status,
             answer |-> c.answer]
    BY <1>2, <2>1 DEF Click
  <2>5. /\ x \in Click /\ x.pc = "send" /\ x.done = c.done
        /\ x.script = c.script /\ x.call = c.call + 1 /\ x.answer = c.answer
    BY <1>2, <2>3, <2>4 DEF Click
  <2>6. Upto(c.done, c.call)
    BY <1>2, <1>6 DEF Underway
  <2>7. x.call - 1 = c.call /\ x.call \in 1..Len(c.done)
    BY <1>3, <1>6, <2>2, <2>5
  <2>8. Underway(x)
    BY <1>2, <2>5, <2>6, <2>7 DEF Underway
  <2>9. click' = [click EXCEPT ![b] = x]
    BY <1>1, <1>6, <2>1, ClickChanges
  <2>10. QED
    BY <1>2, <2>5, <2>8, <2>9, ClickStep DEF ClickOK
<1>7. CASE c.status = "json" /\ c.call >= Len(c.script.calls)
           /\ Answered(b, "ok")
  <2>1. PICK x : x = [c EXCEPT !.pc = "answered", !.answer = "ok"]
    OBVIOUS
  <2>2. /\ x \in Click /\ x.pc = "answered" /\ x.done = c.done
        /\ x.call = c.call /\ x.answer = "ok" /\ c.call \in 0..2
    BY <1>2, <2>1 DEF Click, Answer
  <2>3. Upto(c.done, c.call) /\ c.call = Len(c.done)
    BY <1>2, <1>3, <1>7 DEF Underway
  <2>4. Told(x)
    BY <2>2, <2>3 DEF Told
  <2>5. QED
    <3>1. ClickOK(x)
      BY <2>2, <2>4 DEF ClickOK
    <3>2. click' = [click EXCEPT ![b] = x]
      BY <1>1, <1>7, <2>1, ClickChanges
    <3>3. QED
      BY <1>2, <3>1, <3>2, ClickStep
<1>8. Len(c.script.calls) \in Nat
  BY <1>2, ScriptCalls DEF Underway
<1>9. QED
  BY <1>1, <1>3, <1>4, <1>5, <1>6, <1>7, <1>8 DEF Return, Failed, Status

\* Every step of a click, and of the session.
LEMMA ConsoleStep ==
    ASSUME ConsoleInv, ConsoleNext
    PROVE  ConsoleInv'
<1>1. Token \in Int \cup {None}
  BY DEF ConsoleInv, ConsoleTypeOK, Token
<1>2. CASE Tick \/ TokenSigned \/ CookieSet \/ SignInFails \/ Logout
  <2>1. click' = click
    BY <1>2 DEF Tick, TokenSigned, CookieSet, SignInFails, Logout
  <2>2. ConsoleTypeOK'
    BY <1>2, ConsoleAssumption
    DEF ConsoleInv, ConsoleTypeOK, Tick, TokenSigned, CookieSet, SignInFails,
        Logout
  <2>3. QED
    BY <2>1, <2>2 DEF ConsoleInv
<1>3. ASSUME NEW b \in Tab, NEW script \in ServerAction,
             RedirectToLogin(b, script) \/ ErrorsInline(b, script)
      PROVE  ConsoleInv'
  BY <1>1, <1>3, NewClick, ClickStep
  DEF RedirectToLogin, ErrorsInline, Shows
<1>4. ASSUME NEW b \in Tab, NEW script \in ServerAction, Submit(b, script)
      PROVE  ConsoleInv'
  BY <1>1, <1>4, NewClick, ClickStep DEF Submit
<1>5. ASSUME NEW b \in Tab, Forward(b)
      PROVE  ConsoleInv'
  <2>1. PICK c, x : c = click[b] /\ x = [c EXCEPT !.pc = "service"]
    OBVIOUS
  <2>2. c \in Click /\ Underway(c) /\ c.pc = "send"
    BY <1>5, <2>1 DEF Forward, ConsoleInv, ClickOK
  <2>3. /\ x \in Click /\ x.pc = "service" /\ x.done = c.done
        /\ x.script = c.script /\ x.call = c.call /\ x.answer = c.answer
    BY <2>1, <2>2 DEF Click
  <2>4. ClickOK(x)
    BY <2>2, <2>3 DEF ClickOK, Underway
  <2>5. CASE click' = [click EXCEPT ![b].pc = "service"]
    BY <1>5, <2>1, <2>4, <2>5, ClickStep DEF Forward
  <2>6. CASE Relays(b, "refused")
    <3>1. ClickOK([click[b] EXCEPT !.pc = "relay", !.status = "refused"])
      BY <2>1, <2>2, NotCarriedOut
    <3>2. QED
      BY <1>5, <2>6, <3>1, ClickStep, ClickChanges DEF Forward
  <2>7. QED
    BY <1>5, <2>5, <2>6 DEF Forward
<1>6. ASSUME NEW b \in Tab, Refuses(b) \/ ServiceDown(b)
      PROVE  ConsoleInv'
  <2>1. PICK status \in {"refused", "unavailable"} : Relays(b, status)
    BY <1>6 DEF Refuses, ServiceDown
  <2>2. ClickOK([click[b] EXCEPT !.pc = "relay", !.status = status])
    BY <1>6, NotCarriedOut DEF Refuses, ServiceDown
  <2>3. QED
    BY <1>6, <2>1, <2>2, ClickStep, ClickChanges DEF Refuses, ServiceDown
<1>7. ASSUME NEW b \in Tab, ServiceGoesDown(b) \/ CarryOut(b)
      PROVE  ConsoleInv'
  <2>1. PICK status \in Status \ {"refused"} :
            click' = [click EXCEPT ![b] =
                         [Carried(b) EXCEPT !.pc = "relay", !.status = status]]
    BY <1>7 DEF ServiceGoesDown, CarryOut, Status
  <2>2. click[b].pc = "service" /\ UNCHANGED <<clock, signedIn, signing>>
    BY <1>7 DEF ServiceGoesDown, CarryOut
  <2>3. QED
    BY <2>1, <2>2, SetsOut, ClickStep
<1>8. ASSUME NEW b \in Tab, NobodyToSendTo(b)
      PROVE  ConsoleInv'
  BY <1>8, ToldNothing, ClickStep, ClickChanges DEF NobodyToSendTo
<1>9. QED
  BY <1>2, <1>3, <1>4, <1>5, <1>6, <1>7, <1>8, UnreachableKeeps, ReturnKeeps
  DEF ConsoleNext

\* Before the first click.
LEMMA ConsoleStart == ConsoleInit => ConsoleInv
<1> SUFFICES ASSUME ConsoleInit PROVE ConsoleInv
  OBVIOUS
<1>1. NoClick \in Click
  BY DEF NoClick, Click, Answer
<1>2. ClickOK(NoClick)
  BY <1>1 DEF ClickOK, Told, NoClick, Upto
<1>3. QED
  BY <1>1, <1>2, ConsoleAssumption DEF ConsoleInit, ConsoleInv, ConsoleTypeOK

\* What the invariant says of the answers.
LEMMA ConsoleTells == ConsoleInv => AnswersTrue
<1> SUFFICES ASSUME ConsoleInv, NEW b \in Tab, NEW c, c = click[b]
             PROVE  /\ \A i \in DOMAIN c.done :
                          /\ c.done[i] <= 1
                          /\ c.done[i] = 1 => \A j \in 1..(i - 1) : c.done[j] = 1
                    /\ c.answer = "ok" => \A i \in DOMAIN c.done : c.done[i] = 1
                    /\ c.answer = "refused" =>
                          \A i \in DOMAIN c.done : c.done[i] = 1 => i < c.call
                    /\ c.answer = "login" =>
                          \A i \in DOMAIN c.done : c.done[i] = 0
  BY DEF AnswersTrue
<1>1. c \in Click /\ c.done \in Seq(Nat) /\ c.call \in 0..2
  BY DEF ConsoleInv, ClickOK, Click
<1>2. CASE c.pc = "answered"
  <2>1. Told(c)
    BY <1>2 DEF ConsoleInv, ClickOK
  <2>2. QED
    BY <1>1, <2>1 DEF Told, Upto
<1>3. CASE c.pc # "answered"
  <2>1. Underway(c) /\ c.pc \in {"send", "service", "relay"}
    BY <1>1, <1>3 DEF ConsoleInv, ClickOK, Click
  <2>2. c.answer = "none" /\ (Upto(c.done, c.call - 1) \/ Upto(c.done, c.call))
    BY <2>1 DEF Underway
  <2>3. PICK k \in Int : Upto(c.done, k)
    BY <1>1, <2>2
  <2>4. \A i \in DOMAIN c.done : c.done[i] = IF i <= k THEN 1 ELSE 0
    BY <2>3 DEF Upto
  <2>5. DOMAIN c.done = 1..Len(c.done) /\ Len(c.done) \in Nat
    BY <1>1
  <2>6. ASSUME NEW i \in DOMAIN c.done, c.done[i] = 1, NEW j \in 1..(i - 1)
        PROVE  c.done[j] = 1
    BY <2>4, <2>5, <2>6
  <2>7. \A i \in DOMAIN c.done : c.done[i] <= 1
    BY <2>4
  <2>8. QED
    BY <2>2, <2>6, <2>7
<1>4. QED
  BY <1>2, <1>3

\* An answer tells the truth about what was carried out, wherever a call
\* failed and however many tabs are open.
THEOREM AnswersAreTrue == ConsoleSpec => []AnswersTrue
<1>1. ConsoleInv /\ [ConsoleNext]_consoleVars => ConsoleInv'
  BY ConsoleStep DEF consoleVars, ConsoleInv, ConsoleTypeOK
<1>2. QED
  BY <1>1, ConsoleStart, ConsoleTells, PTL DEF ConsoleSpec

-----------------------------------------------------------------------------
(* The demo script                                                         *)

\* Who is registered for a demo event.
There(demo) == {g \in Guest : demo.guests[g] = 1}

\* The loop with the attendees of waiting still to come: the event is live,
\* nobody of them is registered, everybody registered has an account, and the
\* script reports no more than were registered.
Booked(s, waiting, acc, demo) ==
    /\ demo.template /\ demo.published
    /\ \A g \in waiting : demo.guests[g] = 0
    /\ \A g \in There(demo) : acc[g] = 1
    /\ s.registered <= Cardinality(There(demo))
    /\ s.smooth => s.registered = Cardinality(Guest \ waiting)

\* What is true at each step of the script.
SeedAt(s, acc, all) ==
    LET demo == all[Len(all)] IN
    /\ s.at \in {"organizer", "event", "template", "publish"} =>
          s.left = Guest /\ s.registered = 0
    /\ s.at \notin {"organizer", "stopped"} => acc[Owner] = 1
    /\ s.at \in {"template", "publish", "guest", "register", "ready"} =>
          all # <<>>
    /\ s.at \in {"template", "publish"} => \A g \in Guest : demo.guests[g] = 0
    /\ s.at = "publish" => demo.template
    /\ s.at \in {"guest", "register"} =>
          /\ s.guest \in Guest \ s.left
          /\ Booked(s, s.left \cup {s.guest}, acc, demo)
    /\ s.at = "register" => acc[s.guest] = 1
    /\ s.at = "ready" => s.left = {} /\ Booked(s, {}, acc, demo)

SeedRun ==
    [at: SeedStep \cup {"stopped", "ready"}, left: SUBSET Guest,
     guest: Guest \cup {None}, registered: 0..Cardinality(Guest),
     smooth: BOOLEAN]

OneDemo == [template: BOOLEAN, published: BOOLEAN, guests: [Guest -> {0, 1}]]

\* The inductive invariant of the demo script.
SeedInv ==
    /\ accounts \in [Guest \cup {Owner} -> {0, 1}]
    /\ demos \in Seq(OneDemo)
    /\ seed \in SeedRun
    /\ runs \in 0..MaxRun
    /\ SeedAt(seed, accounts, demos)

\* Sets of attendees are finite, and one more makes one more.
LEMMA GuestNumbers ==
    /\ Cardinality(Guest) \in Nat
    /\ \A S \in SUBSET Guest :
          /\ IsFiniteSet(S) /\ Cardinality(S) \in 0..Cardinality(Guest)
          /\ \A g \in Guest \ S : Cardinality(S \cup {g}) = Cardinality(S) + 1
<1>1. IsFiniteSet(Guest)
  BY SeedAssumption
<1>2. ASSUME NEW S \in SUBSET Guest
      PROVE  /\ IsFiniteSet(S) /\ Cardinality(S) \in 0..Cardinality(Guest)
             /\ \A g \in Guest \ S : Cardinality(S \cup {g}) = Cardinality(S) + 1
  <2>1. IsFiniteSet(S) /\ Cardinality(S) <= Cardinality(Guest)
    BY <1>1, FS_Subset
  <2>2. Cardinality(S) \in Nat /\ Cardinality(Guest) \in Nat
    BY <1>1, <2>1, FS_CardinalityType
  <2>3. \A g \in Guest \ S : Cardinality(S \cup {g}) = Cardinality(S) + 1
    BY <2>1, FS_AddElement
  <2>4. QED
    BY <2>1, <2>2, <2>3
<1>3. QED
  BY <1>1, <1>2, FS_CardinalityType

\* The loop goes on to its next attendee, or ends.
LEMMA LoopGoesOn ==
    ASSUME NEW s \in SeedRun, NEW acc, NEW all, acc[Owner] = 1, all # <<>>,
           Booked(s, s.left, acc, all[Len(all)])
    PROVE  /\ NextGuest(s) \in SeedRun
           /\ SeedAt(NextGuest(s), acc, all)
           /\ NextGuest(s).smooth = s.smooth
<1>1. PICK demo : demo = all[Len(all)]
  OBVIOUS
<1>2. CASE s.left = {}
  <2>1. PICK t : t = [s EXCEPT !.at = "ready", !.guest = None]
    OBVIOUS
  <2>2. /\ t \in SeedRun /\ t.at = "ready" /\ t.left = {}
        /\ t.registered = s.registered /\ t.smooth = s.smooth
    BY <1>2, <2>1 DEF SeedRun
  <2>3. Booked(t, {}, acc, demo)
    BY <1>1, <1>2, <2>2 DEF Booked
  <2>4. SeedAt(t, acc, all)
    BY <1>1, <2>2, <2>3 DEF SeedAt
  <2>5. QED
    BY <1>2, <2>1, <2>2, <2>4 DEF NextGuest
<1>3. CASE s.left # {}
  <2>1. PICK g : g = CHOOSE h \in s.left : TRUE
    OBVIOUS
  <2>2. g \in s.left /\ s.left \subseteq Guest
    BY <1>3, <2>1 DEF SeedRun
  <2>3. PICK t : t = [s EXCEPT !.at = "guest", !.guest = g, !.left = @ \ {g}]
    OBVIOUS
  <2>4. /\ t \in SeedRun /\ t.at = "guest" /\ t.left = s.left \ {g}
        /\ t.guest = g /\ t.registered = s.registered /\ t.smooth = s.smooth
    BY <2>2, <2>3 DEF SeedRun, SeedStep
  <2>5. t.left \cup {t.guest} = s.left
    BY <2>2, <2>4
  <2>6. Booked(t, t.left \cup {t.guest}, acc, demo)
    BY <1>1, <2>4, <2>5 DEF Booked
  <2>7. SeedAt(t, acc, all)
    BY <1>1, <2>2, <2>4, <2>6 DEF SeedAt
  <2>8. QED
    BY <1>3, <2>1, <2>3, <2>4, <2>7 DEF NextGuest
<1>4. QED
  BY <1>2, <1>3

\* What the services do with the call in progress, if it reaches them.
Effect == Carries(seed.at) \/ UNCHANGED <<accounts, demos>>

\* No e-mail gets a second account, and an account stays.
LEMMA AccountKept ==
    ASSUME SeedInv, NEW p \in Guest \cup {Owner}, AccountOf(p)
    PROVE  /\ accounts' \in [Guest \cup {Owner} -> {0, 1}]
           /\ accounts'[p] = 1
           /\ \A q \in Guest \cup {Owner} : accounts[q] = 1 => accounts'[q] = 1
           /\ demos' = demos
BY DEF SeedInv, AccountOf, Known

\* A call about the event of the run changes no other.
LEMMA DemoChanged ==
    ASSUME SeedInv, NEW changed \in OneDemo, InDemo(changed), demos # <<>>
    PROVE  /\ demos' \in Seq(OneDemo) /\ demos' # <<>>
           /\ demos'[Len(demos')] = changed
           /\ accounts' = accounts
<1>1. Len(demos) \in 1..Len(demos)
  BY DEF SeedInv
<1>2. QED
  BY <1>1 DEF SeedInv, InDemo, ThisDemo

\* The demo event of the run, and the attendee whose turn it is.
LEMMA InTheLoop ==
    ASSUME SeedInv, seed.at \in {"guest", "register"}, NEW demo,
           demo = demos[Len(demos)]
    PROVE  /\ demos # <<>> /\ demo \in OneDemo /\ accounts[Owner] = 1
           /\ seed.guest \in Guest \ seed.left /\ seed.left \subseteq Guest
           /\ Booked(seed, seed.left \cup {seed.guest}, accounts, demo)
           /\ demo.guests[seed.guest] = 0
<1>1. /\ demos # <<>> /\ accounts[Owner] = 1
      /\ seed.guest \in Guest \ seed.left
      /\ Booked(seed, seed.left \cup {seed.guest}, accounts, demo)
  BY DEF SeedInv, SeedAt
<1>2. demo \in OneDemo
  <2>1. Len(demos) \in 1..Len(demos)
    BY <1>1 DEF SeedInv
  <2>2. QED
    BY <2>1 DEF SeedInv
<1>3. seed.left \subseteq Guest
  BY DEF SeedInv, SeedRun
<1>4. QED
  BY <1>1, <1>2, <1>3 DEF Booked

\* The attendee of the turn gets an account.
LEMMA GuestCarried ==
    ASSUME SeedInv, seed.at = "guest", Carries(seed.at)
    PROVE  /\ accounts' \in [Guest \cup {Owner} -> {0, 1}]
           /\ demos' = demos
           /\ accounts'[Owner] = 1 /\ accounts'[seed.guest] = 1
           /\ Booked(seed, seed.left \cup {seed.guest}, accounts',
                     demos[Len(demos)])
<1>1. PICK demo : demo = demos[Len(demos)]
  OBVIOUS
<1>2. /\ demo \in OneDemo /\ accounts[Owner] = 1
      /\ seed.guest \in Guest
      /\ Booked(seed, seed.left \cup {seed.guest}, accounts, demo)
  BY <1>1, InTheLoop
<1>3. AccountOf(seed.guest)
  BY DEF Carries
<1>4. /\ accounts' \in [Guest \cup {Owner} -> {0, 1}]
      /\ accounts'[seed.guest] = 1
      /\ \A q \in Guest \cup {Owner} : accounts[q] = 1 => accounts'[q] = 1
      /\ demos' = demos
  BY <1>2, <1>3, AccountKept
<1>5. There(demo) \subseteq Guest
  BY DEF There
<1>6. Booked(seed, seed.left \cup {seed.guest}, accounts', demo)
  BY <1>2, <1>4, <1>5 DEF Booked
<1>7. QED
  BY <1>1, <1>2, <1>4, <1>6

\* The attendee of the turn is registered, for the first time.
LEMMA RegisterCarried ==
    ASSUME SeedInv, seed.at = "register", Carries(seed.at),
           NEW demo, demo = demos'[Len(demos')]
    PROVE  /\ accounts' = accounts /\ accounts[Owner] = 1
           /\ demos' \in Seq(OneDemo) /\ demos' # <<>>
           /\ demo.template /\ demo.published
           /\ \A g \in seed.left : demo.guests[g] = 0
           /\ \A g \in There(demo) : accounts[g] = 1
           /\ seed.registered + 1 <= Cardinality(There(demo))
           /\ seed.smooth =>
                 seed.registered + 1 = Cardinality(Guest \ seed.left)
<1>1. PICK old, g : old = demos[Len(demos)] /\ g = seed.guest
  OBVIOUS
<1>2. /\ old \in OneDemo /\ accounts[Owner] = 1 /\ demos # <<>>
      /\ g \in Guest \ seed.left /\ seed.left \subseteq Guest
      /\ Booked(seed, seed.left \cup {g}, accounts, old)
      /\ old.guests[g] = 0
  BY <1>1, InTheLoop
<1>3. PICK new : new = [old EXCEPT !.guests[g] = @ + 1]
  OBVIOUS
<1>4. /\ new \in OneDemo
      /\ new.template = old.template /\ new.published = old.published
      /\ \A h \in Guest : new.guests[h] = IF h = g THEN 1 ELSE old.guests[h]
  BY <1>2, <1>3 DEF OneDemo
<1>5. InDemo(new)
  BY <1>1, <1>3 DEF Carries, ThisDemo
<1>6. /\ demos' \in Seq(OneDemo) /\ demos' # <<>> /\ demo = new
      /\ accounts' = accounts
  BY <1>2, <1>4, <1>5, DemoChanged
<1>7. There(new) = There(old) \cup {g} /\ g \notin There(old)
  BY <1>2, <1>4 DEF There
<1>8. Cardinality(There(new)) = Cardinality(There(old)) + 1
  BY <1>2, <1>7, GuestNumbers DEF There
<1>9. seed.registered + 1 <= Cardinality(There(new))
  <2>1. Cardinality(There(old)) \in 0..Cardinality(Guest)
    BY GuestNumbers DEF There
  <2>2. seed.registered \in 0..Cardinality(Guest) /\ Cardinality(Guest) \in Nat
    BY GuestNumbers DEF SeedInv, SeedRun
  <2>3. seed.registered <= Cardinality(There(old))
    BY <1>2 DEF Booked
  <2>4. QED
    BY <1>8, <2>1, <2>2, <2>3
<1>10. ASSUME seed.smooth
       PROVE  seed.registered + 1 = Cardinality(Guest \ seed.left)
  <2>1. PICK S : S = Guest \ (seed.left \cup {g})
    OBVIOUS
  <2>2. seed.registered = Cardinality(S)
    BY <1>2, <1>10, <2>1 DEF Booked
  <2>3. Guest \ seed.left = S \cup {g} /\ g \in Guest \ S /\ S \subseteq Guest
    BY <1>2, <2>1
  <2>4. Cardinality(S \cup {g}) = Cardinality(S) + 1
    BY <2>3, GuestNumbers
  <2>5. QED
    BY <2>2, <2>3, <2>4
<1>11. \A h \in There(new) : accounts[h] = 1
  <2>1. accounts[g] = 1
    BY <1>1 DEF SeedInv, SeedAt
  <2>2. QED
    BY <1>2, <1>7, <2>1 DEF Booked
<1>12. \A h \in seed.left : new.guests[h] = 0
  BY <1>2, <1>4 DEF Booked
<1>13. new.template /\ new.published
  BY <1>2, <1>4 DEF Booked
<1>14. QED
  BY <1>2, <1>6, <1>9, <1>10, <1>11, <1>12, <1>13

\* After a failure in the loop, whether the call was carried out or not.
LEMMA LoopAfterFailure ==
    ASSUME SeedInv, seed.at \in {"guest", "register"}, Effect, NEW t,
           t = [NextGuest(seed) EXCEPT !.smooth = FALSE]
    PROVE  /\ accounts' \in [Guest \cup {Owner} -> {0, 1}]
           /\ demos' \in Seq(OneDemo)
           /\ t \in SeedRun /\ SeedAt(t, accounts', demos')
<1>1. PICK s : s = [seed EXCEPT !.smooth = FALSE]
  OBVIOUS
<1>2. seed \in SeedRun /\ accounts \in [Guest \cup {Owner} -> {0, 1}]
      /\ demos \in Seq(OneDemo)
  BY DEF SeedInv
<1>3. /\ s \in SeedRun /\ s.left = seed.left /\ s.smooth = FALSE
      /\ s.registered = seed.registered
  BY <1>1, <1>2 DEF SeedRun
<1>4. t = NextGuest(s)
  <2>1. /\ seed = [at |-> seed.at, left |-> seed.left, guest |-> seed.guest,
                   registered |-> seed.registered, smooth |-> seed.smooth]
        /\ s = [at |-> seed.at, left |-> seed.left, guest |-> seed.guest,
                registered |-> seed.registered, smooth |-> FALSE]
    BY <1>1, <1>2 DEF SeedRun
  <2>2. CASE seed.left = {}
    BY <1>3, <2>1, <2>2 DEF NextGuest
  <2>3. CASE seed.left # {}
    <3>1. PICK g : g = CHOOSE h \in seed.left : TRUE
      OBVIOUS
    <3>2. NextGuest(seed) = [seed EXCEPT !.at = "guest", !.guest = g,
                                         !.left = @ \ {g}]
      BY <2>3, <3>1 DEF NextGuest
    <3>3. NextGuest(s) = [s EXCEPT !.at = "guest", !.guest = g,
                                   !.left = @ \ {g}]
      BY <1>3, <2>3, <3>1 DEF NextGuest
    <3>4. PICK x, y : x = NextGuest(seed) /\ y = NextGuest(s)
      OBVIOUS
    <3>5. x = [at |-> "guest", left |-> seed.left \ {g}, guest |-> g,
               registered |-> seed.registered, smooth |-> seed.smooth]
      BY <2>1, <3>2, <3>4
    <3>6. y = [at |-> "guest", left |-> seed.left \ {g}, guest |-> g,
               registered |-> seed.registered, smooth |-> FALSE]
      BY <1>3, <2>1, <3>3, <3>4
    <3>7. t = [x EXCEPT !.smooth = FALSE]
      BY <3>4
    <3>8. t = y
      BY <3>5, <3>6, <3>7
    <3>9. QED
      BY <3>4, <3>8
  <2>4. QED
    BY <2>2, <2>3
<1>5. ASSUME NEW acc, NEW all, acc[Owner] = 1, all # <<>>,
             Booked(s, s.left, acc, all[Len(all)])
      PROVE  t \in SeedRun /\ SeedAt(t, acc, all)
  <2>1. NextGuest(s) \in SeedRun /\ SeedAt(NextGuest(s), acc, all)
    BY <1>3, <1>5, LoopGoesOn
  <2>2. QED
    BY <1>4, <2>1
<1>6. PICK demo : demo = demos[Len(demos)]
  OBVIOUS
<1>7. /\ demos # <<>> /\ accounts[Owner] = 1
      /\ Booked(seed, seed.left \cup {seed.guest}, accounts, demo)
  BY <1>6, InTheLoop
<1>8. CASE UNCHANGED <<accounts, demos>>
  <2>1. Booked(s, s.left, accounts, demo)
    BY <1>3, <1>7 DEF Booked
  <2>2. Booked(s, s.left, accounts', demos'[Len(demos')])
    BY <1>6, <1>8, <2>1
  <2>3. accounts'[Owner] = 1 /\ demos' # <<>>
    BY <1>7, <1>8
  <2>4. t \in SeedRun /\ SeedAt(t, accounts', demos')
    BY <1>5, <2>2, <2>3
  <2>5. QED
    BY <1>2, <1>8, <2>4
<1>9. CASE seed.at = "guest" /\ Carries(seed.at)
  <2>1. /\ accounts' \in [Guest \cup {Owner} -> {0, 1}] /\ demos' = demos
        /\ accounts'[Owner] = 1
        /\ Booked(seed, seed.left \cup {seed.guest}, accounts', demo)
    BY <1>6, <1>9, GuestCarried
  <2>2. Booked(s, s.left, accounts', demo)
    BY <1>3, <2>1 DEF Booked
  <2>3. Booked(s, s.left, accounts', demos'[Len(demos')])
    BY <1>6, <2>1, <2>2
  <2>4. demos' # <<>>
    BY <1>7, <2>1
  <2>5. t \in SeedRun /\ SeedAt(t, accounts', demos')
    BY <1>5, <2>1, <2>3, <2>4
  <2>6. QED
    BY <1>2, <2>1, <2>5
<1>10. CASE seed.at = "register" /\ Carries(seed.at)
  <2>1. PICK new : new = demos'[Len(demos')]
    OBVIOUS
  <2>2. /\ accounts' = accounts /\ demos' \in Seq(OneDemo) /\ demos' # <<>>
        /\ new.template /\ new.published
        /\ \A g \in seed.left : new.guests[g] = 0
        /\ \A g \in There(new) : accounts[g] = 1
        /\ seed.registered + 1 <= Cardinality(There(new))
    BY <1>10, <2>1, RegisterCarried
  <2>3. seed.registered <= Cardinality(There(new))
    <3>1. seed.registered \in Int /\ Cardinality(There(new)) \in Int
      BY <1>2, GuestNumbers DEF SeedRun, There
    <3>2. QED
      BY <2>2, <3>1
  <2>4. Booked(s, s.left, accounts', new)
    BY <1>3, <2>2, <2>3 DEF Booked
  <2>5. Booked(s, s.left, accounts', demos'[Len(demos')])
    BY <2>1, <2>4
  <2>6. accounts'[Owner] = 1
    BY <1>7, <2>2
  <2>7. t \in SeedRun /\ SeedAt(t, accounts', demos')
    BY <1>5, <2>2, <2>5, <2>6
  <2>8. QED
    BY <1>2, <2>2, <2>7
<1>11. QED
  BY <1>8, <1>9, <1>10 DEF Effect

\* A call that is carried out and answered.
LEMMA SeedCallKeeps ==
    ASSUME SeedInv, SeedCall
    PROVE  SeedInv'
<1>1. /\ seed \in SeedRun /\ seed.at \in SeedStep /\ Carries(seed.at)
      /\ seed' = After(seed) /\ runs' = runs
      /\ accounts \in [Guest \cup {Owner} -> {0, 1}] /\ demos \in Seq(OneDemo)
      /\ runs \in 0..MaxRun /\ SeedAt(seed, accounts, demos)
  BY DEF SeedInv, SeedCall
<1>2. CASE seed.at = "organizer"
  <2>1. /\ accounts' \in [Guest \cup {Owner} -> {0, 1}] /\ accounts'[Owner] = 1
        /\ demos' = demos
    BY <1>1, <1>2, AccountKept DEF Carries
  <2>2. seed' = [seed EXCEPT !.at = "event"]
    BY <1>1, <1>2 DEF After
  <2>3. /\ seed' \in SeedRun /\ seed'.at = "event" /\ seed'.left = Guest
        /\ seed'.registered = 0
    BY <1>1, <1>2, <2>2 DEF SeedRun, SeedStep, SeedAt
  <2>4. SeedAt(seed', accounts', demos')
    BY <2>1, <2>3 DEF SeedAt
  <2>5. QED
    BY <1>1, <2>1, <2>3, <2>4 DEF SeedInv
<1>3. CASE seed.at = "event"
  <2>1. PICK d : d = [template |-> FALSE, published |-> FALSE,
                      guests |-> [g \in Guest |-> 0]]
    OBVIOUS
  <2>2. d \in OneDemo /\ \A g \in Guest : d.guests[g] = 0
    BY <2>1 DEF OneDemo
  <2>3. demos' = Append(demos, d) /\ accounts' = accounts
    BY <1>1, <1>3, <2>1 DEF Carries
  <2>4. /\ demos' \in Seq(OneDemo) /\ demos' # <<>> /\ demos'[Len(demos')] = d
    BY <1>1, <2>2, <2>3
  <2>5. seed' = [seed EXCEPT !.at = "template"]
    BY <1>1, <1>3 DEF After
  <2>6. /\ seed' \in SeedRun /\ seed'.at = "template" /\ seed'.left = Guest
        /\ seed'.registered = 0
    BY <1>1, <1>3, <2>5 DEF SeedRun, SeedStep, SeedAt
  <2>7. accounts[Owner] = 1
    BY <1>1, <1>3 DEF SeedAt
  <2>8. SeedAt(seed', accounts', demos')
    BY <2>2, <2>3, <2>4, <2>6, <2>7 DEF SeedAt
  <2>9. QED
    BY <1>1, <2>3, <2>4, <2>6, <2>8 DEF SeedInv
<1>4. ASSUME seed.at \in {"template", "publish"}
      PROVE  /\ demos # <<>> /\ demos[Len(demos)] \in OneDemo
             /\ \A g \in Guest : demos[Len(demos)].guests[g] = 0
             /\ seed.left = Guest /\ seed.registered = 0 /\ accounts[Owner] = 1
  <2>1. demos # <<>>
    BY <1>1, <1>4 DEF SeedAt
  <2>2. Len(demos) \in 1..Len(demos)
    BY <1>1, <2>1
  <2>3. QED
    BY <1>1, <1>4, <2>1, <2>2 DEF SeedAt
<1>5. CASE seed.at = "template"
  <2>1. PICK old, new : /\ old = demos[Len(demos)]
                        /\ new = [old EXCEPT !.template = TRUE]
    OBVIOUS
  <2>2. /\ new \in OneDemo /\ new.template /\ new.guests = old.guests
    BY <1>4, <1>5, <2>1 DEF OneDemo
  <2>3. InDemo(new)
    BY <1>1, <1>5, <2>1 DEF Carries, ThisDemo
  <2>4. /\ demos' \in Seq(OneDemo) /\ demos' # <<>>
        /\ demos'[Len(demos')] = new /\ accounts' = accounts
    BY <1>4, <1>5, <2>2, <2>3, DemoChanged
  <2>5. seed' = [seed EXCEPT !.at = "publish"]
    BY <1>1, <1>5 DEF After
  <2>6. /\ seed' \in SeedRun /\ seed'.at = "publish" /\ seed'.left = Guest
        /\ seed'.registered = 0
    BY <1>1, <1>4, <1>5, <2>5 DEF SeedRun, SeedStep
  <2>7. SeedAt(seed', accounts', demos')
    BY <1>4, <1>5, <2>1, <2>2, <2>4, <2>6 DEF SeedAt
  <2>8. QED
    BY <1>1, <2>4, <2>6, <2>7 DEF SeedInv
<1>6. CASE seed.at = "publish"
  <2>1. PICK old, new : /\ old = demos[Len(demos)]
                        /\ new = [old EXCEPT !.published = TRUE]
    OBVIOUS
  <2>2. old.template
    BY <1>1, <1>6, <2>1 DEF SeedAt
  <2>3. /\ new \in OneDemo /\ new.template /\ new.published
        /\ \A g \in Guest : new.guests[g] = 0
    BY <1>4, <1>6, <2>1, <2>2 DEF OneDemo
  <2>4. InDemo(new)
    BY <1>1, <1>6, <2>1 DEF Carries, ThisDemo
  <2>5. /\ demos' \in Seq(OneDemo) /\ demos' # <<>>
        /\ demos'[Len(demos')] = new /\ accounts' = accounts
    BY <1>4, <1>6, <2>3, <2>4, DemoChanged
  <2>6. There(new) = {} /\ Guest \ seed.left = {}
    BY <1>4, <1>6, <2>3 DEF There
  <2>7. Booked(seed, seed.left, accounts', new)
    <3>1. seed.left = Guest /\ seed.registered = 0
      BY <1>4, <1>6
    <3>2. Cardinality(There(new)) = 0 /\ Cardinality(Guest \ seed.left) = 0
      BY <2>6, FS_EmptySet
    <3>3. QED
      BY <2>3, <2>6, <3>1, <3>2 DEF Booked
  <2>8. seed' = NextGuest(seed)
    BY <1>1, <1>6 DEF After
  <2>9. accounts'[Owner] = 1
    BY <1>4, <1>6, <2>5
  <2>10. seed' \in SeedRun /\ SeedAt(seed', accounts', demos')
    BY <1>1, <2>5, <2>7, <2>8, <2>9, LoopGoesOn
  <2>11. QED
    BY <1>1, <2>5, <2>10 DEF SeedInv
<1>7. CASE seed.at = "guest"
  <2>1. PICK g : g = seed.guest
    OBVIOUS
  <2>2. /\ accounts' \in [Guest \cup {Owner} -> {0, 1}] /\ demos' = demos
        /\ accounts'[Owner] = 1 /\ accounts'[g] = 1
        /\ Booked(seed, seed.left \cup {g}, accounts', demos[Len(demos)])
    BY <1>1, <1>7, <2>1, GuestCarried
  <2>3. demos # <<>> /\ g \in Guest \ seed.left
    BY <1>7, <2>1, InTheLoop
  <2>4. seed' = [seed EXCEPT !.at = "register"]
    BY <1>1, <1>7 DEF After
  <2>5. /\ seed' \in SeedRun /\ seed'.at = "register"
        /\ seed'.left = seed.left /\ seed'.guest = g
        /\ seed'.registered = seed.registered /\ seed'.smooth = seed.smooth
    BY <1>1, <2>1, <2>4 DEF SeedRun, SeedStep
  <2>6. Booked(seed', seed'.left \cup {g}, accounts', demos'[Len(demos')])
    BY <2>2, <2>5 DEF Booked
  <2>7. SeedAt(seed', accounts', demos')
    BY <2>2, <2>3, <2>5, <2>6 DEF SeedAt
  <2>8. QED
    BY <1>1, <2>2, <2>5, <2>7 DEF SeedInv
<1>8. CASE seed.at = "register"
  <2>1. PICK new, s : /\ new = demos'[Len(demos')]
                      /\ s = [seed EXCEPT !.registered = @ + 1]
    OBVIOUS
  <2>2. /\ accounts' = accounts /\ accounts[Owner] = 1
        /\ demos' \in Seq(OneDemo) /\ demos' # <<>>
        /\ new.template /\ new.published
        /\ \A g \in seed.left : new.guests[g] = 0
        /\ \A g \in There(new) : accounts[g] = 1
        /\ seed.registered + 1 <= Cardinality(There(new))
        /\ seed.smooth =>
              seed.registered + 1 = Cardinality(Guest \ seed.left)
    BY <1>1, <1>8, <2>1, RegisterCarried
  <2>3. seed.registered + 1 \in 0..Cardinality(Guest)
    <3>1. Cardinality(There(new)) \in 0..Cardinality(Guest)
      BY GuestNumbers DEF There
    <3>2. seed.registered \in 0..Cardinality(Guest) /\ Cardinality(Guest) \in Nat
      BY <1>1, GuestNumbers DEF SeedRun
    <3>3. QED
      BY <2>2, <3>1, <3>2
  <2>4. /\ s \in SeedRun /\ s.left = seed.left /\ s.smooth = seed.smooth
        /\ s.registered = seed.registered + 1
    BY <1>1, <2>1, <2>3 DEF SeedRun
  <2>5. Booked(s, s.left, accounts', demos'[Len(demos')])
    BY <2>1, <2>2, <2>4 DEF Booked
  <2>6. seed' = NextGuest(s)
    BY <1>1, <1>8, <2>1 DEF After
  <2>7. accounts'[Owner] = 1
    BY <2>2
  <2>8. seed' \in SeedRun /\ SeedAt(seed', accounts', demos')
    BY <2>2, <2>4, <2>5, <2>6, <2>7, LoopGoesOn
  <2>9. QED
    BY <1>1, <2>2, <2>8 DEF SeedInv
<1>9. QED
  BY <1>1, <1>2, <1>3, <1>5, <1>6, <1>7, <1>8 DEF SeedStep

\* Whatever a call does before the script stops, it breaks no type.
LEMMA EffectTyped ==
    ASSUME SeedInv, seed.at \in SeedStep, Effect
    PROVE  /\ accounts' \in [Guest \cup {Owner} -> {0, 1}]
           /\ demos' \in Seq(OneDemo)
<1>1. CASE UNCHANGED <<accounts, demos>>
  BY <1>1 DEF SeedInv
<1>2. CASE Carries(seed.at)
  <2>1. CASE seed.at \in {"guest", "register"}
    BY <1>2, <2>1, LoopAfterFailure DEF Effect
  <2>2. CASE seed.at \notin {"guest", "register"}
    <3>1. CASE seed.at = "organizer"
      BY <1>2, <3>1, AccountKept DEF Carries, SeedInv
    <3>2. CASE seed.at = "event"
      <4>1. PICK d : d = [template |-> FALSE, published |-> FALSE,
                          guests |-> [g \in Guest |-> 0]]
        OBVIOUS
      <4>2. d \in OneDemo
        BY <4>1 DEF OneDemo
      <4>3. demos' = Append(demos, d) /\ accounts' = accounts
        BY <1>2, <3>2, <4>1 DEF Carries
      <4>4. QED
        BY <4>2, <4>3 DEF SeedInv
    <3>3. CASE seed.at \in {"template", "publish"}
      <4>1. PICK old : old = demos[Len(demos)]
        OBVIOUS
      <4>2. demos # <<>>
        BY <3>3 DEF SeedInv, SeedAt
      <4>3. Len(demos) \in 1..Len(demos)
        BY <4>2 DEF SeedInv
      <4>4. old \in OneDemo
        BY <4>1, <4>3 DEF SeedInv
      <4>5. PICK x, y : /\ x = [old EXCEPT !.template = TRUE]
                        /\ y = [old EXCEPT !.published = TRUE]
        OBVIOUS
      <4>6. x \in OneDemo /\ y \in OneDemo
        BY <4>4, <4>5 DEF OneDemo
      <4>7. InDemo(x) \/ InDemo(y)
        BY <1>2, <3>3, <4>1, <4>5 DEF Carries, ThisDemo
      <4>8. QED
        BY <4>2, <4>6, <4>7, DemoChanged DEF SeedInv
    <3>4. QED
      BY <2>2, <3>1, <3>2, <3>3 DEF SeedStep
  <2>3. QED
    BY <2>1, <2>2
<1>3. QED
  BY <1>1, <1>2 DEF Effect

\* A call that fails, before or after it was carried out.
LEMMA SeedCallFailsKeeps ==
    ASSUME SeedInv, SeedCallFails
    PROVE  SeedInv'
<1>1. /\ seed.at \in SeedStep /\ Effect /\ runs' = runs /\ seed \in SeedRun
      /\ seed' = [Caught(seed) EXCEPT !.smooth = FALSE] /\ runs \in 0..MaxRun
  BY DEF SeedCallFails, Effect, SeedInv
<1>2. CASE seed.at \in {"guest", "register"}
  <2>1. seed' = [NextGuest(seed) EXCEPT !.smooth = FALSE]
    BY <1>1, <1>2 DEF Caught
  <2>2. /\ accounts' \in [Guest \cup {Owner} -> {0, 1}]
        /\ demos' \in Seq(OneDemo)
        /\ seed' \in SeedRun /\ SeedAt(seed', accounts', demos')
    BY <1>1, <1>2, <2>1, LoopAfterFailure
  <2>3. QED
    BY <1>1, <2>2 DEF SeedInv
<1>3. CASE seed.at \notin {"guest", "register"}
  <2>1. PICK s : s = [seed EXCEPT !.at = "stopped"]
    OBVIOUS
  <2>2. s \in SeedRun /\ s.at = "stopped" /\ seed' = [s EXCEPT !.smooth = FALSE]
    BY <1>1, <1>3, <2>1 DEF Caught, SeedRun
  <2>3. seed' \in SeedRun /\ seed'.at = "stopped"
    BY <2>2 DEF SeedRun
  <2>4. SeedAt(seed', accounts', demos')
    BY <2>3 DEF SeedAt
  <2>5. QED
    BY <1>1, <2>3, <2>4, EffectTyped DEF SeedInv
<1>4. QED
  BY <1>2, <1>3

\* Every step of the script, and its end wherever it is killed.
LEMMA SeedStepKeeps ==
    ASSUME SeedInv, SeedNext
    PROVE  SeedInv'
<1>1. CASE StartSeed
  <2>1. seed' = [NotRun EXCEPT !.at = "organizer", !.left = Guest]
    BY <1>1 DEF StartSeed
  <2>2. seed' = [at |-> "organizer", left |-> Guest, guest |-> None,
                 registered |-> 0, smooth |-> TRUE]
    BY <2>1 DEF NotRun
  <2>3. seed' \in SeedRun
    BY <2>2, GuestNumbers DEF SeedRun, SeedStep
  <2>4. SeedAt(seed', accounts', demos')
    BY <2>2 DEF SeedAt
  <2>5. runs' \in 0..MaxRun
    BY <1>1, SeedAssumption DEF StartSeed, SeedInv
  <2>6. QED
    BY <1>1, <2>3, <2>4, <2>5 DEF SeedInv, StartSeed
<1>2. CASE SeedKilled
  <2>1. seed' = [seed EXCEPT !.at = "stopped", !.guest = None]
    BY <1>2 DEF SeedKilled
  <2>2. seed' \in SeedRun /\ seed'.at = "stopped"
    BY <2>1 DEF SeedInv, SeedRun
  <2>3. SeedAt(seed', accounts', demos')
    BY <2>2 DEF SeedAt
  <2>4. QED
    BY <1>2, <2>2, <2>3, EffectTyped DEF SeedInv, SeedKilled, Effect
<1>3. QED
  BY <1>1, <1>2, SeedCallKeeps, SeedCallFailsKeeps DEF SeedNext

\* Before the first run.
LEMMA SeedStart == SeedInit => SeedInv
BY GuestNumbers, SeedAssumption
DEF SeedInit, SeedInv, NotRun, SeedRun, SeedStep, SeedAt

\* The invariant bounds what the types leave open.
LEMMA SeedTyped == SeedInv => SeedTypeOK
<1>1. OneDemo \subseteq Demo
  BY DEF OneDemo, Demo
<1>2. QED
  BY <1>1 DEF SeedInv, SeedTypeOK, SeedRun

\* What the invariant says of a run that has ended well.
LEMMA SeedTells == SeedInv => SeedRepeatable
<1> SUFFICES ASSUME SeedInv PROVE SeedRepeatable
  OBVIOUS
<1>1. \A p \in DOMAIN accounts : accounts[p] <= 1
  BY DEF SeedInv
<1>2. \A d \in DOMAIN demos : \A g \in Guest : demos[d].guests[g] <= 1
  <2>1. \A d \in DOMAIN demos : demos[d] \in OneDemo
    BY DEF SeedInv
  <2>2. QED
    BY <2>1 DEF OneDemo
<1>3. ASSUME seed.at = "ready"
      PROVE  LET demo == demos[ThisDemo]
                 there == {g \in Guest : demo.guests[g] = 1}
             IN  /\ demo.template /\ demo.published
                 /\ accounts[Owner] = 1
                 /\ \A g \in there : accounts[g] = 1
                 /\ seed.registered <= Cardinality(there)
                 /\ seed.smooth => seed.registered = Cardinality(Guest)
  <2>1. PICK demo : demo = demos[Len(demos)]
    OBVIOUS
  <2>2. accounts[Owner] = 1 /\ Booked(seed, {}, accounts, demo)
    BY <1>3, <2>1 DEF SeedInv, SeedAt
  <2>3. Guest \ {} = Guest
    OBVIOUS
  <2>4. QED
    BY <2>1, <2>2, <2>3 DEF Booked, There, ThisDemo
<1>4. QED
  BY <1>1, <1>2, <1>3 DEF SeedRepeatable

\* However often the demo script is run and wherever it stops, nobody gets a
\* second account or a second registration, and a run that ends well leaves
\* what it reports, for any number of attendees.
THEOREM DemoIsRepeatable == SeedSpec => []SeedRepeatable
<1>1. SeedInv /\ [SeedNext]_seedVars => SeedInv'
  BY SeedStepKeeps DEF seedVars, SeedInv
<1>2. QED
  BY <1>1, SeedStart, SeedTells, PTL DEF SeedSpec

-----------------------------------------------------------------------------
(* All parts                                                               *)

\* The inductive invariant of everything in MCFrontOffice.
FrontOfficeInv ==
    /\ part \in {"rules", "form", "page", "dashboard", "console", "seed"}
    /\ RulesInv
    /\ FormInv
    /\ PageInv
    /\ FiguresInv
    /\ ConsoleInv
    /\ SeedInv

\* A step of one part is a step of every part, or leaves it alone.
LEMMA OnePartAtATime ==
    ASSUME [FrontOfficeNext]_frontVars
    PROVE  /\ [Next]_vars /\ [FormNext]_formVars /\ [PageNext]_pageVars
           /\ [DashboardNext]_dashboardVars /\ [ConsoleNext]_consoleVars
           /\ [SeedNext]_seedVars
           /\ part' = part
BY DEF FrontOfficeNext, frontVars

\* The parts keep their invariants together.
LEMMA FrontOfficeStep ==
    ASSUME FrontOfficeInv, [FrontOfficeNext]_frontVars
    PROVE  FrontOfficeInv'
<1>1. RulesInv'
  BY OnePartAtATime, RulesStep DEF FrontOfficeInv
<1>2. FormInv'
  BY OnePartAtATime, FormStep DEF FrontOfficeInv
<1>3. PageInv'
  BY OnePartAtATime, PageStep DEF FrontOfficeInv
<1>4. FiguresInv'
  BY OnePartAtATime, FiguresStayNear DEF FrontOfficeInv
<1>5. ConsoleInv'
  <2>1. CASE ConsoleNext
    BY <2>1, ConsoleStep DEF FrontOfficeInv
  <2>2. CASE UNCHANGED consoleVars
    BY <2>2 DEF FrontOfficeInv, consoleVars, ConsoleInv, ConsoleTypeOK
  <2>3. QED
    BY <2>1, <2>2, OnePartAtATime
<1>6. SeedInv'
  <2>1. CASE SeedNext
    BY <2>1, SeedStepKeeps DEF FrontOfficeInv
  <2>2. CASE UNCHANGED seedVars
    BY <2>2 DEF FrontOfficeInv, seedVars, SeedInv
  <2>3. QED
    BY <2>1, <2>2, OnePartAtATime
<1>7. QED
  BY <1>1, <1>2, <1>3, <1>4, <1>5, <1>6, OnePartAtATime DEF FrontOfficeInv

\* FrontOfficeInv is an invariant of all parts together.
LEMMA FrontOfficeInvariance == FrontOfficeSpec => []FrontOfficeInv
<1>1. FrontOfficeInit => FrontOfficeInv
  BY InitInv, FormStart, PageStart, FiguresBegin, ConsoleStart, SeedStart
  DEF FrontOfficeInit, FrontOfficeInv
<1>2. QED
  BY <1>1, FrontOfficeStep, PTL DEF FrontOfficeSpec

\* Whatever part a behaviour is about, and for any instance, the results of
\* the rules, the form and its requests, the page, the figures, the session,
\* the clicks and what the demo script leaves keep their types.
THEOREM FrontOfficeTypeCorrect == FrontOfficeSpec => []FrontOfficeTypeOK
<1>1. FrontOfficeInv => FrontOfficeTypeOK
  <2> SUFFICES ASSUME FrontOfficeInv PROVE FrontOfficeTypeOK
    OBVIOUS
  <2>1. /\ TypeOK /\ FormTypeOK /\ PageTypeOK /\ DashboardTypeOK
        /\ ConsoleTypeOK /\ SeedTypeOK
    BY SeedTyped DEF FrontOfficeInv, RulesInv, FormInv, PageInv, FiguresInv,
                     FiguresTyped, ConsoleInv
  <2>2. QED
    BY <2>1 DEF FrontOfficeInv, FrontOfficeTypeOK
<1>2. QED
  BY <1>1, FrontOfficeInvariance, PTL

\* What the parts promise holds in every behaviour of MCFrontOffice: the
\* rules' last word, the order of the form, the pages that were chosen and
\* edited, the answers to clicks, the demo that can be set up again.
THEOREM FrontOfficeKeepsItsPromises ==
    FrontOfficeSpec =>
        [](/\ FieldsFollowLastWord /\ PriceFollowsLastWord
           /\ RejectedIffEmpty /\ StoredAsText
           /\ RenderedAsReordered
           /\ PagesWereChosen /\ LastEditShown
           /\ FiguresOffBySaves
           /\ AnswersTrue
           /\ SeedRepeatable)
<1>1. FrontOfficeInv =>
        /\ FieldsFollowLastWord /\ PriceFollowsLastWord
        /\ RejectedIffEmpty /\ StoredAsText
        /\ RenderedAsReordered
        /\ PagesWereChosen /\ LastEditShown
        /\ FiguresOffBySaves
        /\ AnswersTrue
        /\ SeedRepeatable
  BY FieldsTell, PriceTells, ErrorsTell, TextsTell, FormTells, PageTells,
     FiguresAreNear, ConsoleTells, SeedTells
  DEF FrontOfficeInv
<1>2. QED
  BY <1>1, FrontOfficeInvariance, PTL

=============================================================================
