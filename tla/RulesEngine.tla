---------------------------- MODULE RulesEngine ----------------------------
(***************************************************************************)
(* The rules engine of registration-service: the rules of an event's form  *)
(* fields, evaluated on the answers of a sign-up, decide which fields are  *)
(* visible and required, the price, and whether the form is accepted.      *)
(*                                                                         *)
(* evaluateForm is one synchronous call.  Its two nested loops are the     *)
(* steps here, so that what holds after each action can be stated, and a   *)
(* reference definition that sorts and loops over nothing is compared with *)
(* what they leave behind.                                                 *)
(***************************************************************************)
EXTENDS Integers, Sequences

CONSTANTS
    Field,      \* the fields of the form
    Tier,       \* names of pricing tiers
    RuleList,   \* lists of rules, as the form fields store them
    Answers,    \* what sign-ups answer: [Field -> Value]
    BasePrice   \* what callers ask for before the rules

\* JavaScript's values, as far as the operators tell them apart: numbers,
\* their decimal texts, the empty text and the two ways to be absent.
Given == [kind: {"number", "text"}, of: Int] \cup [kind: {"empty"}, of: {0}]

Value == Given \cup [kind: {"null", "undefined"}, of: {0}]

Operator ==
    {"eq", "neq", "gt", "gte", "lt", "lte", "contains", "not_contains",
     "in", "not_in", "is_null", "is_not_null"}

ActionName ==
    {"set_field", "show_field", "hide_field", "set_status", "set_pricing",
     "require_field", "send_notification", "trigger_webhook"}

\* in and not_in are stored with an array, list, or by mistake without one;
\* the other operators with one value.
Condition ==
    [field: Field, operator: Operator, value: Value, list: SUBSET Value,
     isArray: BOOLEAN]

Action == [action: ActionName, target: Field \cup Tier, value: Value]

Rule ==
    [priority: Int, active: BOOLEAN, conditions: Seq(Condition),
     conditionLogic: {"AND", "OR"}, actions: Seq(Action)]

\* Actions on fields name a field, set_pricing names a tier.
WellTargeted(a) ==
    /\ a.action \in {"set_field", "show_field", "hide_field", "require_field"}
          => a.target \in Field
    /\ a.action = "set_pricing" => a.target \in Tier

ASSUME RulesAssumption ==
    /\ "_status" \notin Field
    /\ \A list \in RuleList :
          /\ list \in Seq(Rule)
          /\ \A r \in DOMAIN list : \A i \in DOMAIN list[r].actions :
                WellTargeted(list[r].actions[i])
    /\ \A a \in Answers : a \in [Field -> Value]
    /\ BasePrice \subseteq Given

VARIABLES
    rules,      \* the rules of the form
    answers,    \* context.formData
    basePrice,
    pc,         \* where the evaluation stands
    pending,    \* matched rules whose turn has not come
    current,    \* the rule whose actions are being applied, 0 at first
    applied,    \* how many of them have been
    form        \* the result so far

vars == <<rules, answers, basePrice, pc, pending, current, applied, form>>

FormResult ==
    [visibleFields: SUBSET Field, hiddenFields: SUBSET Field,
     requiredFields: SUBSET Field, errors: SUBSET Field,
     pricingTier: Tier \cup {"standard"}, finalPrice: Given,
     updatedFormData: [Field \cup {"_status"} -> Value]]

\* The result is typed at every step; there always is a price.
TypeOK ==
    /\ rules \in RuleList
    /\ answers \in Answers
    /\ basePrice \in BasePrice
    /\ pc \in {"evaluate", "apply", "done"}
    /\ pending \subseteq DOMAIN rules
    /\ current \in DOMAIN rules \cup {0}
    /\ applied \in Nat
    /\ form \in FormResult

-----------------------------------------------------------------------------
(* JavaScript                                                              *)

Absent(v) == v.kind \in {"null", "undefined"}

IsText(v) == v.kind \in {"text", "empty"}

\* Mutant of LooselyEqual: v === w.
StrictlyEqual(v, w) == v = w

\* v == w: texts and absent values compare among themselves, a text and a
\* number by the number of the text.
LooselyEqual(v, w) ==
    IF Absent(v) \/ Absent(w) THEN Absent(v) /\ Absent(w)
    ELSE IF IsText(v) /\ IsText(w) THEN v = w
    ELSE v.of = w.of

\* Number(undefined) is NaN, with which every comparison is false; the number
\* of null and of the empty text is 0.
Comparable(v, w) == v.kind # "undefined" /\ w.kind # "undefined"

\* String(v).includes(String(w)), for numbers of one digit.
Includes(v, w) ==
    \/ w.kind = "empty"
    \/ v = w
    \/ {v.kind, w.kind} = {"number", "text"} /\ v.of = w.of

\* Neither absent, nor empty, nor the number 0.
Truthy(v) == v.kind = "text" \/ (v.kind = "number" /\ v.of # 0)

\* Mutant of Coalesce: value alone.
CoalesceNothing(v, otherwise) == v

\* Mutant of Coalesce: value || otherwise.
CoalesceFalsy(v, otherwise) == IF Truthy(v) THEN v ELSE otherwise

\* value ?? otherwise
Coalesce(v, otherwise) == IF Absent(v) THEN otherwise ELSE v

-----------------------------------------------------------------------------
(* Which rules match                                                       *)

\* evaluateCondition, on the value v of the condition's field.
Holds(c, v) ==
    \/ c.operator = "eq" /\ LooselyEqual(v, c.value)
    \/ c.operator = "neq" /\ ~LooselyEqual(v, c.value)
    \/ c.operator = "gt" /\ Comparable(v, c.value) /\ v.of > c.value.of
    \/ c.operator = "gte" /\ Comparable(v, c.value) /\ v.of >= c.value.of
    \/ c.operator = "lt" /\ Comparable(v, c.value) /\ v.of < c.value.of
    \/ c.operator = "lte" /\ Comparable(v, c.value) /\ v.of <= c.value.of
    \/ c.operator = "contains" /\ Includes(v, c.value)
    \/ c.operator = "not_contains" /\ ~Includes(v, c.value)
    \/ c.operator = "in" /\ c.isArray /\ v \in c.list
    \/ c.operator = "not_in" /\ c.isArray /\ v \notin c.list
    \/ c.operator = "is_null" /\ (Absent(v) \/ v.kind = "empty")
    \/ c.operator = "is_not_null" /\ ~(Absent(v) \/ v.kind = "empty")

\* every on no condition is true, some on none is false.
Matched(rule) ==
    LET holds(i) == Holds(rule.conditions[i], answers[rule.conditions[i].field])
    IN  IF rule.conditionLogic = "AND"
        THEN \A i \in DOMAIN rule.conditions : holds(i)
        ELSE \E i \in DOMAIN rule.conditions : holds(i)

\* The rules whose actions are applied.
Firing == {r \in DOMAIN rules : rules[r].active /\ Matched(rules[r])}

\* Mutant of Earlier: the lowest priority first.
EarlierAscending(r, s) ==
    \/ rules[r].priority < rules[s].priority
    \/ rules[r].priority = rules[s].priority /\ r < s

\* The order of evaluateRules: highest priority first, and a stable sort.
Earlier(r, s) ==
    \/ rules[r].priority > rules[s].priority
    \/ rules[r].priority = rules[s].priority /\ r < s

-----------------------------------------------------------------------------
(* Applying the actions                                                    *)

\* Mutant of Shown: a field once hidden stays among the hidden ones.
ShownOnly(res, f) ==
    [res EXCEPT !.visibleFields = @ \cup {f}]

Shown(res, f) ==
    [res EXCEPT !.visibleFields = @ \cup {f}, !.hiddenFields = @ \ {f}]

Hidden(res, f) ==
    [res EXCEPT !.hiddenFields = @ \cup {f}, !.visibleFields = @ \ {f}]

\* The result res after action a.  Notifications and webhooks do nothing.
Applied(res, a) ==
    CASE a.action = "show_field" -> Shown(res, a.target)
      [] a.action = "hide_field" -> Hidden(res, a.target)
      [] a.action = "require_field" ->
            [res EXCEPT !.requiredFields = @ \cup {a.target}]
      [] a.action = "set_pricing" ->
            [res EXCEPT !.pricingTier = a.target,
                        !.finalPrice = Coalesce(a.value, basePrice)]
      [] a.action = "set_field" ->
            [res EXCEPT !.updatedFormData[a.target] = a.value]
      [] a.action = "set_status" ->
            [res EXCEPT !.updatedFormData["_status"] = a.value]
      [] OTHER -> res

\* Mutant of Missing: looks at the answers, not at what the rules set.
MissingAnswers(res) == {f \in res.requiredFields : ~Truthy(answers[f])}

\* The required fields that are still empty.
Missing(res) == {f \in res.requiredFields : ~Truthy(res.updatedFormData[f])}

Init ==
    /\ rules \in RuleList
    /\ answers \in Answers
    /\ basePrice \in BasePrice
    /\ pc = "evaluate"
    /\ pending = {}
    /\ current = 0
    /\ applied = 0
    /\ form = [visibleFields |-> {}, hiddenFields |-> {},
               requiredFields |-> {}, errors |-> {},
               pricingTier |-> "standard", finalPrice |-> basePrice,
               updatedFormData |-> [f \in Field \cup {"_status"} |->
                   IF f \in Field THEN answers[f]
                   ELSE [kind |-> "undefined", of |-> 0]]]

\* evaluateRules: every rule is matched with the answers before any action is
\* applied.
Evaluate ==
    /\ pc = "evaluate"
    /\ pc' = "apply"
    /\ pending' = Firing
    /\ UNCHANGED <<rules, answers, basePrice, current, applied, form>>

\* Every action of the current rule has been applied.
RuleOver == current # 0 => applied = Len(rules[current].actions)

NextRule ==
    /\ pc = "apply"
    /\ RuleOver
    /\ \E r \in pending :
          /\ \A s \in pending \ {r} : Earlier(r, s)
          /\ current' = r
          /\ pending' = pending \ {r}
    /\ applied' = 0
    /\ UNCHANGED <<rules, answers, basePrice, pc, form>>

ApplyAction ==
    /\ pc = "apply"
    /\ ~RuleOver
    /\ form' = Applied(form, rules[current].actions[applied + 1])
    /\ applied' = applied + 1
    /\ UNCHANGED <<rules, answers, basePrice, pc, pending, current>>

Validate ==
    /\ pc = "apply"
    /\ RuleOver
    /\ pending = {}
    /\ form' = [form EXCEPT !.errors = Missing(form)]
    /\ pc' = "done"
    /\ UNCHANGED <<rules, answers, basePrice, pending, current, applied>>

Next == Evaluate \/ NextRule \/ ApplyAction \/ Validate

Spec == Init /\ [][Next]_vars

-----------------------------------------------------------------------------
(* The reference: what the firing rules say, without sorting or looping    *)

\* Action i of the firing rule r.
Places == UNION {{<<r, i>> : i \in DOMAIN rules[r].actions} : r \in Firing}

At(p) == rules[p[1]].actions[p[2]]

Says(p, action, target) == At(p).action = action /\ At(p).target = target

\* What p says prevails over what q says: the lower priority has the last
\* word, then the later rule of the form, then the later action of a rule.
Overrides(p, q) ==
    LET P == rules[p[1]].priority
        Q == rules[q[1]].priority
    IN  \/ P < Q
        \/ P = Q /\ p[1] > q[1]
        \/ p[1] = q[1] /\ p[2] > q[2]

\* Of the places S the one that prevails.
LastWord(S) == CHOOSE p \in S : \A q \in S \ {p} : Overrides(p, q)

\* A field is visible, or hidden, exactly if some rule shows, or hides, it and
\* no rule that prevails says the contrary: the order in which priorities and
\* overlapping rules are worked off must come out so.
FieldsFollowLastWord ==
    pc = "done" => \A f \in Field :
        LET shows == {p \in Places : Says(p, "show_field", f)}
            hides == {p \in Places : Says(p, "hide_field", f)}
        IN  /\ f \in form.visibleFields
                  <=> \E p \in shows : \A q \in hides : Overrides(p, q)
            /\ f \in form.hiddenFields
                  <=> \E q \in hides : \A p \in shows : Overrides(q, p)

\* The price and the tier are those of the prevailing set_pricing, a price of
\* 0 included; an action without a price leaves the caller's, and without any
\* such action the tier is the standard one as well.
PriceFollowsLastWord ==
    pc = "done" =>
        LET pricing == {p \in Places : At(p).action = "set_pricing"}
            last == At(LastWord(pricing))
        IN  IF pricing = {}
            THEN form.finalPrice = basePrice /\ form.pricingTier = "standard"
            ELSE /\ form.finalPrice = IF last.value.kind \in {"null", "undefined"}
                                       THEN basePrice ELSE last.value
                 /\ form.pricingTier = last.target

\* The form is rejected exactly for the fields that some rule requires and
\* that stay empty after the rules have set what they set, whatever the order
\* of requiring and setting.
RejectedIffEmpty ==
    pc = "done" => \A f \in Field :
        LET sets == {p \in Places : Says(p, "set_field", f)}
            value == IF sets = {} THEN answers[f] ELSE At(LastWord(sets)).value
        IN  f \in form.errors
              <=> /\ \E p \in Places : Says(p, "require_field", f)
                  /\ ~Truthy(value)

\* What the comment on loose equality promises: a rule authored with a number
\* treats an answer stored as a number and its text alike.
StoredAsText ==
    \A r \in DOMAIN rules : \A i \in DOMAIN rules[r].conditions :
        LET c == rules[r].conditions[i]
            n == answers[c.field].of
        IN  c.operator \notin {"in", "not_in"} /\ c.value.kind = "number"
              => Holds(c, [kind |-> "number", of |-> n])
                 = Holds(c, [kind |-> "text", of |-> n])

=============================================================================
