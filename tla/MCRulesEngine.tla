--------------------------- MODULE MCRulesEngine ---------------------------
(***************************************************************************)
(* RulesEngine on all lists of at most two rules from a repertoire, and on *)
(* every operator with every pair of values.                               *)
(***************************************************************************)
EXTENDS RulesEngine, SequencesExt

CONSTANTS f1, f2, t1, t2

Num(n) == [kind |-> "number", of |-> n]
Nothing(kind) == [kind |-> kind, of |-> 0]

SomeValues ==
    {Num(0), Num(5), [kind |-> "text", of |-> 0], [kind |-> "text", of |-> 5],
     Nothing("empty"), Nothing("null"), Nothing("undefined")}

If(f, op, v) == [field |-> f, operator |-> op, value |-> v,
                 list |-> {v}, isArray |-> TRUE]
Do(action, target, v) == [action |-> action, target |-> target, value |-> v]
Of(priority, active, conditions, logic, actions) ==
    [priority |-> priority, active |-> active, conditions |-> conditions,
     conditionLogic |-> logic, actions |-> actions]

\* No condition at all (always with AND, never with OR), and two conditions.
SomeConditions ==
    {<<>>, <<If(f1, "eq", Num(5)), If(f2, "is_null", Num(0))>>}

SomeActions ==
    {<<Do("show_field", f1, Num(0)), Do("hide_field", f2, Num(0))>>,
     <<Do("hide_field", f1, Num(0)), Do("require_field", f1, Num(0))>>,
     <<Do("set_pricing", t1, Num(0)), Do("set_field", f1, Num(5))>>,
     <<Do("set_pricing", t2, Nothing("undefined")),
       Do("set_pricing", t1, Num(5)), Do("set_status", f1, Num(5))>>,
     <<Do("set_field", f1, Num(0)), Do("send_notification", f1, Num(0))>>}

SomeRules ==
    {Of(p, TRUE, cs, logic, as) : p \in {1, 2}, cs \in SomeConditions,
        logic \in {"AND", "OR"}, as \in SomeActions}
    \cup {Of(1, FALSE, <<>>, "AND", as) : as \in SomeActions}

\* One rule with one condition, for every operator, array or not.
OperatorRules ==
    {Of(1, TRUE, <<[If(f1, op, v) EXCEPT !.isArray = array]>>, "AND",
        <<Do("require_field", f2, v)>>) :
            op \in Operator, v \in SomeValues, array \in BOOLEAN}

MCRuleList == SeqOf(SomeRules, 2) \cup SeqOf(OperatorRules, 1)

MCAnswers == {[f \in {f1, f2} |-> IF f = f1 THEN v ELSE w] :
                 v \in SomeValues, w \in {Num(5), Nothing("undefined")}}

MCBasePrice == {Num(5)}

=============================================================================
