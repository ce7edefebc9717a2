---------------------------- MODULE MCQuestions ----------------------------
(***************************************************************************)
(* A workspace of two tables and one page, what the model may make of a    *)
(* message for it, with every kind of question and most pairs of them,     *)
(* rows of two tables to choose from included, and three plans.            *)
(***************************************************************************)
EXTENDS Questions

SomeKinds == [db |-> "database", db2 |-> "database", pg |-> "page"]
SomeItems == [db |-> {"i1", "i2"}, db2 |-> {"i4"}, pg |-> {"i3"}]
ThreeColumns == [name |-> "title", tag |-> "select", shelf |-> "relation", day |-> "date"]
TwoOptions == {"o1", "o2"}

Row(target, conf, item, items, content, fields) ==
    [target |-> target, conf |-> conf, item |-> item, items |-> items, content |-> content, fields |-> fields]
Named(tag, day) == [name |-> Value("text", SURE), shelf |-> Value("o1", SURE), tag |-> tag, day |-> day]
Tags == {NotMentioned, ExplicitNull, Ambiguous(TwoOptions), Value("o1", SURE), Value("o1", 0), Value(Unfit, SURE)}
Days == {NotMentioned, Value("monday", 0)}
NewRows == {Row("db", conf, None, {}, FALSE, Named(tag, day)) : conf \in {0, SURE}, tag \in Tags, day \in Days}
    \cup {Row("db", SURE, None, {}, FALSE, [name |-> Value("text", SURE), tag |-> Value("o1", 0)])}
OldRows == {Row("db", conf, at[1], at[2], FALSE, [tag |-> tag, day |-> day]) :
                conf \in {0, SURE}, at \in {<<None, {}>>, <<"i1", {}>>, <<None, {"i2"}>>, <<None, {"i1", "i2"}>>},
                tag \in Tags, day \in Days}
AtPage(conf) == {Row("pg", conf, at[1], at[2], content, <<>>) :
                at \in {<<None, {}>>, <<"i3", {}>>, <<None, {"i3"}>>}, content \in BOOLEAN}
ElsewhereRows == {Row("db2", conf, at[1], at[2], FALSE, [tag |-> Value("o2", SURE)]) :
                      conf \in 1 .. SURE, at \in {<<"i4", {}>>, <<None, {"i4"}>>}}
Reading(intents, cands) == [intent : intents, conf : {0, SURE}, clarify : {FALSE}, cands : cands]
FirstReadings ==
    Reading({"create"}, {<<c>> : c \in NewRows} \cup {<<c, d>> : c \in NewRows, d \in AtPage(1) \cup AtPage(SURE)})
     \cup Reading({"update"}, {<<c>> : c \in OldRows} \cup {<<c, d>> : c \in {x \in OldRows : x.fields.tag = Value("o1", SURE)},
                                                               d \in ElsewhereRows})
     \cup Reading({"create", "append", "rewrite", "search"}, {<<c>> : c \in AtPage(0) \cup AtPage(SURE)})
     \cup [intent : {"create", "unknown"}, conf : {SURE}, clarify : BOOLEAN, cands : {<<>>}]
\* The answers to a question in the user's own words.
Again == [intent : {"create"}, conf : {SURE}, clarify : {FALSE},
          cands : {<<Row("db", SURE, None, {}, FALSE, Named(tag, NotMentioned))>> :
                   tag \in {NotMentioned, Value("o1", SURE), Ambiguous({"o1", "o2"})}}]
Spec1 == [action |-> "create", target |-> "db", item |-> None, fields |-> [name |-> "text", shelf |-> "o1"]]
Spec2 == [action |-> "create", target |-> "db", item |-> None, fields |-> [name |-> "text", shelf |-> "o1", tag |-> "o2"]]
Spec3 == [action |-> "update", target |-> "db", item |-> "i1", fields |-> [tag |-> "o2"]]
Free == [action |-> "free", target |-> None, item |-> None, fields |-> <<>>]
SomePlans == {<<Spec1, Spec2, Spec1>>, <<Spec1, Spec3>>, <<Free>>}
TwoTexts == <<FirstReadings, Again>>
=============================================================================
