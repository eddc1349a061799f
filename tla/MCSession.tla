----------------------------- MODULE MCSession -----------------------------
(* Statements for TLC: every clause, every operator, values in quotes with *)
(* what would mean something outside of them.                              *)
EXTENDS Session, TLC

NoAlias == <<>>
Conditions(columns, values, nexts) ==
    [left_col : columns, operator : {">=", "<=", "!=", ">", "<", "="},
     right_val : values, next_logic : nexts]

LastOnes == Conditions({<<"id">>}, {<<"1">>}, {"none"})
        \cup [left_col : {<<"name">>}, operator : {"="}, next_logic : {"none"},
              right_val : {<<"a", "--", "b">>, <<"a", " ", " ", "b">>, <<"--", "where">>}]
FirstOnes == [left_col : {<<"id">>}, operator : {">="}, right_val : {<<"2">>}, next_logic : {"and", "or"}]

Wheres == {<<>>} \cup { <<c>> : c \in LastOnes }
          \cup { <<a, b>> : a \in FirstOnes, b \in { c \in LastOnes : c.left_col = <<"name">> } }

Joins == LET j(t, a) == [table |-> t, alias |-> a, left_col |-> <<"id">>, right_col |-> <<"user">>] IN
         { <<>>, <<j(<<"orders">>, NoAlias)>>, <<j(<<"orders">>, <<"o">>), j(<<"items">>, NoAlias)>> }

Selects ==
    [kind : {"select"}, columns : {<< <<"*">> >>, << <<"id">>, <<"name">> >>}, table : {<<"users">>},
     alias : {NoAlias, <<"u">>}, join : Joins,
     where_clause : {<<>>, << [left_col |-> <<"name">>, operator |-> "!=",
                               right_val |-> <<"--", "where">>, next_logic |-> "none"] >>},
     order_by : {<<>>, <<"id">>}]

Others ==
    [kind : {"delete"}, table : {<<"users">>}, where_clause : Wheres]
    \cup [kind : {"insert"}, table : {<<"users">>},
          values : {<< <<"1">> >>, << <<"1">>, <<"a", "--", "b">> >>, << <<"a", " ", " ", "b">>, <<"2">> >>}]
    \cup [kind : {"create"}, table : {<<"users">>}, if_not_exists : BOOLEAN,
          columns : {<< [name |-> <<"id">>, data_type |-> <<"integer">>],
                        [name |-> <<"name">>, data_type |-> <<"varchar">>] >>}]
    \cup [kind : {"drop"}, table : {<<"users">>}, if_exists : BOOLEAN]

Meant == Selects \cup Others
Shorter == { s \in Others : Len(Written(s)) <= 3 }
NoteTexts == { <<"x">>, <<";", "x">>, <<"x", ";">> }
=============================================================================
