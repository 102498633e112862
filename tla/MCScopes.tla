------------------------------ MODULE MCScopes ------------------------------
(* Instances of Scopes for TLC: all forms of statements, and only lists.   *)
EXTENDS Scopes

MCNodeRows == {<<Node("x")>>, <<ElemNode("x", 0), Node("y")>>}
MCExprRows == {<<VarExpr("x")>>, <<ListExpr(<<"a", "a">>)>>, <<StrExpr("b"), ElemExpr("x", 0)>>}

MCListRows == {<<Node("x")>>, <<Node("y")>>}
MCListExprRows == {<<StrExpr("a")>>, <<StrExpr("b")>>, <<ListExpr(<<"a", "a", "a">>)>>}
=============================================================================
