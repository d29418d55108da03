---------------------------- MODULE MCBranchRules ----------------------------
(* Files over two macros, two architectures and a condition nobody reads. *)
EXTENDS BranchRules

A == <<"atom", "a">>
B == <<"atom", "b">>
NotA == <<"not", A>>
X == <<"arch", {"x"}>>
XY == <<"arch", {"x", "y"}>>
Raw == <<"raw", "r">>

\* a || !a, a && !a, !a && b, a || (!a && b), (a && b) || (a && !a).
Always == <<"or", A, NotA>>
Never == <<"and", A, NotA>>
OnlyB == <<"and", NotA, B>>
Both == <<"and", A, B>>
AorB == <<"or", A, B>>
Absorbed == <<"or", A, Both>>
Factored == <<"or", Both, <<"and", A, <<"not", B>>>>>>

MCExprs ==
  {A, B, NotA, <<"not", B>>, Raw, X, XY, Always, Never, OnlyB, Both, AorB, Absorbed,
   <<"and", A, <<"not", B>>>>, Factored}

MCConditions ==
  [kind : {"if"}, expr : {A, OnlyB, AorB, Always, Never, Absorbed, Factored, Raw}]
    \cup [kind : {"ifarch"}, expr : {X, XY}]
=============================================================================
