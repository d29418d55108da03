--------------------------- MODULE MCBranchCoverage ---------------------------
(* A Fedora and a RHEL; the edition is chosen at build time, so are flavour   *)
(* and stage; the file sets suse and edition.  The command line says          *)
(* --with tests --without docs.  The RHEL's stage has a body that does not    *)
(* expand.                                                                    *)
EXTENDS BranchCoverage

Undefined == [m \in {"rhel", "edition", "flavour", "stage", "suse"} |-> None]

MCRegistry ==
  [p \in Profiles |-> IF p = "el" THEN [Undefined EXCEPT !["rhel"] = "9", !["stage"] = Unknown]
                                  ELSE [Undefined EXCEPT !["edition"] = "0", !["stage"] = "rc"]]
MCArchs == [p \in Profiles |-> IF p = "el" THEN {"x86_64", "noarch"} ELSE {}]
MCNumbers == [s \in {"0", "1", "9"} |-> IF s = "9" THEN 9 ELSE IF s = "1" THEN 1 ELSE 0]

MCVariants ==
  << [name |-> "edition", values |-> <<"0", "1">>],
     [name |-> "flavour", values |-> <<"1">>],
     [name |-> "stage", values |-> <<"0", "1">>] >>

If(e) == [kind |-> "if", expr |-> e]
Rhel == <<"concat", "rhel">>
Suse == <<"concat", "suse">>
Edition(v) == <<"eq", <<"quoted", "edition">>, <<"text", v>>>>

MCHeads ==
  { If(<<"lt", <<"int", 7>>, Rhel>>), If(Suse), If(<<"concat", "flavour">>), If(Edition("1")), If(Edition("9")),
    If(<<"eq", <<"macro", "stage">>, <<"int", 1>>>>),
    If(<<"or", Rhel, <<"and", <<"concat", "flavour">>, <<"not", <<"optional", "edition">>>>>>>>),
    If(<<"and", <<"concat", "edition">>, <<"not", <<"optional", "stage">>>>>>),
    If(<<"with", "gtk">>), If(<<"or", <<"without", "tests">>, <<"with", "docs">>>>),
    [kind |-> "ifnarch", expr |-> <<"list", << <<"text", "i386">> >> >>],
    [kind |-> "ifarch", expr |-> <<"list", << <<"text", "x86_64">>, <<"macro", "suse">> >> >>] }

\* Their expressions, and the operands of those: a set that TLC has at hand,
\* since it is the domain of the recursive functions.
MCExprs ==
  { <<"int", 1>>, <<"int", 7>>, <<"text", "1">>, <<"text", "9">>, <<"quoted", "edition">>,
    <<"macro", "stage">>, <<"optional", "edition">>, <<"optional", "stage">>,
    <<"concat", "rhel">>, <<"concat", "edition">>, <<"concat", "flavour">>, <<"concat", "suse">>,
    <<"with", "gtk">>, <<"with", "docs">>, <<"without", "tests">>,
    <<"not", <<"optional", "edition">>>>, <<"not", <<"optional", "stage">>>>,
    <<"eq", <<"quoted", "edition">>, <<"text", "1">>>>,
    <<"eq", <<"quoted", "edition">>, <<"text", "9">>>>,
    <<"eq", <<"macro", "stage">>, <<"int", 1>>>>,
    <<"lt", <<"int", 7>>, <<"concat", "rhel">>>>,
    <<"and", <<"concat", "edition">>, <<"not", <<"optional", "stage">>>>>>,
    <<"and", <<"concat", "flavour">>, <<"not", <<"optional", "edition">>>>>>,
    <<"or", <<"without", "tests">>, <<"with", "docs">>>>,
    <<"or", <<"concat", "rhel">>, <<"and", <<"concat", "flavour">>, <<"not", <<"optional", "edition">>>>>>>> }

MCDefinitions ==
  { [kind |-> "global", name |-> "suse", value |-> "1"],
    [kind |-> "global", name |-> "suse", value |-> "0"],
    [kind |-> "default", name |-> "edition", value |-> "1"] }

MCDeclarations ==
  { [name |-> "gtk", value |-> "1"], [name |-> "gtk", value |-> Unknown],
    [name |-> "tests", value |-> "0"], [name |-> "docs", value |-> "1"] }
=============================================================================
