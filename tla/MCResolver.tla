----------------------------- MODULE MCResolver -----------------------------
(* Small repositories for the buildroot solver. *)
EXTENDS Resolver

\* Names, in lexicographic order: a file, a rich expression, three packages
\* and a virtual capability.
File == 1
Rich == 2
Alpha == 3
Beta == 4
Gamma == 5
Virtual == 6

Version(n) == [version |-> n, release |-> 1]
Dep(n) == [name |-> n, op |-> "any", evr |-> NoEvr]
AtLeast(n, v) == [name |-> n, op |-> ">=", evr |-> [version |-> v, release |-> 0]]
Cap(n) == [name |-> n, evr |-> NoEvr]
CapAt(n, v) == [name |-> n, evr |-> Version(v)]

Package(n, v, repo, provides, requires, conflicts, files) ==
    [name |-> n, evr |-> Version(v), repo |-> repo, accepted |-> TRUE,
     provides |-> provides, requires |-> requires, conflicts |-> conflicts,
     files |-> files]

MCFilePaths == {File}
MCRichNames == {Rich}

Ask(requirements) == [base |-> <<>>, implicit |-> <<>>, requirements |-> requirements]

-----------------------------------------------------------------------------
(* Three packages, each name once: who provides the virtual capability, who   *)
(* owns the file, who requires and who conflicts with what.                   *)
ThreePackages == 1 .. 3

Unique(r1, r2, c1, c2, c3, caps, owners) ==
    [p \in ThreePackages |->
       CASE p = 1 -> Package(Alpha, 1, 0, {}, r1, c1, IF 1 \in owners THEN {File} ELSE {})
         [] p = 2 -> Package(Beta, 1, 0, IF 2 \in caps THEN {Cap(Virtual)} ELSE {},
                             r2, c2, IF 2 \in owners THEN {File} ELSE {})
         [] p = 3 -> Package(Gamma, 1, 1, IF 3 \in caps THEN {CapAt(Virtual, 2)} ELSE {},
                             {}, c3, IF 3 \in owners THEN {File} ELSE {})]

UniqueUniverses ==
    {Unique(r1, r2, c1, c2, c3, caps, owners) :
        r1 \in {{Dep(Beta), Dep(Virtual)}, {AtLeast(Virtual, 2), Dep(Rich)}, {Dep(File)}},
        r2 \in {{}, {Dep(Alpha)}, {Dep(File), Dep(Gamma)}},
        c1 \in {{}, {Dep(Virtual)}}, c2 \in {{}, {AtLeast(Virtual, 2)}},
        c3 \in {{}, {Dep(Alpha)}},
        caps \in {{2}, {3}, {2, 3}}, owners \in {{}, {1}, {2, 3}}}

UniqueRequests ==
    {[base |-> <<Dep(Beta)>>, implicit |-> <<Dep(Rich)>>, requirements |-> <<Dep(Alpha)>>],
     Ask(<<Dep(Virtual), Dep(Alpha), Dep(Gamma)>>),
     Ask(<<Dep(Alpha), Dep(File)>>)}

-----------------------------------------------------------------------------
(* Two versions of one package, the newer alone providing the capability, and *)
(* a package that requires and conflicts with either.                         *)
Versions(r, c1, c3, caps, repo2) ==
    [p \in ThreePackages |->
       CASE p = 1 -> Package(Alpha, 1, 0, {}, {}, c1, {})
         [] p = 2 -> Package(Alpha, 2, repo2, caps, {Dep(Beta)}, {}, {File})
         [] p = 3 -> Package(Beta, 1, 0, {}, r, c3, {})]

VersionUniverses ==
    {Versions(r, c1, c3, caps, repo2) :
        r \in {{Dep(Alpha)}, {Dep(Virtual), AtLeast(Alpha, 2)}, {Dep(File)}},
        c1 \in {{}, {Dep(Virtual)}}, c3 \in {{}, {AtLeast(Alpha, 2)}},
        caps \in {{}, {Cap(Virtual)}}, repo2 \in {0, 1}}

VersionRequests ==
    {Ask(<<AtLeast(Alpha, 2), Dep(Alpha), Dep(Beta)>>), Ask(<<Dep(Virtual), Dep(Alpha)>>)}

-----------------------------------------------------------------------------
\* Gamma provides the name of Beta, and a version of its own name that it
\* conflicts with.
ObsoleterUniverses ==
    {[p \in ThreePackages |->
        CASE p = 1 -> Package(Alpha, 1, 0, {}, {Dep(Rich), Dep(Gamma)}, {}, {})
          [] p = 2 -> Package(Beta, 1, 0, {}, {}, {}, {})
          [] p = 3 -> Package(Gamma, 1, 1, {Cap(Beta), CapAt(Gamma, 3), Cap(Virtual)},
                              {}, {AtLeast(Gamma, 2)}, {})]}

-----------------------------------------------------------------------------
MixedUniverses == UniqueUniverses \cup VersionUniverses \cup ObsoleterUniverses
MixedRequests == UniqueRequests \cup VersionRequests
=============================================================================
