------------------------------ MODULE MCLintFix ------------------------------
(* Small instances of LintFix: one file of up to three lines, and stdin. *)
EXTENDS LintFix

\* A word with a blank after it, an arch list that repeats itself, a %clean,
\* another section, and a comment with a macro.
LineTexts == {<<"w", "s", "n">>, <<"I", "s", "w", "s", "w", "w", "s", "w", "s", "n">>,
              <<"C", "s", "n">>, <<"H", "n">>, <<"h", "p", "w", "p", "p", "w", "s", "n">>}

MCTexts == {a \o b : a, b \in LineTexts}
             \cup {<<"C", "n">> \o a \o b : a, b \in LineTexts}

MCSaves == {<<"I", "s", "w", "s", "w", "s", "w", "s", "w", "s", "w", "n", "C", "n">>, <<"w", "n">>}

\* Init and the editor choose from these.
AllTexts == MCTexts \cup MCSaves

MCBatches(f) == {<<f, f>>, <<f, "-">>}

FileBatches == UNION {MCBatches(f) : f \in Files}

\* One --deny, and --deny warnings.
MCDenials == {{"arch"}, Rules}

\* The printer keeps one blank between words.
MCPrinted(t) ==
  FoldLeft(LAMBDA acc, i : IF t[i] = "s" /\ (i = Len(t) \/ t[i + 1] \in {"s", "n"})
                           THEN acc ELSE Append(acc, t[i]),
           <<>>, [i \in 1..Len(t) |-> i])
=============================================================================
