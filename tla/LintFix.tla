-------------------------------- MODULE LintFix --------------------------------
(***************************************************************************)
(* A batch command over spec files: lint, lint --fix, check, and format    *)
(* --in-place.  All sources are read first; then, one after the other, a   *)
(* source is fixed and written back, its profile resolved, and what is     *)
(* left in it reported.  An editor may save a file at any time, a write    *)
(* may fail at every step, and the power may go.                           *)
(***************************************************************************)
EXTENDS SpecText

CONSTANTS
  Files,        \* the spec files of the command line
  Stdin,        \* "-"
  Batches,      \* command lines: sequences of Files and Stdin
  Denials,      \* which rules may be denied: sets of rules
  Texts,        \* what the files may hold
  Saves,        \* what the editor may save
  MaxSaves,     \* bound on its saves
  Printed(_)    \* what the pretty-printer of the parser crate makes of a text

ASSUME LintFixAssumption ==
  /\ Stdin \notin Files /\ Batches \subseteq Seq(Files \cup {Stdin})
  /\ Denials \subseteq SUBSET Rules
  /\ Saves \subseteq Texts /\ Texts \subseteq Seq(Cell) /\ MaxSaves \in Nat

VARIABLES
  \* the command line, the family of the profile, and the rules whose severity
  \* resolves to deny; a rule that is on and not denied warns
  command, batch, family, denied,
  \* the command
  pc, pos,
  contents,     \* the sources as read, later as fixed
  report,       \* the fix report of the source at hand
  profiled,     \* whether the profile cache has an entry
  temp,         \* the temporary file: its text and whether it is synced
  failed,       \* any_io_error
  deny,         \* any_deny of lint, any_failure of check, would_change of format
  reported,     \* the sources with diagnostics in the report
  out,          \* the sources whose text went to stdout
  \* the file system: what is seen, and what a loss of power leaves
  disk, durable,
  \* histories: what was ever saved or handed to a write, what was read, and
  \* the saves since then
  whole, read, saves, overtaken

settings == <<command, batch, family, denied>>
verdict == <<failed, deny, reported, out>>
files == <<disk, durable, whole>>
history == <<read, saves, overtaken>>
vars == <<settings, pc, pos, contents, report, profiled, temp, verdict, files, history>>

Commands == {"lint", "fix", "check", "format"}

NoTemp == [text |-> <<>>, synced |-> FALSE]
NoReport == [applied |-> 0, iterations |-> 0, converged |-> FALSE]

Init ==
  /\ command \in Commands /\ batch \in Batches /\ family \in Families
  /\ denied \in Denials
  /\ pc = "start" /\ pos = 1 /\ contents = <<>>
  /\ report = NoReport /\ profiled = FALSE /\ temp = NoTemp
  /\ failed = FALSE /\ deny = FALSE /\ reported = {} /\ out = {}
  /\ disk \in [Files -> Texts] /\ durable = disk
  /\ whole = [f \in Files |-> {disk[f]}]
  /\ read = <<>> /\ saves = 0 /\ overtaken = {}

Source == batch[pos]
Text == contents[pos]
IsStdin == Source = Stdin
-----------------------------------------------------------------------------
\* read_sources: every source is read before the first is looked at, and one
\* that cannot be read ends the command.
ReadSources ==
  /\ pc = "start" /\ pc' = "next"
  /\ \E piped \in Saves :
       contents' = [i \in 1..Len(batch) |-> IF batch[i] = Stdin THEN piped
                                                         ELSE disk[batch[i]]]
  /\ read' = contents'
  /\ UNCHANGED <<settings, pos, report, profiled, temp, verdict, files, saves, overtaken>>

ReadFails ==
  /\ pc = "start" /\ pc' = "done" /\ failed' = TRUE
  /\ UNCHANGED <<settings, pos, contents, report, profiled, temp, deny, reported, out,
                 files, history>>

NextSource == pos' = pos + 1 /\ pc' = "next" /\ report' = NoReport

\* `continue` after an error on stderr.
Fail ==
  /\ failed' = TRUE /\ NextSource
  /\ UNCHANGED <<settings, contents, profiled, deny, reported, out, history>>

LoadConfig ==
  /\ pc = "next" /\ pos <= Len(batch)
  /\ pc' = CASE command = "fix" -> "fix"
             [] command = "format" -> "format"
             [] OTHER -> "profile"
  /\ UNCHANGED <<settings, pos, contents, report, profiled, temp, verdict, files, history>>

LoadFails == pc = "next" /\ pos <= Len(batch) /\ Fail /\ UNCHANGED <<temp, files>>

\* The report is rendered, which may fail, and the exit code follows.
Finish ==
  /\ pc = "next" /\ pos > Len(batch) /\ pc' = "done"
  /\ \/ UNCHANGED failed
     \/ command # "format" /\ failed' = TRUE
  /\ UNCHANGED <<settings, pos, contents, report, profiled, temp, deny, reported, out,
                 files, history>>

ExitCode == IF failed THEN 2 ELSE IF deny THEN 1 ELSE 0
-----------------------------------------------------------------------------
\* fix_in_place.

\* The session of a round is built from the configuration alone: its profile is
\* the default one, of no known family.
FixDiagnostics == Diagnostics(Text, "unknown")

\* Parse, lint, collect, apply: one round.
Round ==
  LET edits == CollectEdits(FixDiagnostics)
      result == ApplyEdits(Text, edits)
      stuck == edits = <<>> \/ result.applied = 0
  IN /\ contents' = [contents EXCEPT ![pos] = result.text]
     /\ report' = [applied |-> report.applied + result.applied,
                   iterations |-> report.iterations + IF edits = <<>> THEN 0 ELSE 1,
                   converged |-> stuck]
     /\ pc' = IF stuck THEN "fixed" ELSE "fix"

\* Mutant: the rounds are counted after the test.
FixRoundUncapped ==
  /\ pc = "fix" /\ report.iterations < MaxIterations + 1 /\ Round
  /\ UNCHANGED <<settings, pos, profiled, temp, verdict, files, history>>

FixRound ==
  /\ pc = "fix" /\ report.iterations < MaxIterations /\ Round
  /\ UNCHANGED <<settings, pos, profiled, temp, verdict, files, history>>

\* MAX_ITERATIONS rounds all found something; a warning, no more.
FixSaturates ==
  /\ pc = "fix" /\ report.iterations = MaxIterations /\ pc' = "fixed"
  /\ UNCHANGED <<settings, pos, contents, report, profiled, temp, verdict, files, history>>

NothingFixed ==
  /\ pc = "fixed" /\ report.applied = 0 /\ pc' = "profile"
  /\ UNCHANGED <<settings, pos, contents, report, profiled, temp, verdict, files, history>>

\* The fixed text of stdin goes to stdout; a reader who left is no error.
PrintFixed ==
  /\ pc = "fixed" /\ report.applied > 0 /\ IsStdin
  /\ out' \in {out, out \cup {pos}} /\ pc' = "profile"
  /\ UNCHANGED <<settings, pos, contents, report, profiled, temp, failed, deny, reported,
                 files, history>>

PrintFails ==
  /\ pc = "fixed" /\ report.applied > 0 /\ IsStdin /\ Fail
  /\ UNCHANGED <<temp, files>>

\* format: the text is replaced by its printed form, and written if it differs.
FormatSame ==
  /\ pc = "format" /\ ~IsStdin /\ Printed(Text) = Text /\ NextSource
  /\ UNCHANGED <<settings, contents, profiled, temp, verdict, files, history>>

FormatStdin ==
  /\ pc = "format" /\ IsStdin /\ Fail /\ UNCHANGED <<temp, files>>

FormatChanged ==
  /\ pc = "format" /\ ~IsStdin /\ Printed(Text) # Text
  /\ contents' = [contents EXCEPT ![pos] = Printed(Text)] /\ pc' = "write"
  /\ UNCHANGED <<settings, pos, report, profiled, temp, verdict, files, history>>
-----------------------------------------------------------------------------
\* write_atomic.

WriteFixed ==
  /\ pc = "fixed" /\ report.applied > 0 /\ ~IsStdin /\ pc' = "write"
  /\ UNCHANGED <<settings, pos, contents, report, profiled, temp, verdict, files, history>>

\* Mutant: the temporary file is renamed before its data is on disk.
StageUnsynced ==
  /\ pc = "write" /\ pc' = "rename"
  /\ temp' = [text |-> Text, synced |-> FALSE]
  /\ whole' = [whole EXCEPT ![Source] = @ \cup {Text}]
  /\ UNCHANGED <<settings, pos, contents, report, profiled, verdict, disk, durable, history>>

\* The text goes to a temporary file beside the target.
Stage ==
  /\ pc = "write" /\ pc' = "sync"
  /\ temp' = [text |-> Text, synced |-> FALSE]
  /\ whole' = [whole EXCEPT ![Source] = @ \cup {Text}]
  /\ UNCHANGED <<settings, pos, contents, report, profiled, verdict, disk, durable, history>>

Sync ==
  /\ pc = "sync" /\ pc' = "rename" /\ temp' = [temp EXCEPT !.synced = TRUE]
  /\ UNCHANGED <<settings, pos, contents, report, profiled, verdict, files, history>>

\* Whatever a file's name now points to, a loss of power may undo.
Rename ==
  /\ pc = "rename" /\ pc' = "sync_dir"
  /\ disk' = [disk EXCEPT ![Source] = temp.text]
  /\ durable' = IF temp.synced THEN durable ELSE [durable EXCEPT ![Source] = <<"torn">>]
  /\ temp' = NoTemp
  /\ UNCHANGED <<settings, pos, contents, report, profiled, verdict, whole, history>>

\* Where the directory cannot be synced the rename is not durable, and no error.
SyncDir ==
  /\ pc = "sync_dir"
  /\ durable' \in {durable, [durable EXCEPT ![Source] = disk[Source]]}
  /\ IF command = "fix" THEN pc' = "profile" /\ UNCHANGED <<pos, report>> ELSE NextSource
  /\ UNCHANGED <<settings, contents, profiled, temp, verdict, disk, whole, history>>

\* Mutant: the error is printed, and the source goes on as if written.
WriteFailsSoftly ==
  /\ pc \in {"write", "sync", "rename"} /\ temp' = NoTemp
  /\ failed' = TRUE
  /\ IF command = "fix" THEN pc' = "profile" /\ UNCHANGED <<pos, report>> ELSE NextSource
  /\ UNCHANGED <<settings, contents, profiled, deny, reported, out, history, files>>

\* A symlink, no temporary file, no space, no rename: the target is as it was.
WriteFails ==
  /\ pc \in {"write", "sync", "rename"} /\ temp' = NoTemp /\ Fail
  /\ UNCHANGED files
-----------------------------------------------------------------------------
\* The diagnostics of what is left, under the active profile.

Resolve ==
  /\ pc = "profile" /\ profiled' = TRUE /\ pc' = "report"
  /\ UNCHANGED <<settings, pos, contents, report, temp, verdict, files, history>>

\* A failure is not cached.
ResolveFails == pc = "profile" /\ ~profiled /\ Fail /\ UNCHANGED <<temp, files>>

\* The diagnostics of the text at hand whose severity is deny.
DeniedFindings == UNION {Findings(rule, Text, family) : rule \in denied}

\* What check fails on besides.
WouldReformat == command = "check" /\ Printed(Text) # Text

\* Mutant: the last source decides alone.
ReportLastOnly ==
  /\ pc = "report" /\ NextSource
  /\ reported' = reported \cup {pos}
  /\ deny' = (DeniedFindings # {} \/ WouldReformat)
  /\ UNCHANGED <<settings, contents, profiled, temp, failed, out, files, history>>

\* Mutant: a warning gates too.
ReportAnySeverity ==
  /\ pc = "report" /\ NextSource
  /\ reported' = reported \cup {pos}
  /\ deny' = (deny \/ Diagnostics(Text, family) # {} \/ WouldReformat)
  /\ UNCHANGED <<settings, contents, profiled, temp, failed, out, files, history>>

Report ==
  /\ pc = "report" /\ NextSource
  /\ reported' = reported \cup {pos}
  /\ deny' = (deny \/ DeniedFindings # {} \/ WouldReformat)
  /\ UNCHANGED <<settings, contents, profiled, temp, failed, out, files, history>>
-----------------------------------------------------------------------------
\* The environment.

\* An editor saves, at once and for good.
EditorSaves(f, text) ==
  /\ saves < MaxSaves /\ saves' = saves + 1
  /\ disk' = [disk EXCEPT ![f] = text] /\ durable' = [durable EXCEPT ![f] = text]
  /\ whole' = [whole EXCEPT ![f] = @ \cup {text}]
  /\ overtaken' = overtaken \cup {f}
  /\ UNCHANGED <<settings, pc, pos, contents, report, profiled, temp, verdict, read>>

PowerLoss ==
  /\ pc \notin {"start", "done", "dead"} /\ pc' = "dead"
  /\ \E lost \in SUBSET Files : disk' = [f \in Files |-> IF f \in lost THEN durable[f] ELSE disk[f]]
  /\ UNCHANGED <<settings, pos, contents, report, profiled, temp, verdict, durable, whole,
                 history>>

Command ==
  \/ ReadSources \/ ReadFails \/ LoadConfig \/ LoadFails \/ Finish
  \/ FixRound \/ FixSaturates \/ NothingFixed \/ PrintFixed \/ PrintFails
  \/ FormatSame \/ FormatStdin \/ FormatChanged
  \/ WriteFixed \/ Stage \/ Sync \/ Rename \/ SyncDir \/ WriteFails
  \/ Resolve \/ ResolveFails \/ Report

Next ==
  \/ Command
  \/ \E f \in Files, text \in Saves : EditorSaves(f, text)
  \/ PowerLoss

Spec == Init /\ [][Next]_vars
-----------------------------------------------------------------------------
\* Edits are computed against one text and applied one by one, and a round may
\* drop some of a suggestion's edits and keep the others: whatever the overlaps,
\* the fix loop changes only what its rules are about ("drop any edit whose
\* range overlaps an already-accepted one"), and a text called converged has
\* nothing left that a fix would change ("no edits were left to apply").
FixSound ==
  pc = "fixed" =>
    /\ Essence(contents[pos]) = Essence(read[pos])
    /\ report.converged => CollectEdits(FixDiagnostics) = <<>>

\* "a crash leaves either the old or the new content - never a half-written
\* file": what a name points to, now or after a loss of power, was saved by
\* someone or handed to a write as a whole.
DiskWhole == \A f \in Files : {disk[f], durable[f]} \subseteq whole[f]

\* What is reported of a source is reported of the text its file holds, unless
\* someone saved the file since the command started: a fix that was not
\* written must not count.
ReportFitsDisk ==
  pc # "dead" =>
    \A i \in reported : batch[i] \notin overtaken \cup {Stdin} => disk[batch[i]] = contents[i]

\* The text of source i, as the command leaves it, has a finding of a denied
\* rule, or would be formatted otherwise by the command that looks at that.
Gates(i) ==
  \/ \E rule \in denied : Findings(rule, contents[i], family) # {}
  \/ command = "check" /\ Printed(contents[i]) # contents[i]

\* Exit code 0 or 1 says that every source was looked at to the end: 1 that some
\* source gates, 0 that none does, "clean (warnings allowed)".
ExitHonest ==
  pc = "done" /\ command # "format" /\ ExitCode # 2 =>
    /\ reported = 1..Len(batch)
    /\ ExitCode = 1 <=> \E i \in reported : Gates(i)

\* "we degrade to a Manual hint rather than offering an automatic deletion": on
\* a profile whose family may rely on %clean, --fix keeps the section.
CleanKeptOnSuse ==
  family = "suse" => \A i \in 1..Len(contents) : CleanHeaders(contents[i]) = CleanHeaders(read[i])
=============================================================================
