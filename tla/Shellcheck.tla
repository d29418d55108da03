------------------------------ MODULE Shellcheck ------------------------------
(***************************************************************************)
(* The shellcheck lint of one session.  For each shell section the lint    *)
(* starts the configured binary, feeds the section to its stdin from a     *)
(* writer thread, drains its stdout and stderr from two reader threads and *)
(* polls it until it exits or its time is up.  The program may read and    *)
(* write in any order, bail out early or hang; its pipes hold Capacity     *)
(* blocks.  The binary may be a wrapper whose helper inherits the pipes    *)
(* and outlives it.                                                        *)
(***************************************************************************)
EXTENDS Naturals

CONSTANTS
  Sections,    \* sections of the spec that have a shell body
  MaxBlocks,   \* bound on the blocks of a section, and of what is printed
  Capacity     \* blocks a pipe holds

ASSUME ShellcheckAssumption ==
  Sections \in Nat /\ MaxBlocks \in Nat /\ Capacity \in Nat \ {0}

VARIABLES
  \* the lint
  main,          \* where the linting thread is
  section,       \* the section it is at
  availability,  \* "unprobed", "available", "unavailable"
  fatal,         \* fatal_reported
  noticed,       \* unavailable_reported
  notices,       \* RPM201 diagnostics so far
  status,        \* what wait_with_timeout returned
  \* its threads
  unsent,        \* blocks the writer has yet to write
  writing,       \* whether it holds the write end of stdin
  outBuf, errBuf, outEof, errEof,
  \* the process
  prompt,        \* whether it always gets on in time
  wrapper,       \* whether it may leave a helper behind
  child,         \* "none", "running", "exited", "reaped"
  helper,        \* whether a helper holds the pipes
  todo,          \* what is left to print, and how it reads its input
  success,       \* whether it exits with 0
  printed,       \* blocks written to stdout
  stdin, stdout, stderr

lint == <<section, availability, fatal, noticed, notices>>
threads == <<unsent, writing, outBuf, errBuf, outEof, errEof>>
process == <<prompt, wrapper, child, helper, todo, success, printed>>
pipes == <<stdin, stdout, stderr>>
vars == <<main, lint, status, threads, process, pipes>>

Blocks == 0..MaxBlocks

\* Whether the program wants all its input, and whether it prints all first.
Appetites == {"some", "all", "late"}

Init ==
  /\ main = "next" /\ section = 1 /\ availability = "unprobed"
  /\ fatal = FALSE /\ noticed = FALSE /\ notices = 0 /\ status = "none"
  /\ unsent = 0 /\ writing = FALSE
  /\ outBuf = 0 /\ errBuf = 0 /\ outEof = TRUE /\ errEof = TRUE
  /\ prompt \in BOOLEAN /\ wrapper \in BOOLEAN
  /\ child = "none" /\ helper = FALSE /\ success = TRUE /\ printed = 0
  /\ todo = [out |-> 0, err |-> 0, reads |-> "some"]
  /\ stdin = 0 /\ stdout = 0 /\ stderr = 0
-----------------------------------------------------------------------------
\* The linting thread.

GoTo(place) == main' = place

\* The section is over, whatever came of it.
NextSection == section' = section + 1 /\ GoTo("next")

\* The visitor is past the last section, or a failure has ended the matter, or
\* the section is a header only.
Ends ==
  /\ main = "next" /\ section > Sections /\ GoTo("done")
  /\ UNCHANGED <<lint, status, threads, process, pipes>>

SkipAfterFailure ==
  /\ main = "next" /\ section <= Sections /\ fatal
  /\ NextSection
  /\ UNCHANGED <<availability, fatal, noticed, notices, status, threads, process,
                 pipes>>

StartProbe ==
  /\ main = "next" /\ section <= Sections /\ ~fatal
  /\ availability = "unprobed" /\ GoTo("probe")
  /\ UNCHANGED <<lint, status, threads, process, pipes>>

\* --version is run with output(), which waits as long as it takes: the model
\* has it return.
Probe ==
  /\ main = "probe"
  /\ availability' \in {"available", "unavailable"} /\ GoTo("next")
  /\ UNCHANGED <<section, fatal, noticed, notices, status, threads, process, pipes>>

NoBinary ==
  /\ main = "next" /\ section <= Sections /\ ~fatal
  /\ availability = "unavailable"
  /\ noticed' = TRUE /\ notices' = IF noticed THEN notices ELSE notices + 1
  /\ NextSection
  /\ UNCHANGED <<availability, fatal, status, threads, process, pipes>>

HeaderOnly ==
  /\ main = "next" /\ section <= Sections /\ ~fatal
  /\ availability = "available" /\ NextSection
  /\ UNCHANGED <<availability, fatal, noticed, notices, status, threads, process,
                 pipes>>

\* Mutant: a failure does not stop the sections that follow.
ReportAlways ==
  /\ fatal' = FALSE /\ notices' = notices + 1
  /\ NextSection
  /\ UNCHANGED <<availability, noticed>>

ReportFatal ==
  /\ fatal' = TRUE /\ notices' = IF fatal THEN notices ELSE notices + 1
  /\ NextSection
  /\ UNCHANGED <<availability, noticed>>

SpawnFails ==
  /\ main = "next" /\ section <= Sections /\ ~fatal /\ availability = "available"
  /\ ReportFatal
  /\ UNCHANGED <<status, threads, process, pipes>>

\* Mutant: the buffer of stdout is the one of the section before.
SpawnReusingBuffer ==
  /\ main = "next" /\ section <= Sections /\ ~fatal /\ availability = "available"
  /\ child' = "running" /\ helper' \in BOOLEAN /\ (helper' => wrapper) /\ success' \in BOOLEAN
  /\ todo' \in [out : Blocks, err : Blocks, reads : Appetites] /\ printed' = 0
  /\ unsent' \in Blocks /\ writing' = TRUE
  /\ UNCHANGED outBuf /\ errBuf' = 0 /\ outEof' = FALSE /\ errEof' = FALSE
  /\ stdin' = 0 /\ stdout' = 0 /\ stderr' = 0
  /\ GoTo("poll")
  /\ UNCHANGED <<lint, status, prompt, wrapper>>

\* The process and the three threads start.
Spawn ==
  /\ main = "next" /\ section <= Sections /\ ~fatal /\ availability = "available"
  /\ child' = "running" /\ helper' \in BOOLEAN /\ (helper' => wrapper) /\ success' \in BOOLEAN
  /\ todo' \in [out : Blocks, err : Blocks, reads : Appetites] /\ printed' = 0
  /\ unsent' \in Blocks /\ writing' = TRUE
  /\ outBuf' = 0 /\ errBuf' = 0 /\ outEof' = FALSE /\ errEof' = FALSE
  /\ stdin' = 0 /\ stdout' = 0 /\ stderr' = 0
  /\ GoTo("poll")
  /\ UNCHANGED <<lint, status, prompt, wrapper>>

\* try_wait: the child is reaped, and wait may fail if the kernel already did.
PollExited ==
  /\ main = "poll" /\ child = "exited"
  /\ child' = "reaped" /\ status' \in {"exited", "wait failed"} /\ GoTo("join")
  /\ UNCHANGED <<lint, threads, prompt, wrapper, helper, todo, success, printed, pipes>>

\* The child was running when polled, and the deadline has passed.
PollLate ==
  /\ main = "poll" /\ child = "running" /\ ~prompt /\ GoTo("kill")
  /\ UNCHANGED <<lint, status, threads, process, pipes>>

\* Mutant: the timeout leaves the process running.
GiveUp ==
  /\ main = "kill" /\ status' = "timeout" /\ GoTo("join")
  /\ UNCHANGED <<lint, threads, process, pipes>>

\* kill and wait, also for one that exited in between; a helper is not told.
Kill ==
  /\ main = "kill" /\ child' = "reaped" /\ status' = "timeout" /\ GoTo("join")
  /\ UNCHANGED <<lint, threads, prompt, wrapper, helper, todo, success, printed, pipes>>

\* Mutant: what has arrived when the process is gone is taken for all.
JoinNothing == main = "join"

\* Both readers are joined, and the scope waits for the writer.
Join == main = "join" /\ outEof /\ errEof /\ ~writing

\* The report is read, or there is nothing to report.
Findings ==
  /\ Join /\ status = "exited" /\ (outBuf > 0 \/ success)
  /\ NextSection
  /\ UNCHANGED <<availability, fatal, noticed, notices, status, threads, process,
                 pipes>>

\* A timeout, a failed wait, no output with an error, or output that is not JSON.
Failure ==
  /\ Join /\ (status # "exited" \/ outBuf > 0 \/ ~success)
  /\ ReportFatal
  /\ UNCHANGED <<status, threads, process, pipes>>

Main ==
  \/ Ends \/ SkipAfterFailure \/ StartProbe \/ Probe \/ NoBinary
  \/ HeaderOnly \/ SpawnFails \/ Spawn
  \/ PollExited \/ PollLate \/ Kill \/ Findings \/ Failure
-----------------------------------------------------------------------------
\* The threads.  A pipe has a reader or a writer at the other end as long as
\* the process or its helper lives.

Held == child = "running" \/ helper

WriteInput ==
  /\ writing /\ unsent > 0 /\ Held /\ stdin < Capacity
  /\ stdin' = stdin + 1 /\ unsent' = unsent - 1
  /\ UNCHANGED <<main, lint, status, writing, outBuf, errBuf, outEof, errEof,
                 process, stdout, stderr>>

\* All is written, or nobody reads any more (BrokenPipe): stdin is closed.
CloseInput ==
  /\ writing /\ (unsent = 0 \/ ~Held) /\ writing' = FALSE
  /\ UNCHANGED <<main, lint, status, unsent, outBuf, errBuf, outEof, errEof,
                 process, pipes>>

Writer == WriteInput \/ CloseInput

\* Mutant: the input is written before anything is drained.
DrainOutAfterInput ==
  /\ ~outEof /\ ~writing
  /\ IF stdout > 0 THEN /\ stdout' = stdout - 1 /\ outBuf' = outBuf + 1
                        /\ UNCHANGED outEof
     ELSE ~Held /\ outEof' = TRUE /\ UNCHANGED <<stdout, outBuf>>
  /\ UNCHANGED <<main, lint, status, unsent, writing, errBuf, errEof, process,
                 stdin, stderr>>

\* read_to_end: until the pipe is empty and no one can write to it.
DrainOut ==
  /\ ~outEof
  /\ IF stdout > 0 THEN /\ stdout' = stdout - 1 /\ outBuf' = outBuf + 1
                        /\ UNCHANGED outEof
     ELSE ~Held /\ outEof' = TRUE /\ UNCHANGED <<stdout, outBuf>>
  /\ UNCHANGED <<main, lint, status, unsent, writing, errBuf, errEof, process,
                 stdin, stderr>>

DrainErr ==
  /\ ~errEof
  /\ IF stderr > 0 THEN /\ stderr' = stderr - 1 /\ errBuf' = errBuf + 1
                        /\ UNCHANGED errEof
     ELSE ~Held /\ errEof' = TRUE /\ UNCHANGED <<stderr, errBuf>>
  /\ UNCHANGED <<main, lint, status, unsent, writing, outBuf, outEof, process,
                 stdin, stdout>>
-----------------------------------------------------------------------------
\* The process: shellcheck itself, or a wrapper and its helper.

Reads ==
  /\ Held /\ stdin > 0
  /\ todo.reads = "late" => todo.out = 0 /\ todo.err = 0
  /\ stdin' = stdin - 1
  /\ UNCHANGED <<main, lint, status, threads, process, stdout, stderr>>

PrintsOut ==
  /\ Held /\ todo.out > 0 /\ stdout < Capacity
  /\ stdout' = stdout + 1 /\ printed' = printed + 1
  /\ todo' = [todo EXCEPT !.out = @ - 1]
  /\ UNCHANGED <<main, lint, status, threads, prompt, wrapper, child, helper, success,
                 stdin, stderr>>

PrintsErr ==
  /\ Held /\ todo.err > 0 /\ stderr < Capacity
  /\ stderr' = stderr + 1 /\ todo' = [todo EXCEPT !.err = @ - 1]
  /\ UNCHANGED <<main, lint, status, threads, prompt, wrapper, child, helper, success, printed,
                 stdin, stdout>>

\* It exits when it has printed all, and read all if it wants to.
Exits ==
  /\ child = "running" /\ todo.out = 0 /\ todo.err = 0
  /\ todo.reads # "some" => stdin = 0 /\ ~writing
  /\ child' = "exited"
  /\ UNCHANGED <<main, lint, status, threads, prompt, wrapper, helper, todo, success,
                 printed, pipes>>

\* A wrapper need not wait for its helper.
Deserts ==
  /\ child = "running" /\ helper /\ child' = "exited"
  /\ UNCHANGED <<main, lint, status, threads, prompt, wrapper, helper, todo, success,
                 printed, pipes>>

HelperExits ==
  /\ helper /\ helper' = FALSE
  /\ UNCHANGED <<main, lint, status, threads, prompt, wrapper, child, todo, success,
                 printed, pipes>>

Program == Reads \/ PrintsOut \/ PrintsErr \/ Exits

Next ==
  \/ Main \/ Writer \/ DrainOut \/ DrainErr
  \/ Program \/ Deserts \/ HelperExits

Spec == Init /\ [][Next]_vars

\* The threads run and time passes.  A program that is not prompt may hang at
\* any point; one that is does whatever it can, and no deadline passes.
ThreadFairness ==
  WF_vars(Main) /\ WF_vars(Writer) /\ WF_vars(DrainOut) /\ WF_vars(DrainErr)

FairSpec == Spec /\ ThreadFairness /\ WF_vars(prompt /\ Program)
-----------------------------------------------------------------------------
LintType ==
  /\ main \in {"next", "probe", "poll", "kill", "join", "done"}
  /\ section \in 1..Sections + 1
  /\ availability \in {"unprobed", "available", "unavailable"}
  /\ fatal \in BOOLEAN /\ noticed \in BOOLEAN /\ notices \in 0..Sections
  /\ status \in {"none", "exited", "wait failed", "timeout"}

ThreadType ==
  /\ unsent \in Blocks /\ writing \in BOOLEAN
  /\ outBuf \in Blocks /\ errBuf \in Blocks
  /\ outEof \in BOOLEAN /\ errEof \in BOOLEAN

ProcessType ==
  /\ prompt \in BOOLEAN /\ wrapper \in BOOLEAN /\ helper \in BOOLEAN
  /\ child \in {"none", "running", "exited", "reaped"}
  /\ todo \in [out : Blocks, err : Blocks, reads : Appetites]
  /\ success \in BOOLEAN /\ printed \in Blocks
  /\ stdin \in 0..Capacity /\ stdout \in 0..Capacity /\ stderr \in 0..Capacity

\* Every variable stays in its range; no pipe holds more than it can.
TypeOK == LintType /\ ThreadType /\ ProcessType

\* What is parsed, or called empty, is all the program printed: none of it is
\* still in the pipe when the buffers are judged.
OutputComplete == Join => outBuf = printed

\* "RPM201 - emitted at most once per session", and a failure or a missing
\* binary is final: after the notice there is neither another one nor a process
\* for a later section, so a session pays for one timeout at most.  The two
\* flags that see to it are set on different paths.
FailureIsFinal ==
  [][ notices > 0 => notices' = notices /\ ~(child' = "running" /\ main' # main) ]_vars

\* Between sections, and when the session is over, no process of ours is left:
\* not running, and not a zombie either.
NoneLeftBehind == main \in {"next", "probe", "done"} => child \in {"none", "reaped"}

\* The lint comes to an end, whatever the program does ("a guard against a hung
\* or malicious binary"), as long as no helper of it keeps the pipes; and with a
\* prompt one it does so without the deadline, so no thread and no program ever
\* wait for each other.
Returns == ~wrapper => <>(main = "done")
=============================================================================
