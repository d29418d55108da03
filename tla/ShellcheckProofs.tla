--------------------------- MODULE ShellcheckProofs ---------------------------
(***************************************************************************)
(* Proofs about Shellcheck, for every number of sections and every size of *)
(* pipes and outputs: nothing printed is lost, no process is left, and the *)
(* first failure is the last.                                              *)
(***************************************************************************)
EXTENDS Shellcheck, TLAPS

\* Where the linting thread is tells whether there is a process; a process
\* belongs to a section.
ProcessInv ==
  /\ main \in {"next", "probe", "done"} => child \in {"none", "reaped"}
  /\ main \in {"poll", "kill"} => child \in {"running", "exited"}
  /\ main = "join" => child = "reaped"
  /\ main \in {"probe", "poll", "kill", "join"} => section \in 1..Sections

\* A notice was given for a failure of an available binary or for a missing
\* binary; in both cases no process is started any more.  That the flag of the
\* one cause speaks for the other, too, is what one notice rests on.
NoticeInv ==
  /\ notices \in {0, 1}
  /\ notices = 1 => fatal \/ noticed
  /\ noticed => availability = "unavailable" /\ notices = 1
  /\ fatal => availability = "available" /\ notices = 1
  /\ main \in {"poll", "kill", "join"} => availability = "available" /\ ~fatal
  /\ main = "probe" => availability = "unprobed"

\* What was printed is in the pipe or in the buffer, and no more is printed
\* than was to be; a reader that has seen the end has seen all.
PipeInv ==
  /\ printed = outBuf + stdout
  /\ printed + todo.out \in Blocks
  /\ errBuf + stderr + todo.err \in Blocks
  /\ outEof => stdout = 0 /\ child # "running" /\ ~helper
  /\ errEof => stderr = 0 /\ child # "running" /\ ~helper

LintInv == TypeOK /\ ProcessInv /\ NoticeInv /\ PipeInv
-----------------------------------------------------------------------------
LEMMA Sizes == Sections \in Nat /\ MaxBlocks \in Nat /\ Capacity \in Nat /\ Capacity # 0
BY ShellcheckAssumption

LEMMA InitInv == Init => LintInv
<1>. SUFFICES ASSUME Init PROVE LintInv
  OBVIOUS
<1>1. 1 \in 1..Sections + 1 /\ 0 \in 0..Sections /\ 0 \in Blocks /\ 0 \in 0..Capacity
  BY Sizes DEF Blocks
<1>2. LintType BY <1>1 DEF Init, LintType
<1>3. ThreadType BY <1>1 DEF Init, ThreadType
<1>4. ProcessType BY <1>1 DEF Init, ProcessType, Appetites
<1>5. ProcessInv BY DEF Init, ProcessInv
<1>6. NoticeInv BY DEF Init, NoticeInv
<1>7. PipeInv
  <2>1. printed = 0 /\ outBuf = 0 /\ errBuf = 0 /\ stdout = 0 /\ stderr = 0
        /\ todo.out = 0 /\ todo.err = 0 /\ child = "none" /\ helper = FALSE
    BY DEF Init
  <2>2. printed = outBuf + stdout /\ printed + todo.out = 0 /\ errBuf + stderr + todo.err = 0
    BY <2>1
  <2>. QED BY <1>1, <2>1, <2>2 DEF PipeInv
<1>. QED BY <1>2, <1>3, <1>4, <1>5, <1>6, <1>7 DEF LintInv, TypeOK

\* The arithmetic of a section that is left, apart from the flags.
LEMMA SectionLeft ==
  ASSUME section \in 1..Sections + 1, section <= Sections
  PROVE  section \in 1..Sections /\ section + 1 \in 1..Sections + 1
BY Sizes

LEMMA FirstNotice ==
  ASSUME section \in 1..Sections
  PROVE  0 + 1 = 1 /\ {0, 1} \subseteq 0..Sections
BY Sizes

\* Each step of the linting thread, on the lint and its process.
LEMMA LintStep ==
  ASSUME LintType, ProcessInv, NoticeInv, Main
  PROVE  LintType' /\ ProcessInv' /\ NoticeInv'
<1>1. CASE Ends
  BY <1>1 DEF Ends, GoTo, lint, process, LintType, ProcessInv, NoticeInv
<1>2. CASE SkipAfterFailure \/ HeaderOnly
  <2>1. section \in 1..Sections + 1 /\ section <= Sections /\ section' = section + 1
    BY <1>2 DEF SkipAfterFailure, HeaderOnly, NextSection, LintType
  <2>2. /\ main = "next" /\ main' = "next"
        /\ UNCHANGED <<availability, fatal, noticed, notices, status, child>>
    BY <1>2 DEF SkipAfterFailure, HeaderOnly, NextSection, GoTo, process
  <2>. QED BY <2>1, <2>2, SectionLeft DEF LintType, ProcessInv, NoticeInv
<1>3. CASE StartProbe
  <2>1. section \in 1..Sections + 1 /\ section <= Sections
    BY <1>3 DEF StartProbe, LintType
  <2>. QED
    BY <1>3, <2>1, SectionLeft
    DEF StartProbe, GoTo, lint, process, LintType, ProcessInv, NoticeInv
<1>4. CASE Probe
  BY <1>4 DEF Probe, GoTo, process, LintType, ProcessInv, NoticeInv
<1>5. CASE NoBinary
  <2>1. section \in 1..Sections + 1 /\ section <= Sections /\ section' = section + 1
    BY <1>5 DEF NoBinary, NextSection, LintType
  <2>2. notices' = 1
    <3>1. CASE noticed = TRUE
      <4>1. notices' = notices
        BY <1>5, <3>1 DEF NoBinary
      <4>. QED BY <3>1, <4>1 DEF NoticeInv
    <3>2. CASE noticed = FALSE
      <4>1. notices' = notices + 1 /\ ~fatal
        BY <1>5, <3>2 DEF NoBinary
      <4>2. notices = 0
        BY <1>5, <3>2 DEF NoBinary, NoticeInv
      <4>. QED BY <4>1, <4>2
    <3>. QED BY <3>1, <3>2 DEF LintType
  <2>3. /\ ~fatal /\ availability = "unavailable" /\ main = "next"
        /\ main' = "next" /\ noticed' = TRUE
        /\ UNCHANGED <<availability, fatal, status, child>>
    BY <1>5 DEF NoBinary, NextSection, GoTo, process
  <2>4. notices' \in 0..Sections /\ section' \in 1..Sections + 1
    BY <2>1, <2>2, Sizes
  <2>. QED BY <2>2, <2>3, <2>4 DEF LintType, ProcessInv, NoticeInv
<1>6. CASE SpawnFails \/ Failure
  <2>1. /\ section \in 1..Sections + 1 /\ (section <= Sections \/ section \in 1..Sections)
        /\ section' = section + 1
    BY <1>6 DEF SpawnFails, Failure, Join, ReportFatal, NextSection, LintType, ProcessInv
  <2>2. section \in 1..Sections /\ section' \in 1..Sections + 1
    BY <2>1, Sizes
  <2>3. /\ ~fatal /\ ~noticed /\ notices = 0 /\ notices' = notices + 1
        /\ availability = "available" /\ child \in {"none", "reaped"}
    <3>1. availability = "available" /\ ~fatal /\ child \in {"none", "reaped"}
      BY <1>6 DEF SpawnFails, Failure, Join, ProcessInv, NoticeInv
    <3>2. ~noticed /\ notices = 0
      BY <3>1 DEF NoticeInv
    <3>3. notices' = notices + 1
      BY <1>6, <3>1 DEF SpawnFails, Failure, ReportFatal
    <3>. QED BY <3>1, <3>2, <3>3
  <2>4. notices' = 1 /\ notices' \in 0..Sections
    BY <2>2, <2>3, FirstNotice
  <2>5. /\ fatal' = TRUE /\ noticed' = noticed /\ availability' = availability
        /\ main' = "next" /\ child' = child /\ status' = status
    BY <1>6 DEF SpawnFails, Failure, ReportFatal, NextSection, GoTo, process
  <2>6. LintType' BY <2>2, <2>3, <2>4, <2>5 DEF LintType
  <2>7. ProcessInv' BY <2>3, <2>5 DEF ProcessInv
  <2>8. NoticeInv' BY <2>3, <2>4, <2>5 DEF NoticeInv
  <2>. QED BY <2>6, <2>7, <2>8
<1>7. CASE Spawn
  <2>1. section \in 1..Sections + 1 /\ section <= Sections
    BY <1>7 DEF Spawn, LintType
  <2>. QED
    BY <1>7, <2>1, SectionLeft DEF Spawn, GoTo, lint, LintType, ProcessInv, NoticeInv
<1>8. CASE PollExited
  BY <1>8 DEF PollExited, GoTo, lint, LintType, ProcessInv, NoticeInv
<1>9. CASE PollLate
  BY <1>9 DEF PollLate, GoTo, lint, process, LintType, ProcessInv, NoticeInv
<1>10. CASE Kill
  BY <1>10 DEF Kill, GoTo, lint, LintType, ProcessInv, NoticeInv
<1>11. CASE Findings
  <2>1. section \in 1..Sections /\ section' = section + 1
    BY <1>11 DEF Findings, Join, NextSection, ProcessInv
  <2>2. section' \in 1..Sections + 1
    BY <2>1, Sizes
  <2>. QED
    BY <1>11, <2>2
    DEF Findings, Join, NextSection, GoTo, process, LintType, ProcessInv, NoticeInv
<1>. QED
  BY <1>1, <1>2, <1>3, <1>4, <1>5, <1>6, <1>7, <1>8, <1>9, <1>10, <1>11 DEF Main

\* The threads and the process leave the lint alone; a process only exits.
LEMMA LintUntouched ==
  ASSUME LintType, ProcessInv, NoticeInv,
         Writer \/ DrainOut \/ DrainErr \/ Program \/ Deserts \/ HelperExits
  PROVE  LintType' /\ ProcessInv' /\ NoticeInv'
<1>1. UNCHANGED <<main, section, availability, fatal, noticed, notices, status>>
  BY DEF Writer, WriteInput, CloseInput, DrainOut, DrainErr, Program, Reads, PrintsOut,
         PrintsErr, Exits, Deserts, HelperExits, lint
<1>2. child' = child \/ (child = "running" /\ child' = "exited")
  BY DEF Writer, WriteInput, CloseInput, DrainOut, DrainErr, Program, Reads, PrintsOut,
         PrintsErr, Exits, Deserts, HelperExits, process
<1>. QED BY <1>1, <1>2 DEF LintType, ProcessInv, NoticeInv

\* The linting thread starts processes and reaps them, and leaves the pipes be.
LEMMA PipesUntouched ==
  ASSUME ThreadType, ProcessType, PipeInv, Main
  PROVE  ThreadType' /\ ProcessType' /\ PipeInv'
<1>1. CASE Spawn
  <2>1. ThreadType'
    <3>1. 0 \in Blocks BY Sizes DEF Blocks
    <3>. QED BY <1>1, <3>1 DEF Spawn, ThreadType
  <2>2. ProcessType'
    <3>1. 0 \in Blocks /\ 0 \in 0..Capacity BY Sizes DEF Blocks
    <3>. QED BY <1>1, <3>1 DEF Spawn, ProcessType
  <2>3. PipeInv'
    <3>1. /\ printed' = 0 /\ outBuf' = 0 /\ errBuf' = 0 /\ stdout' = 0 /\ stderr' = 0
          /\ todo' \in [out : Blocks, err : Blocks, reads : Appetites]
          /\ outEof' = FALSE /\ errEof' = FALSE
      BY <1>1 DEF Spawn
    <3>2. /\ printed' = outBuf' + stdout' /\ printed' + todo'.out \in Blocks
          /\ errBuf' + stderr' + todo'.err \in Blocks
      BY <3>1, Sizes DEF Blocks
    <3>. QED BY <3>1, <3>2 DEF PipeInv
  <2>. QED BY <2>1, <2>2, <2>3
<1>2. CASE PollExited \/ Kill
  <2>1. /\ child' = "reaped"
        /\ UNCHANGED <<threads, prompt, wrapper, helper, todo, success, printed, pipes>>
    BY <1>2 DEF PollExited, Kill
  <2>. QED BY <2>1 DEF ThreadType, ProcessType, PipeInv, threads, pipes
<1>3. CASE ~(Spawn \/ PollExited \/ Kill)
  <2>1. UNCHANGED <<threads, process, pipes>>
    BY <1>3 DEF Main, Ends, SkipAfterFailure, StartProbe, Probe, NoBinary, HeaderOnly,
           SpawnFails, PollLate, Findings, Failure
  <2>. QED BY <2>1 DEF ThreadType, ProcessType, PipeInv, threads, process, pipes
<1>. QED BY <1>1, <1>2, <1>3

\* The threads and the process only move blocks along.
LEMMA PipeStep ==
  ASSUME ThreadType, ProcessType, PipeInv,
         Writer \/ DrainOut \/ DrainErr \/ Program \/ Deserts \/ HelperExits
  PROVE  ThreadType' /\ ProcessType' /\ PipeInv'
<1>1. CASE WriteInput
  <2>1. stdin' = stdin + 1 /\ stdin < Capacity /\ unsent' = unsent - 1 /\ unsent > 0
        /\ UNCHANGED <<writing, outBuf, errBuf, outEof, errEof, process, stdout, stderr>>
    BY <1>1 DEF WriteInput
  <2>2. stdin' \in 0..Capacity /\ unsent' \in Blocks
    <3>1. stdin \in 0..Capacity /\ unsent \in Blocks BY DEF ThreadType, ProcessType
    <3>. QED BY <2>1, <3>1, Sizes DEF Blocks
  <2>. QED BY <2>1, <2>2 DEF ThreadType, ProcessType, PipeInv, process
<1>2. CASE CloseInput
  BY <1>2 DEF CloseInput, ThreadType, ProcessType, PipeInv, process, pipes
<1>3. CASE DrainOut
  <2>1. CASE stdout > 0
    <3>1. stdout' = stdout - 1 /\ outBuf' = outBuf + 1
          /\ UNCHANGED <<unsent, writing, errBuf, outEof, errEof, process, stdin, stderr>>
      BY <1>3, <2>1 DEF DrainOut
    <3>2. stdout' \in 0..Capacity /\ outBuf' \in Blocks /\ printed' = outBuf' + stdout'
      <4>1. stdout \in 0..Capacity /\ outBuf \in Blocks /\ printed = outBuf + stdout
            /\ printed \in Blocks
        BY DEF ThreadType, ProcessType, PipeInv
      <4>2. printed' = printed BY <3>1 DEF process
      <4>. QED BY <2>1, <3>1, <4>1, <4>2, Sizes DEF Blocks
    <3>3. ~outEof BY <1>3 DEF DrainOut
    <3>. QED BY <3>1, <3>2, <3>3 DEF ThreadType, ProcessType, PipeInv, process
  <2>2. CASE ~(stdout > 0)
    <3>1. ~Held /\ outEof' = TRUE
          /\ UNCHANGED <<unsent, writing, outBuf, errBuf, errEof, process, pipes>>
      BY <1>3, <2>2 DEF DrainOut, pipes
    <3>2. stdout = 0
      <4>1. stdout \in 0..Capacity BY DEF ProcessType
      <4>. QED BY <2>2, <4>1, Sizes
    <3>. QED BY <3>1, <3>2 DEF ThreadType, ProcessType, PipeInv, process, pipes, Held
  <2>. QED BY <2>1, <2>2
<1>4. CASE DrainErr
  <2>1. CASE stderr > 0
    <3>1. stderr' = stderr - 1 /\ errBuf' = errBuf + 1
          /\ UNCHANGED <<unsent, writing, outBuf, outEof, errEof, process, stdin, stdout>>
      BY <1>4, <2>1 DEF DrainErr
    <3>2. stderr' \in 0..Capacity /\ errBuf' \in Blocks
          /\ errBuf' + stderr' + todo'.err \in Blocks
      <4>1. stderr \in 0..Capacity /\ errBuf \in Blocks /\ todo.err \in Blocks
            /\ errBuf + stderr + todo.err \in Blocks
        BY DEF ThreadType, ProcessType, PipeInv
      <4>2. todo' = todo BY <3>1 DEF process
      <4>. QED BY <2>1, <3>1, <4>1, <4>2, Sizes DEF Blocks
    <3>3. ~errEof BY <1>4 DEF DrainErr
    <3>. QED BY <3>1, <3>2, <3>3 DEF ThreadType, ProcessType, PipeInv, process
  <2>2. CASE ~(stderr > 0)
    <3>1. ~Held /\ errEof' = TRUE
          /\ UNCHANGED <<unsent, writing, outBuf, errBuf, outEof, process, pipes>>
      BY <1>4, <2>2 DEF DrainErr, pipes
    <3>2. stderr = 0
      <4>1. stderr \in 0..Capacity BY DEF ProcessType
      <4>. QED BY <2>2, <4>1, Sizes
    <3>. QED BY <3>1, <3>2 DEF ThreadType, ProcessType, PipeInv, process, pipes, Held
  <2>. QED BY <2>1, <2>2
<1>5. CASE Reads
  <2>1. stdin' = stdin - 1 /\ stdin > 0 /\ UNCHANGED <<threads, process, stdout, stderr>>
    BY <1>5 DEF Reads
  <2>2. stdin' \in 0..Capacity
    <3>1. stdin \in 0..Capacity BY DEF ProcessType
    <3>. QED BY <2>1, <3>1, Sizes
  <2>. QED BY <2>1, <2>2 DEF ThreadType, ProcessType, PipeInv, threads, process
<1>6. CASE PrintsOut
  <2>1. /\ Held /\ todo.out > 0 /\ stdout < Capacity
        /\ stdout' = stdout + 1 /\ printed' = printed + 1
        /\ todo' = [todo EXCEPT !.out = @ - 1]
        /\ UNCHANGED <<threads, prompt, wrapper, child, helper, success, stdin, stderr>>
    BY <1>6 DEF PrintsOut
  <2>2. /\ stdout \in 0..Capacity /\ printed \in Blocks /\ outBuf \in Blocks
        /\ todo \in [out : Blocks, err : Blocks, reads : Appetites]
        /\ printed = outBuf + stdout /\ printed + todo.out \in Blocks
    BY DEF ThreadType, ProcessType, PipeInv
  <2>3. outBuf' = outBuf BY <2>1 DEF threads
  <2>4. /\ stdout' \in 0..Capacity /\ printed' \in Blocks /\ todo'.err = todo.err
        /\ todo' \in [out : Blocks, err : Blocks, reads : Appetites]
        /\ printed' = outBuf' + stdout' /\ printed' + todo'.out \in Blocks
    <3>1. stdout' \in 0..Capacity /\ printed' \in Blocks /\ printed' = outBuf' + stdout'
      BY <2>1, <2>2, <2>3, Sizes DEF Blocks
    <3>2. todo'.out = todo.out - 1 /\ todo'.err = todo.err /\ todo'.reads = todo.reads
      BY <2>1, <2>2
    <3>3. todo.out - 1 \in Blocks /\ printed' + todo'.out \in Blocks
      BY <2>1, <2>2, <3>2, Sizes DEF Blocks
    <3>4. todo' \in [out : Blocks, err : Blocks, reads : Appetites]
      BY <2>1, <2>2, <3>3
    <3>. QED BY <3>1, <3>2, <3>3, <3>4
  <2>5. ~outEof BY <2>1 DEF PipeInv, Held
  <2>. QED BY <2>1, <2>4, <2>5 DEF ThreadType, ProcessType, PipeInv, threads
<1>7. CASE PrintsErr
  <2>1. /\ Held /\ todo.err > 0 /\ stderr < Capacity
        /\ stderr' = stderr + 1
        /\ todo' = [todo EXCEPT !.err = @ - 1]
        /\ UNCHANGED <<threads, prompt, wrapper, child, helper, success, printed, stdin, stdout>>
    BY <1>7 DEF PrintsErr
  <2>2. /\ stderr \in 0..Capacity /\ errBuf \in Blocks
        /\ todo \in [out : Blocks, err : Blocks, reads : Appetites]
        /\ errBuf + stderr + todo.err \in Blocks
    BY DEF ThreadType, ProcessType, PipeInv
  <2>3. errBuf' = errBuf BY <2>1 DEF threads
  <2>4. /\ stderr' \in 0..Capacity /\ todo'.out = todo.out
        /\ todo' \in [out : Blocks, err : Blocks, reads : Appetites]
        /\ errBuf' + stderr' + todo'.err \in Blocks
    <3>1. todo'.err = todo.err - 1 /\ todo'.out = todo.out /\ todo'.reads = todo.reads
      BY <2>1, <2>2
    <3>2. stderr' \in 0..Capacity /\ todo.err - 1 \in Blocks
          /\ errBuf' + stderr' + todo'.err \in Blocks
      BY <2>1, <2>2, <2>3, <3>1, Sizes DEF Blocks
    <3>3. todo' \in [out : Blocks, err : Blocks, reads : Appetites]
      BY <2>1, <2>2, <3>2
    <3>. QED BY <3>1, <3>2, <3>3
  <2>5. ~errEof BY <2>1 DEF PipeInv, Held
  <2>. QED BY <2>1, <2>4, <2>5 DEF ThreadType, ProcessType, PipeInv, threads
<1>8. CASE Exits \/ Deserts
  <2>1. /\ child' = "exited"
        /\ UNCHANGED <<threads, prompt, wrapper, helper, todo, success, printed, pipes>>
    BY <1>8 DEF Exits, Deserts
  <2>. QED BY <2>1 DEF ThreadType, ProcessType, PipeInv, threads, pipes
<1>9. CASE HelperExits
  BY <1>9 DEF HelperExits, ThreadType, ProcessType, PipeInv, threads, pipes
<1>. QED
  BY <1>1, <1>2, <1>3, <1>4, <1>5, <1>6, <1>7, <1>8, <1>9 DEF Writer, Program

LEMMA StepInv ==
  ASSUME LintInv, [Next]_vars
  PROVE  LintInv'
<1>. USE DEF LintInv, TypeOK
<1>1. CASE Main
  BY <1>1, LintStep, PipesUntouched
<1>2. CASE Writer \/ DrainOut \/ DrainErr \/ Program \/ Deserts \/ HelperExits
  BY <1>2, LintUntouched, PipeStep
<1>3. CASE UNCHANGED vars
  <2>1. UNCHANGED <<main, lint, status>> BY <1>3 DEF vars
  <2>2. UNCHANGED <<threads, process, pipes>> BY <1>3 DEF vars
  <2>3. LintType' /\ ProcessInv' /\ NoticeInv'
    BY <2>1, <2>2 DEF LintType, ProcessInv, NoticeInv, lint, process
  <2>4. ThreadType' /\ ProcessType' /\ PipeInv'
    BY <2>2 DEF ThreadType, ProcessType, PipeInv, threads, process, pipes
  <2>. QED BY <2>3, <2>4
<1>. QED BY <1>1, <1>2, <1>3 DEF Next
-----------------------------------------------------------------------------
THEOREM LintInvariant == Spec => []LintInv
<1>. QED BY InitInv, StepInv, PTL DEF Spec

\* No pipe overflows, no counter leaves its range, whatever the processes do.
THEOREM TypeCorrect == Spec => []TypeOK
<1>1. LintInv => TypeOK BY DEF LintInv
<1>. QED BY <1>1, LintInvariant, PTL

\* When the readers are joined, the buffer holds all the program printed.
THEOREM NothingLost == Spec => []OutputComplete
<1>1. LintInv => OutputComplete
  <2>. SUFFICES ASSUME LintInv, Join PROVE outBuf = printed
    BY DEF OutputComplete
  <2>1. outBuf \in Blocks /\ printed = outBuf + stdout
    BY DEF LintInv, TypeOK, ThreadType, PipeInv
  <2>2. stdout = 0
    BY DEF LintInv, PipeInv, Join
  <2>. QED BY <2>1, <2>2, Sizes DEF Blocks
<1>. QED BY <1>1, LintInvariant, PTL

\* Between sections and at the end every child has been waited for.
THEOREM ChildrenReaped == Spec => []NoneLeftBehind
<1>1. LintInv => NoneLeftBehind BY DEF LintInv, ProcessInv, NoneLeftBehind
<1>. QED BY <1>1, LintInvariant, PTL

\* After the notice comes neither another one nor another process.
THEOREM FailureFinal == Spec => FailureIsFinal
<1>1. ASSUME LintInv, [Next]_vars, notices > 0
      PROVE  notices' = notices /\ ~(child' = "running" /\ main' # main)
  <2>1. notices = 1
    <3>1. notices \in {0, 1} BY <1>1 DEF LintInv, NoticeInv
    <3>. QED BY <1>1, <3>1
  <2>2. /\ main \notin {"probe", "poll", "kill", "join"}
        /\ fatal \/ (noticed /\ availability = "unavailable")
    BY <1>1, <2>1 DEF LintInv, NoticeInv
  <2>3. CASE Main
    <3>1. Ends \/ SkipAfterFailure \/ NoBinary
      BY <2>2, <2>3 DEF Main, StartProbe, Probe, HeaderOnly, SpawnFails, Spawn, PollExited,
         PollLate, Kill, Findings, Failure, Join
    <3>2. UNCHANGED notices
      BY <2>2, <3>1 DEF Ends, SkipAfterFailure, NoBinary, lint
    <3>3. child' = child /\ main = "next"
      BY <3>1 DEF Ends, SkipAfterFailure, NoBinary, process
    <3>4. child \in {"none", "reaped"}
      BY <1>1, <3>3 DEF LintInv, ProcessInv
    <3>. QED BY <3>2, <3>3, <3>4
  <2>4. CASE Writer \/ DrainOut \/ DrainErr \/ Program \/ Deserts \/ HelperExits
    <3>1. UNCHANGED <<main, lint>>
      BY <2>4 DEF Writer, WriteInput, CloseInput, DrainOut, DrainErr, Program, Reads,
         PrintsOut, PrintsErr, Exits, Deserts, HelperExits
    <3>. QED BY <3>1 DEF lint
  <2>5. CASE UNCHANGED vars
    BY <2>5 DEF vars, lint
  <2>. QED BY <1>1, <2>3, <2>4, <2>5 DEF Next
<1>2. LintInv /\ [Next]_vars =>
        [notices > 0 => notices' = notices /\ ~(child' = "running" /\ main' # main)]_vars
  BY <1>1
<1>. QED BY <1>2, LintInvariant, PTL DEF Spec, FailureIsFinal
=============================================================================
