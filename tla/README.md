# Models, checks and proofs for util-ironclad

util-ironclad is a set of small C programs for the Ironclad kernel: each is one
file under `src/src/` with its own `main()`.  They share no memory and only one
header.  What they do share is the kernel's state and a few files, and that is
where they are hard: a tracer and its tracee run at the same time and talk
through a pipe, two mounts rewrite one file, a parent has to learn how its child
ended, two programs read and write the same number one after the other, a daemon
waits for events of which it does not check that they came.

This directory holds TLA+ models of those programs, TLC runs over small
instances, and TLAPS proofs for every value of the constants.

## 1. Inventory

| program | state it keeps | operations | meets | what is hard |
|---|---|---|---|---|
| strace | per thread id, whether the next record is a call (`infos`); a pipe | attach, poll, read, print, reap | the tracee and the kernel, through the pipe, `ptrace()` and `waitpid()` | records do not say what they are; thread ids come back; the child must be noticed to have ended |
| mount | the list it has just fetched | mount by path, by fstab, remount; rewrite `/etc/mtab` | other mounts and umounts, through the kernel's table and mtab | fetch, truncate and write interleave; crashes; full disks; malformed fstab |
| umount | none | unmount | mount | leaves mtab stale |
| execmac | capabilities for the child; filters and policy of its own | options, fork, restrict, exec, reap | the child; the kernel's access control | any request may be refused, before or after the fork |
| watch | interval, terminal width, last status | header, command, pause | the terminal and the command | arithmetic in `size_t`; how commands end |
| login | one buffer for name and password, the terminal's flags | two prompts, session | the terminal, stdio, the shell | type-ahead, leftovers in stdio, end of file, an interrupt, a terminal that refuses |
| powerd | the entries of `poll()` | poll, run a command | the two buttons | an entry nobody sets; results nobody looks at; one button starving the other |
| renice | the niceness it read | get, set | other renices | a read and a write with others between |
| su, newgrp | the user, or the group | read the arguments, change the ids, turn into a shell | the kernel, the shell | order of arguments; every request may be refused |
| ps | the list it fetched | list, choose, name each thread | processes that end meanwhile | ids that go stale between two requests |
| lspci, ifconfig, ipcs (locks), mount without arguments | the list it fetched | ask, perhaps ask again, print | the kernel's table, which changes | counts larger than the room for them |
| ipcs (segments), blkid | where it is; open descriptors | ask for one after the other | the kernel's table, which changes | what comes and goes during the scan; descriptors that stay open |
| ipcrm, showmem, pivot_root, ifconfig -b and -u | none | one request | the kernel | which request goes with which option |
| dumper, dmesg, cpuinfo, lsclocks, logger | none | one pass: read or write, print | the kernel | little: nothing between two steps can change |
| commons.h, build files | none | system call numbers, version; make | | |

What makes each modelled program correct:

* **strace** prints every record as what it is as long as the thread's records
  pair up, sleeps on no record, and ends after its child.
* **mount** mounts once or fails, takes fstab in order, and leaves mtab equal to
  the kernel's table if nobody disturbs it, whatever others did before.
* **execmac** runs no command with other filters or more capabilities than its
  command line gives, or under another policy than the last one it was granted,
  and says that a command succeeded only if that command did.
* **watch** runs one command at a time with a pause after each, stops with `-e`,
  and otherwise goes on.
* **login** hides passwords and gives the echo back as far as the terminal lets
  it, starts sessions only for what was entered, records their users and nothing
  else in utmp, leaves them the terminal, and comes back to its prompt.
* **su** starts the shell that was asked for, as far as the kernel lets it, and
  **newgrp** that or none.
* **ps, lspci, ifconfig, ipcs, mount and blkid**, when they list: all lines are
  entries of one table as it was at one time, or, where they ask for one thing
  after the other, nothing that lasts is missed; and no line was never true.
* **powerd** runs a command only for a button, and for every button.
* **renice** counts no increment twice.

`PROJECT.json` lists under "hazards" the lines where each of these could go
wrong and the properties that would tell.

## 2. Modules

| module | models | state and actions |
|---|---|---|
| `SyscallTrace` | what a tracer promises | the events that happened and those shown; no pipe, no flags |
| `Strace` | `strace.c`, and the tracee and kernel it relies on | `is_syscall`, `seen`, `own` and `pc` are the tracer's variables; `sent` is what the kernel wrote to the pipe, `out` what was printed, and the pipe holds the difference. One action per step of the loop (`Poll`, `ReadRecord`, `WaitChild`) and per error exit |
| `Mount` | `mount.c` and `umount.c` | `mounts` is the kernel's table, `mtab` the file; `pc`, `line` and `list` are per process. One action per request, per line of fstab, and per step of `update_mtab()` |
| `Execmac` | `execmac.c` | `caps` is `translated_caps`; `mac` and `childMac` are what the kernel holds about parent and child, `refused` is history, the `-p` that it refused. One action per option, per step of the child, and for `waitpid()` |
| `Watch` | `watch.c` | `step`, `result` and `command` are its pc, exit status and child, `col` is `w.ws_col`, `i` the counter of line 110; one action per step of the loop, the spaces one by one; `slept` is history, the pause since the last command |
| `Login` | `login.c` | `tty` is what the terminal has ready, `buf` what stdio has read, `user` the shared buffer; one action per read, per change of the terminal's flags, and per decision; `child`, `ids` and `utmp` are the child's, with one action per thing it asks for on its way to the shell; `lapses` is history, which refusals and interrupts at a password prompt went unnoticed |
| `Powerd` | `powerd.c` | `polled` is the array, `i` the loop's index, `at` the place in the program; one action per `poll()`, per entry, per end of a command |
| `Renice` | `renice.c` | `nice` is the kernel's; `prio` and `pc` are per process |
| `Su` | `su.c` and `newgrp.c` | `stage` and `result` are its pc and exit status, `args` is the command line, `n` the argument looked at or `optind`, `commandAt` where `command` begins, `uid`, `euid` and `gid` what the kernel holds, `argv` what the shell is started with, and `refused` is history, which ids it refused; one action per argument and per request |
| `KernelTable` | a table of the kernel's, as the listing programs know it | numbers and the things they stand for; no state |
| `Snapshot` | what a listing promises | one picture of the table, and the lines shown of it; a program that is `careful`, because it compares the answer with its room, never spoils them |
| `Lists` | `ps.c`, `lspci.c`, `ifconfig.c`, `ipcs.c`, `blkid.c`, and `print_kernel_mounts()` of `mount.c` | `kind` says what is listed; `answer` is the buffer with `ret`, `room` what fits in it, `i` the loop's counter, `files` the open descriptors. One action per request, per line and per end; `held` remembers what each number stood for meanwhile |
| `StraceProofs`, `MountProofs`, `ExecmacProofs`, `WatchProofs`, `LoginProofs`, `RenicePowerdProofs`, `SuProofs`, `ListsProofs` | | theorems about the modules each is named after, which it extends |
| `MCStrace`, `MCMount`, `MCLogin`, `MCLists` | | values of the constants for TLC |
| `MCRunners` | `Execmac` beside `Watch` | values of their constants, and a specification in which `which` says which of the two runs, while the other stays where it begins |
| `MCTools` | `Su`, `Renice` and `Powerd`, one beside the other | the same for three |

`MCRunners` and `MCTools` check small programs together that have nothing to do
with each other, so that each claim about them is made in one place; nothing is
claimed about them together.  For that, `Watch`, `Su` and `Powerd` give what every
specification has names of their own (`WatchInit`, `SuNext`, `PdTypeOK`).

The programs are separate executables, so the compositions are those of
processes and their surroundings: `Strace` composes tracer, tracee and kernel;
`Mount` composes any number of mount and umount processes, the kernel and the
files; `Renice` any number of renices; `Login` login, its child, the shell and
the terminal they share; `Lists` one program and the table that changes under
it.

There are two pairs of abstract and detailed specifications.

* `SyscallTrace` and `Strace`: the mapping (`Promise` in `Strace`) takes the
  records the kernel wrote for what happened and the printed lines for what was
  shown, and counts a thread as lost once its records no longer pair up.
* `Snapshot` and `Lists`: the mapping (`Promise` in `Lists`) takes the last
  answer for the picture, the lines of ps, lspci, ifconfig, ipcs (locks) and
  mount for what was shown, exit status 0 for completeness, and what the usage
  text of ps says of `-A`, `-r` and `-p` (`UsageWants`) for what was wanted.  ps
  and mount are the careful ones.  What ipcs and blkid ask for bit by bit is no
  snapshot; they are mapped to a program that shows nothing and fails, and
  `ScansSeeWhatLasts` says what they promise instead.  So is ps with two of the
  three options, of which the usage text does not hold (run `ps_all`).

Common to all modules: options that print a text and end (`-h`, `-v`) are left
out; wording and layout are left out; what the kernel, the C library and other
programs do is marked external in `PROJECT.json`, and may fail wherever the code
lets it.  Definitions named `X_something` before `X` are plausible mistakes in
`X`; each property is shown to fail under one of them.

## 3. Runs

All runs have `CHECK_DEADLOCK FALSE`, because all programs but login and powerd
end by themselves and those two may end by an error: a state in which nothing
moves is an end, and the liveness properties say when an end is due.

| run | asks | bounds |
|---|---|---|
| `strace` | `Pairing` (the inductive invariant), `CleanRecordsPrintedRight`, `EndsAfterChild`, `RecordsGetPrinted`, and `PromiseSpec`: `Strace` implements `SyscallTrace` | two thread ids, two calls besides exit and exit_thread, a pipe of two records: enough for an id that ends, comes back and ends again while the other thread's records lie between, for a full pipe, and for a process in the background that holds it |
| `strace_nonsense` | violation of `NeverNonsensical`: a failed exec | one thread, attached between two calls |
| `mount` | `OneMountPerCommand`, `FstabInOrder`, `QuietListIsCurrent`, `MountHealsMtab` | three processes, so that two disturb a third; fstab with a comment, a malformed line in the middle, a UUID that is found and one that is out of reach; room for two entries and a table of up to three |
| `mount_readonly` | violation of `ReadOnlyHonoured`: `-t` drops `-f` | one process, the same table and fstab |
| `runners` | of execmac `RunsRestricted`, `ZeroIsTheCommands`, and `ExecmacEnds`, which is `EndsWithCommand` when it is execmac that runs; of watch `HeaderFillsLine`, `StopsAfterFailure`, `CommandsApart`, and `WatchGoesOn`, which is `UpdatesGoOn` when it is watch that runs | every command line of execmac of up to three options and two words: two `-c` with anything between, mistakes at every place; a `size_t` of 16 values; terminals too narrow by more than one, by one, just wide enough, and wide; intervals negative, 0, half a second, 1 and 1.5 seconds |
| `execmac_policy` | violation of `RunsUnderPolicy`: a refused `-p` | as above |
| `watch_pause` | violation of `PausesAsAsked`: a fraction of a second | as above |
| `login` | `PasswordUnseen`, `EchoAsFound`, `ShellUndisturbed`, `UtmpNamesUsers`, `SessionEarned`, `PromptAgain` | users with a password, without, and with an invalid entry; lines with none to three words, typed up to two lines ahead, of which `fgets()` takes two words at a time: a name reaches it whole, a longer line in parts |
| `tools` | of su and newgrp `SuAsAsked`, `NewgrpAsAsked`; of renice `WithinIncrements`; of powerd `CommandsAnswerButtons`, `HeldButtonsAnswered` | every command line of su of up to four words over two users, a word that is no user, two numbers and five option words; two renices, a group of two, a user of two, no member, and the own process, an int of which an increment overflows, and a niceness from -5 to 5, so far from those the processes begin with (-1, 0, 1) that two increments of 1 counted three times would still show; a renice names at most two of a group, a user and a process (`Short`); powerd needs no bounds |
| `su_command` | violation of `CommandIsRun`: a name before `-c` | as above |
| `lists` | `PromiseSpec`: `Lists` implements `Snapshot`; `SpoiltByGrowth`, `LinesWereTrue`, `ScansSeeWhatLasts` | four numbers and room for two: tables that are empty, fit, and are too large by one and by two; two changes at any time, so that a number changes hands twice or the table outgrows both buffers of lspci; two descriptors |
| `ps_all` | violation of `AllMeansAll`: `-A` with `-r` or `-p` | as above |

Each passing run also checks the type invariants of its modules (`TypeOK`,
`WatchTypeOK`, `SuTypeOK`, `PdTypeOK`).  `strace` (400 000 states) and `login`
(three million) take the longest, about a minute and a half, because of their
temporal properties; `tools` has 1.3 million states.  The others end within half a
minute.

### Why the bounds are enough

Two of everything is where interleavings begin, and a third mount process is
there because the property speaks of one that two others disturb.  Counters are
bounded so that the events a property speaks of fit in twice: two options `-c` with
another between, two lines typed ahead, a thread id used a second time, a table
that changes before each of two requests.  The proofs remove the bounds on the
safety properties of every module (for `PasswordUnseen`, as far as `fgets()` has
room for a name and the end of its line).  What the bounds still limit is
liveness.

### Fairness

* `Strace`: the tracer's own steps are weakly fair (it is one sequential
  program that the scheduler runs), and so is the kernel finishing the end of a
  process it has begun.  The tracee and what it leaves in the background are not
  fair: `EndsAfterChild` therefore begins where both have ended.
* `Execmac`: both processes are scheduled up to `execvp()`; the command is not
  fair, so `EndsWithCommand` allows it to run for ever.  `RunnersSpec` has this
  fairness and that of `Watch`, each for the program that runs.
* `Watch`: the loop is weakly fair; the command is not, and `UpdatesGoOn` has the
  end of commands as its hypothesis.
* `Login`: the program is weakly fair, and so is its child up to the shell;
  typing, ends of file, interrupts and the shell are not, so `PromptAgain` allows
  it to wait for them.
* `Powerd`: the loop is weakly fair, `system()` returns, and `poll()` is strongly
  fair in succeeding: nothing is answered if it fails for ever.  `ToolsSpec` has
  the same; of su and renice nothing is said that would need any.

## 4. Proofs

Each proof module begins with what the library says of the data (sequences,
sets, numbers), goes on to the invariant with one lemma per action or group of
actions, and ends with the theorems.  All assume what the modules' `ASSUME`s
state of the constants: sets named, bounds positive, sequences of the right
type, and of sizes only that finitely many renices run.  `PasswordStaysUnseen`
has one more hypothesis, given below.

`StraceProofs`:

* `TypeCorrect`: `Spec => []TypeOK`.
* `PairingHolds`: `Spec => []Pairing`.  `CleanRecordsPrintedRight` is not
  inductive: it says nothing of the records still in the pipe or of the flags.
  `Pairing` adds the three links from what a thread does to what is printed of
  it: a thread that is not torn does what its last record says (`ThreadsPair`),
  the clean records of a thread alternate (`StreamPairs`), and the flag of a
  thread id says what its last *printed* record calls for (`FlagsPair`).  The
  proof goes by the three things a step can do to them: write a record
  (`ReportStep`), read one (`ReadStep`), or neither (`SilentStep`).
* `PrintsCleanRecordsRight`: `Spec => []CleanRecordsPrintedRight`, from it.
* `ImplementsPromise`: `Spec => PromiseSpec`.  A record that is written is an
  event that happens (`HappenStep`); one that is printed is shown as what it is,
  or its thread is lost, and `Pairing` says that there is no third case
  (`ShowStep`); every other step stutters.

`MountProofs`:

* `TypeCorrect`: `TypeOK`, with `PlacesMatch` (each process is where its command
  leads), without which the fields of a command could not be read.
* `QuietListIsCurrentHolds`, and from it `MountHeals` for the action property
  `MountHealsMtab`: that a mount leaves mtab equal to the table follows from its
  list being current and the file being empty when it writes.
* `GrantsHold` (the strengthening `GrantsMatch`: what was granted so far, place
  by place), and from it `MountsOnce` and `FstabIsTakenInOrder`.
* `GrantsAreAsked`, which no run checks: what was granted is what the command
  line or the line of fstab says, except that `-t` drops the flags (the finding
  `mount_readonly`).  The invariant is `RequestsMatch`, which knows besides that
  a second type is tried only without `-t`.

`ExecmacProofs`: `TypeCorrect`, and `CommandIsRestricted` and
`SuccessIsTheCommands` from one invariant.  The properties compare the child with
the command line, so the invariant says at each option what the part that was
read has left behind (`Reading`: the capabilities are those of the last `-c`, the
filters those of every `-f`, the policy that of the last `-p` that was not
refused), and after the fork what the child has of it (`Running`).  `AskedIsDone`
turns the first into the second when nothing is left to read.

`WatchProofs`: `TypeCorrect`; `HeaderFits` by the arithmetic modulo `Modulus`
that the code does in `size_t` (`Wraps`, `RoomLeft`), with `Padding` to count the
blanks; `StopsOnFailure` and `CommandsKeepApart`, which are action properties,
from `Commanding`: which status is looked at where, and that on the way from one
command to the next there has been a whole pause since the first (`slept` forgets
the pause whenever a command is tried).

`LoginProofs`: `TypeCorrect`, `EchoIsGivenBack`, `SessionsAreEarned`,
`ShellIsUndisturbed` and `UtmpHasUsers` from `Checked`, which says at each place
what has been verified by then, and of the saved flags that they are those
found, unless there was a lapse. `PasswordStaysUnseen` needs `Dark` too: stdio
is empty when the echo is switched off, so that what is read at the prompt was
typed in the dark, unless the terminal refused (`"hide"` in `lapses`). A line
that is longer than the buffer does leave its rest in stdio, but then what
`fgets()` took lacks its newline and is no user's name, or it was a rest itself;
a name that is known was all there was. This holds as long as `fgets()` takes a
name together with the end of its line, and that is the hypothesis, `UserMax > 1`;
the lines themselves may have any length.

`RenicePowerdProofs`, about `Renice`, for any finite number of renices:

* `TypeCorrect`: `TypeOK`.
* `IncrementsCountOnce`: `WithinIncrements`, which bounds the niceness by a sum
  over a set of renices.  The lemmas before it say of that sum what the library
  does not: that its recursion defines something for every finite set, and that
  taking one member away takes its summand away (`SumExists`, `SumWithout`, by
  least counterexamples, and `TotalUpwards`, `TotalDownwards` for the two signs).
  The invariant (`Bounded`) says it also of the niceness a renice has
  read and not yet written: it too counts no increments but those of renices that
  have ended.  `ToolsAssumption`, that there are finitely many renices, is what
  makes the sum one.

and about `Powerd`: `PowerdTypeCorrect`, and `CommandsAreOfButtons` from
`Polling`, which says of each entry that it is a button's, except on the machine
that the property names.

`SuProofs`: `SuTypeCorrect`, `NewgrpGivesGroup` and `SuDoesAsAsked`, for command
lines of any length.  `SuAsAsked` speaks of the first `-c` and the first word that
is no option; the invariant (`SuReads`, `NewgrpReads`) says how the loop ended
(it `RanOut`, or is `AtCommand(m)` or `AtName(m)`), and `FirstDashC`, from the
well-foundedness of the numbers, that the two mean the same argument.  `IdsFollow`
says which ids the process has after which refusals.

`ListsProofs`, for tables and buffers of any size:

* `TypeCorrect` and `OnlyGrowthSpoils` from `Stages`: what is known of the answer,
  the room and the counter at each place.
* `LinesAreTrue` from `Truth`: what a number stands for, and what was answered and
  is still being printed, is among what the number stood for.
* `ScansMissNothing` from `Scanned`: below the place of the scan all that lasted
  was printed, at or above it nothing.  The step of `readdir()` needs that the
  numbers it passes over stand for nothing; the end needs that there is a least
  number among those that are left, if any is (`NoneLeftInFolder`).
* `ImplementsSnapshot`: `Spec => PromiseSpec`.  An answer is one picture of the
  table with each number once (`ListingFacts`, from the cardinality of a table);
  `Pictured` says that the lines are what was wanted of the part that was passed,
  where `-p` needs that no second entry has the number (`OnlyOne`); then a request
  is `Look`, a line `Show`, the end of the loop `Complete`, an error `Fail`, and
  the first read behind the buffer `Spoil`.

Only model-checked: all liveness (`EndsAfterChild`, `RecordsGetPrinted`,
`ExecmacEnds`, `WatchGoesOn`, `PromptAgain`, `HeldButtonsAnswered`; TLAPS
proves neither fairness nor ENABLED here), and the claims that findings refute.

## 5. Findings

| run | the code | the text |
|---|---|---|
| `strace_nonsense` | a failed exec leaves the flag set, so its return is printed as a call (`strace.c:317`) | `strace.c:294`: "without being nonsensical" |
| `mount_readonly` | with `-t` the flags are passed as 0 (`mount.c:344`) | `mount.c:260`: "Mount read-only, if not present, read-write" |
| `execmac_policy` | the result of `set_mac_enforcement()` is not looked at, so that a command runs under the old policy (`execmac.c:132`) | `execmac.c:45`: "Command that will be run using the passed MAC settings" |
| `watch_pause` | the fraction of a second is divided by 10^6 where it should be multiplied by 10^9, and is lost (`watch.c:142`) | `watch.c:52`: "Time to wait between updates" |
| `ps_all` | `-r` counts with `-A` too, and `-p` counts more (`ps.c:187`) | `ps.c:99`: "regardless of user and filters" |
| `su_command` | the loop over the arguments ends at the name, so that a `-c` after it is never read (`su.c:50`) | `su.c:34` and `39`: "[username] [-c ...]", "Instead of logging, execute a command in the shell" |

Other behaviours are part of what properties that hold say:

* execmac: a list of capabilities that begins with `all` is taken for `all`
  whatever follows, though `execmac.c:64` wants `all` alone; `RunsRestricted`
  makes no claim about the capabilities after such a list (`AllAlone`).  After a
  refused `-p` the policy is that of the last one which was granted.
* watch: a command that was killed counts as a success, because `WEXITSTATUS()` of
  it is 0 (line 136), so that `-e`, "Stop updates on the first error"
  (`watch.c:50`), goes on; `StopsAfterFailure` therefore speaks of commands that
  exited.  A negative `-n` is no pause at all (`CommandsApart`); on a terminal
  narrower than its header it prints about 2^64 spaces (`HeaderFillsLine` is an
  equivalence).
* su: a refused `setuid()` or `seteuid()` goes unnoticed, and the shell runs with
  the ids that are left (`SuAsAsked` says which).
* renice levels a group to its lowest niceness plus the increment, so that `-n 1`
  may take niceness away (`WithinIncrements`).
* powerd: with a power button and no sleep button an entry nobody has set is
  polled, and may reboot the machine (`CommandsAnswerButtons` excludes this
  machine by name).
* login does not look whether the terminal told or changed its flags
  (lines 88 to 96), and an interrupt at the prompt for the password ends it there:
  the password is then typed in sight, or the echo stays off for whoever comes next
  (`PasswordUnseen` and `EchoAsFound` name these cases, and show that there is no
  other).  The user's uid and gid may be refused unseen as well.  utmp keeps the
  name of a session that has ended, or that never began (`UtmpNamesUsers`).
* ps: `-p` with `-r` prints the process named even if it has exited; `PromiseSpec`
  speaks of command lines with one of `-A`, `-r` and `-p` (`Clear`).
* ifconfig and ipcs print what lies behind their buffer when the kernel has more
  entries, and lspci does when the table grows between its requests
  (`SpoiltByGrowth`); blkid misses devices once it has run out of descriptors
  (`ScansSeeWhatLasts`).
* not in any model: `ipcrm -a` and `showmem -i` are in the usage text and not in
  the string for `getopt()`; ifconfig with both `-b` and `-u` blocks.

## 6. Not modelled

* **ipcrm, showmem, pivot_root**, and `-b` and `-u` of **ifconfig**: one request
  whose result becomes the exit status; a model would restate the call.
* **dumper, dmesg, cpuinfo, lsclocks, logger**: one pass without state in
  between.  What could be said of them is formatting, and, of logger without
  arguments, that it writes before the beginning of its string (`logger.c:51`),
  whose effect is up to the compiler.
* **commons.h and the build**: no behaviour.
* In strace, how the arguments of a call are laid out in a line.  In mount, the
  parsing of option strings (they are the flags they give).  In watch, the text
  of the command.  In login, the environment and the directory of the shell.  In
  ps, the formats of `-o`; in all listings, the columns.
* Memory: a read behind a buffer is modelled as the end of what can be said
  (`spoilt` in `Lists`); writes past the end of a buffer are not modelled.

## 7. Plan

What is done, the most important behaviour first, and what is left:

1. `SyscallTrace`, `Strace`, `StraceProofs`, with the refinement: done.
2. `Mount`, `MountProofs`: done.
3. `Execmac`, `ExecmacProofs`: done.
4. `Watch`, `Login`, `Powerd` and their proofs: done.
5. `Su`, `SuProofs`: done.
6. `KernelTable`, `Snapshot`, `Lists`, `ListsProofs`, with the refinement: done.
7. `Renice`, with the sums in `RenicePowerdProofs`: done.

Every safety property of a passing run is a theorem.  Left: lemmas from which
the liveness properties would follow by fairness alone, such as a measure that
every step of a loop decreases.
