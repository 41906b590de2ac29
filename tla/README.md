# TLA+ development of the CS:APP experiments

This directory holds TLA+ specifications of the programs in this repository, the TLC
configurations that model-check them, and TLAPS proofs about them. The programs are the
laboratories of *Computer Systems: A Programmer's Perspective*: a job-control shell, a cache
simulator with cache-conscious transposes, a Y86-64 instruction set with two processors, an
assembler and a translator, bit puzzles, and two exercises that are binaries only.

1. Inventory - 2. Modules - 3. The shell - 4. The cache laboratory - 5. The Y86-64 processors -
6. The assembler and the loader - 7. The HCL translator - 8. The data laboratory - 9. Runs -
10. Disagreements found - 11. Proofs - 12. Not modelled - 13. Plan

## 1. Inventory

Paths under `sim/` are in `Exp.4_lexue/`.

| Part | Files | State it keeps | Operations | What is hard about it |
|---|---|---|---|---|
| Shell: job table | `Exp.5/tsh.c` 445-591 | `jobs[MAXJOBS]`, `nextjid` | `addjob`, `deletejob`, lookups | full table, reuse of slots, wrap and restart of the job id counter |
| Shell: evaluation, `bg`/`fg`, handlers | `Exp.5/tsh.c` 95-435, 630-654 | signal mask, locals of `eval`, `do_bgfg` and three handlers; the kernel's view of the children | a command, a builtin, a signal, a child's step | handlers that nest, coalesced signals, stale pointers, a test-then-sleep window, pid reuse |
| Cache simulator | `Exp.4/csim.c` | lines of each set, `lru_clock`, three counters | `accessCache`, `L`, `S`, `M` | replacement, a clock that overflows |
| Transposes | `Exp.4/trans.c` | A, B, five loop counters, eight temporaries | one iteration of an innermost loop | in-place use of B as scratch space, edges, conflict misses |
| Grading of transposes | `Exp.4/test-trans.c`, `tracegen.c` | trace, reference cache | trace, replay | the number of misses depends on the addresses of A and B |
| Y86-64 instruction set | `sim/misc/isa.c` | registers, codes, memory, PC, status | `step_state` | error cases of each instruction; the reference the processors are compared with |
| SEQ | `sim/seq/ssim.c`, `seq-full.hcl` | the above and a set of writes not made yet | `sim_step` | order of writes, exceptions |
| PIPE | `sim/pipe/psim.c`, `pipe-full.hcl` | five pipeline registers | `sim_step_pipe`, `sim_run_pipe` | forwarding, load/use hazards, mispredicted branches, `ret`, exceptions in flight |
| Assembler | `sim/misc/yas.c`, `yas-grammar.lex` | tokens of the line, symbol table, byte position, error flags | a line read, a line finished, twice over the file | the passes must count alike, errors that hide others, a last line without newline |
| Loader of `yis` | `sim/misc/isa.c` 194-323, `yis.c` | memory, bytes stored | a line of the `.yo` file | overlapping lines, the end of memory |
| HCL translator | `sim/misc/hcl.y` (`hcl.tab.c`), `node.c`, `hcl.lex` | parser stack, symbol table, error count, what is printed | shift, reduce, error | precedences of HCL against those of C, checks made while parsing |
| Bit puzzles | `Exp.1/bits.c`, `tests.c` | none | fifteen functions and their references | every operand: carries, signs, rounding |
| Tester of the puzzles | `Exp.1/btest.c`, `decl.c` | options, generated arguments, loop indices, alarm, score | a test, a call of a function, SIGALRM | the alarm is never cleared and may ring in the next test |
| Bomb, attack laboratory | `Exp.2`, `Exp.3` | - | - | binaries, disassembly and answers |
| Drivers | `*.pl`, `driver.py`, `btest.c`, ... | - | - | test harnesses |

How the parts interact. In the shell, `main` and the handlers share the job table and nothing
else; the children reach them only through signals and `waitpid`. `test-trans` runs `tracegen`
under valgrind and replays the trace of `transpose_submit` on the reference cache simulator, whose
counts `csim` reproduces. In the processor laboratory `hcl2c` turns the `.hcl` control logic into
the functions that `ssim` and `psim` call; both step `isa.c` beside the processor (`-t`) and
compare; `yas` writes the files that they and `yis` load. `btest` runs the puzzles of `bits.c` against
the functions of `tests.c`.

What makes each part correct:

* job table: no slot is half cleared, no job id is given twice;
* shell: at most one foreground job, and none while the prompt waits; a slot for each living child
  and no other; a slot's state agrees with its process; each zombie is reaped; ctrl-c never
  reaches a background job;
* cache: the victim is the least recently used block, the counters tell hits, misses and evictions
  apart, a wider set never does worse;
* transposes: B ends as the transpose of A for every shape, no finished block is spoilt;
* processors: they compute what `step_state` computes, whatever instructions meet in them;
* assembler and loader: exit status 0 exactly for a well-formed source, whose statements are then
  fetched where they were written;
* translator: exit status 0 exactly for a well-formed source, whose C then has the value of its HCL;
* puzzles: each gives what its reference gives; `btest` passes no function that is wrong on the
  arguments it generates and charges no right one except when time runs out.

The hazards of this code, each at its line, are listed in `PROJECT.json` with the properties that
cover them, or with a note why no property does.

## 2. Modules

| Module | Models | Uses |
|---|---|---|
| `JobTable` | the job array and its routines; on its own, every sequence of `addjob` and `deletejob` | - |
| `JobControl` | abstract: the status of each job and its legal changes | - |
| `Tsh` | the shell, its handlers, its children, the kernel between them | `JobTable`, refines `JobControl` |
| `LruCache` | abstract: a set-associative cache with least-recently-used replacement | - |
| `Csim` | `csim.c` | refines `LruCache` |
| `CsimInclusion` | two runs of `csim`, with E and with E + 1 lines per set, on one trace | `Csim` twice |
| `TransLoops`, `Trans` | the loops of `transpose_submit`, and what their iterations do to A, B | - |
| `TransCache` | the trace of `transpose_submit` on the graded cache | `Trans`, `Csim` |
| `Y86` | words, registers, memory, arithmetic, conditions | - |
| `Isa` | `step_state` | `Y86` |
| `Seq` | `sim_step` of `ssim.c` with `seq-full.hcl` | `Y86`, refines `Isa` |
| `Pipe` | the cycle of `psim.c` with `pipe-full.hcl` | `Y86` |
| `PipeIsa` | the properties of `Pipe`, and its view of the program's state | `Pipe`, refines `Isa` |
| `Programs` | words of four bits and a menu of instructions for TLC | `Y86` |
| `Encoding` | `isa.h`, the table of instructions, registers | - |
| `Yas` | `yas`: scanner, `finish_line`, the two passes | `Encoding` |
| `Loader` | `load_mem`, the fetching half of `step_state`, byte by byte | `Encoding` |
| `Assemble` | `yas` and then `yis`; what a source means, and the properties | `Yas`, `Loader` |
| `HclNode` | the parse tree of `node.c`: construction, checks, printing as C | - |
| `Hcl` | `hcl2c`: the parser with bison's tables, its actions, the exit status | `HclNode` |
| `HclMeaning` | grammar and values of HCL, values of C; the properties | `Hcl` |
| `Bits` | `bits.c` and `tests.c` | - |
| `Btest` | `btest` and `decl.c` | `Bits` |
| `MC...` | instances for TLC | |
| `NatLemmas`, `TshProofs`, `CsimProofs`, `TransProofs`, `SeqProofs`, `PipeProofs`, `AssembleProofs`, `BtestProofs` | theorems | |

Definitions called `Faulty...` or `Stuck...` are slips that the code might contain. Nothing uses
them; put in place of the definition that follows them, each breaks a property (`mutants` in
`PROJECT.json`).

## 3. The shell

One TLA+ step is one statement of the C code that another actor can tell apart:
`eval` is `ReadCommand` (parse, block SIGCHLD), `Fork` or `ForkFails`, `Add`, `Unblock`;
`do_bgfg` is `BgFg` (find the job), `SendCont`, `SetJobState`; `waitfg` is `WaitTest` and
`Suspend`; `sigchld_handler` is a loop of `Reap` and `Act` that `ReapNone` ends; `sigint_handler`
and `sigtstp_handler` are `Look` and `Kill`. `Deliver` interrupts whatever runs, pushing the
handler on `stack`; `main` moves only while `stack` is empty. `Signal()` leaves `sa_mask` empty,
so a handler masks its own signal only and different handlers nest. A child goes through
`forked` (before `setpgid`), `grouped` (before `execve`), `running`, `stopped` and the two kinds
of zombie; `waitpid` frees its pid for reuse. A failing `execve` is a child that exits from
`grouped`; a null pointer dereference in `sigchld_handler` moves the shell to `crashed`.

Assumptions on the environment: a job is one process; nobody but the shell sends SIGCONT to a
job (the shell does not ask `waitpid` for continued children); a call into the job table is one
step (the handlers that may run inside one read a single slot, and what they read is what they
would have read before or after it); a keystroke that reaches a child before `execve` finds no
foreground job in the child's copy of the table.

Bounds: `JidCap` (the command prompt is left alone once `nextjid` has passed it; the counter is
unbounded because `deletejob` restarts it at `maxjid + 1`), `MaxKeys` keystrokes, `Builtins`, the
set of states the user may ask for with `bg` and `fg`. Two processes are enough for every
interleaving of a job with its predecessor in a slot and with a second job, three of them on two
slots fill the table; two on three slots let the job id counter restart with a slot to spare.

Fairness (`FairSpec`): the shell's own steps, its handlers' and the children's are weakly fair
(the scheduler runs them); the delivery of a signal is strongly fair, because the kernel delivers
a pending signal when it is unblocked, before the unblocking call returns. No program has to
end, and no user has to type.

## 4. The cache laboratory

**`Csim`.** `accessCache` is one step: `Hit`, `Fill` or `Evict`, each of them the scan that finds
the line, the write of tag and stamp, and the tick of the clock. An `M` line is `Modify` and then
`ModifyAgain`, with no other access between them. `s` and `b` appear as the numbers of sets and of
bytes per block. The clock is an `int`: `ClockMax` is its largest value and `Tick` wraps, as the
build does. `LruCache` knows neither lines nor clock: a set holds tags and remembers the order of
their uses; `Csim` maps to it by reading the order off the stamps.

Bounds: two sets of two lines (and of three, in `CsimInclusion`), four blocks for each set, all
traces of `MaxAccesses` = 6 calls. Three accesses fill a narrow set and choose a victim, the rest
reuse lines after an eviction and tell the order of use from the order of arrival; the wider set
evicts from the fourth block on. The clock does not wrap here (a set whose stamps wrap evicts the
wrong block, see section 10). No property covers that hazard: those about the order of use are
stated and proved for traces that fit the clock.

**`Trans`.** One step is one iteration of the innermost loop over `ii`, or `jj` for the middle
part of the 64 by 64 case; the temporaries live no longer than that. The element values are
constants of the specification, so that every element can be different. TLC runs the three graded
shapes and eight around the 16 by 16 blocks of the general case.

**`TransCache`.** Each iteration queues the addresses that its statements load and store, in their
order, and the cache of `Csim` with 32 sets of one 32-byte line replays them; around them stand
the accesses that `tracegen` makes between its markers. The addresses are those of the trace that
the repository holds (`trace.tmp`). The reference simulator that counts in the real grading is a
binary.

Fairness: weak on `GradeNext`. One process writes a trace that another reads to its end.

## 5. The Y86-64 processors

**Abstractions, in `Y86`.** A word is a number from `-Half` to `Half - 1`, arithmetic wraps. One
number addresses one instruction or one word of data, so that an instruction's length and the size
of a word are both 1. Text and data are apart. This leaves out misaligned accesses, instructions
cut off by the end of memory and code that changes itself; everything else that `step_state` and
the processors do is there, invalid addresses and instructions included. `BitAnd` and `BitXor` are
constants that yield words.

Programs are not enumerated up front. An address of the text may hold `NotYet`, and `Load` puts any
instruction of `Instrs` there when a processor is about to fetch it: TLC explores a program only as
far as some processor reads it, and a mispredicted path loads what it fetches.

**`Isa`** has an action for each instruction, with the checks in the order of the code. A call,
push or pop whose address is invalid has already changed `%rsp` when it stops, as in `isa.c`.

**`Seq`** keeps what `sim_step` has decided to write (`destE`, `vale`, `cc_in`, `mem_write`, ...)
until the next call, when `update_state` writes it; `reg0` and `mem0` are the state after that.
The program's view of the state has the pending writes done, except for an instruction that
faults: its writes never happen.

**`Pipe`** uses the names of `pipe-full.hcl`. `f_next`, `d_next`, `e_next`, `m_next` are the stage
functions, which read the state before the clock ticks; `Update` is `update_pipes`, with stall,
bubble and the error of both at once; `Cycle` is `sim_step_pipe`. Two parts of the order in
`psim.c` matter: `update_state` makes the writes of the previous cycle before the stages run, and
a failing read leaves `m_valM` as it was.

**`PipeIsa`** takes the end of the execute stage as the moment an instruction happens: from there on
it can no longer be cancelled and its codes are set. The program's registers are therefore those of
the register file with the writes of `W` and then of `M` applied; the pc is that of the oldest
instruction before `M`, or where the fetch goes next when there is none.

Bounds: words of four bits, registers `%rax` and `%rsp`, two words of data, six addresses of text.
Each program sets `%rsp` to an address inside the data, then come three instructions out of a menu
of 27 and halts; branches and calls lead backwards into the three, over the last of them and to
the end. Three instructions behind the first are what the pipeline holds between fetch and memory:
every pair of instructions meets at each distance at which forwarding or a stall can happen, on
right and wrong paths. Four bits are enough for the overflow cases of the condition codes.

Fairness: weak on the one next-state action, because the simulator loops until the processor
stops.

## 6. The assembler and the loader

**`Yas`.** The scanner (`yas-grammar.lex`) hands over tokens and calls `finish_line` at each newline.
`ScanLine` is the reading of one line's tokens, `finish_line` what then happens to them, one action
for each of its ends: `EmptyLine`, `ErroneousLine`, `MissingColon`, `LabelOnly`, `BadInstruction`,
`InvalidAddress`, `Pos`, `InvalidAlignment`, `Align`, `Measure` (an instruction in pass 1) and
`EncodeLine` (in pass 2). A character that begins no token puts the scanner in its start condition
`ERR`, whose rule takes the rest of the line with its newline, so that `finish_line` is not called and
the tokens before it stay for the next line (`end = "junk"`); without a newline at the end of the
file the scanner stays in `ERR` and is still there when pass 2 begins (`SkipLine`). `EndOfFile` is
`yywrap` with what `main` does after it. `get_reg`, `get_num`, `get_mem` encode operands into the ten
bytes of `code`, which keep what the line before left in them. `print_code` prints three digits of
an address below 16^3 and four above, and exits the process beyond four.

A line is a sequence of tokens with a kind and a value; the matching of characters is left out. The
first pass makes the source up as it goes, any line from the menu of a scene at a time; the second
reads it again.

**`Loader`.** `LoadLine` stores the bytes of a line up to the first that is outside the memory (`Stored`,
`Places`), where `load_mem` gives up; `Fetch` is the first half of `step_state`.

**`Assemble`** runs `Loader` on the output when the exit status is 0, and says from the source
alone where each statement goes (`Positions`), what it stands for (`Meaning`) and which sources are
well formed (`WellFormedLine`). Nothing there looks at the tables of `isa.c` or the state of `yas`:
`Size`, for one, adds the parts of an instruction up.

Bounds: four scenes. `Forms` has one statement of each kind and its malformed variants, two lines of
them; `Layout`, labels before and after their use, defined twice, on directives, four lines;
`Unreadable`, junk and missing newlines, with or without blanks behind the last one, three lines;
`Limits`, the last places of three- and four-digit addresses and of the memory (`MEM_SIZE` = 8192 as
in `isa.h`), `.align` at a negative place, where C's division rounds up, and one by the largest
`int`, which overflows behind a byte of code, four lines. Two lines put any statement before and
behind any other, which tells whether one leaves something behind for the next; an error that hides
another needs three. There is no fairness: both programs read to the end of a file.

Numbers and the position are `int`s: `Plus` wraps, and `Aligned` (`yas.c:372`) is made of it. Three
limits of `yas` are named and not crossed: a line with more tokens than `tokens` has room for
(`TOK_PER_LINE` = 12) or more labels than `symbol_table` has (`STAB` = 1000) is not read
(`HasRoom`), because nothing in `yas` stops it and what it then writes over is not defined; and the
text of a line fits the buffers of `STRMAX` characters.

## 7. The HCL translator

**`Hcl`** is bison's automaton with the tables of `hcl.tab.c`: `yylex`, `Shift`, `Reduce` with the
semantic action of the rule (`Semantics`), `SyntaxError` and `Accept`. The grammar has no error
productions, so that a syntax error empties the stack; the sixth error of any kind ends the process.
**`HclNode`** has the constructors of `node.c` with the checks they make, and `gen_expr`, whose text
is a sequence of C tokens. A `node_ptr` is the list that starts at it, since `next` joins both the
arms of a case expression and the members of a set.

**`HclMeaning`** says what a source is and means from the grammar and the `%left` declarations of
`hcl.y` alone: `Tree` splits a sequence of tokens at the operator that binds loosest. `CValue`
evaluates printed C by C's precedences. A source that the parser gave up on is malformed if none of
the `Endings` completes it.

Bounds: five vocabularies, each with a prefix of declarations and up to eight tokens of free choice
(operators and parentheses; sets; case expressions; case expressions in sets; declarations, quotes
and a symbol table of two entries instead of 100). Eight tokens hold three binary operators with a
parenthesis or a NOT, which is what precedence and associativity are about; two entries overflow.
The text of the scanner and the line breaks of `outgen.c` are left out.

## 8. The data laboratory

**`Bits`.** A word is the set of its bits, so that `&`, `|`, `~` are operations of sets and `+` is
defined by its carries; the functions of `tests.c` are about numbers. The two meet only in the
properties. A word has four bytes of `BYTE` bits and a float `FRAC` bits of fraction; the constants of
the C code (masks, shift counts, bias) follow from them as they do for 32 bits.

**`Btest`** is `main` after `getopt`, `run_tests` and `test_function`: `Option`, `Select`, `Generate`
(`gen_vals` for one argument), `Sigsetjmp`, `Alarm`, `Test` (one call), `Tally`. The alarm is set after
the arguments are generated, and nothing clears it: `TimedOut` is its signal within the test, `Late`
the signal of an earlier test's alarm after `test_function` has been entered again, `Crash` the same
with no `test_function` active, a `siglongjmp` into a frame that is gone. A session is a student whose
functions are those of `bits.c`, with at most one made wrong or endless at one combination of
arguments, and the options of the run.

Bounds: eight-bit words with floats of 4 and 3 bits, on which `PuzzlesRight` goes through all
operands; 9 values around each special one (3 and 2 for two and three arguments, as
`arg_test_range` has it); one draw of `random_val`; `MaxSlow` = 1, how often time runs out on a function
that would have ended. The 15 puzzles in their order let an alarm reach any later test.

Fairness: steps of the process, as long as it is not inside an endless function, and the delivery of
the alarm there. The first is weak fairness of `Step`, its `ENABLED` written out as `Runnable`.

## 9. Runs

| Run | Module | Asks |
|---|---|---|
| `shell` | `MCTsh` | three pids for two slots, `bg`: `AtMostOneFg`, `PromptMeansNoFg`, `NoStaleEntry`, `PidsUnique`, `ChildrenTracked`, `CrashOnlyIfDropped`, and the refinement of `JobControl` |
| `shell_live` | `MCTsh` | two pids, three slots, a key, fair: `ZombiesReaped`, `WakesOnSignal`, `KeysSpareBackground`, `StatesTrue`, `SlotsWhole`, `NextJidFresh` |
| `wait_hangs` | `MCTsh` | violation: `waitfg` returns (it may not) |
| `fg_ghost` | `MCTsh` | violation: at most one job in the foreground, with `fg` |
| `cache` | `MCCsimInclusion` | `BlocksUnique`, `ClockOrders`, `LoadedIsThere`, `StoreOfModifyHits`, `RefinesLruCache`, `WiderHoldsMore` |
| `transpose` | `MCTransCache` | `Transposed`, `BlocksStayDone`, `Graded`, and `MissesAsReported`: the 288, 1228 and 1993 misses of `report.md` |
| `seq` | `MCSeq` | `RefinesIsa` |
| `pipe` | `MCPipe` | `RefinesIsa`, `NoConflict` (the assertion in `pipe-full.hcl` that no register stalls and bubbles at once), `RedirectsAlone`, `Retires`, `CodesExact` |
| `pipe_absolute` | `MCPipe` | violation: `RefinesIsa` with loads and stores that have no base register |
| `hcl` | `MCHcl` | `Verdict`, `GeneratedMeansHcl`: the exit status, and the value of the C |
| `btest` | `MCBtest` | `PuzzlesRight`, `CreditEarned`, `NoWrongCharge`, `RunEnds` |
| `assemble` | `MCAssemble` | `Verdict`, `PassesAgree`, `LoadedMeansSource` |

`TypeOK` is an invariant of `shell` and `transpose`; that of `Csim` and `Pipe` is a theorem. Deadlock is
not checked where the program ends: the shell may exit or crash, a trace or a source ends, a
processor stops.

`hcl` leaves case expressions in sets out of both properties, because there they are false, and
`assemble` leaves negative positions out of `LoadedMeansSource` and states the one-line file of junk
as an exception. Both `Verdict` and `LoadedMeansSource` leave out the sources in which an alignment
that is reached goes past the largest `int` (`Overflow`); the run accepts and loads such sources,
and both are false of them (section 10). `CreditEarned` is about the generated arguments only:
`btest` accepts functions that are wrong elsewhere, such as `FaultyFloatAbsVal` in `Bits`.

## 10. Disagreements found

With a run each (`findings` in `PROJECT.json`):

* `wait_hangs`: a child that is reaped between the test of `fgpid` and `sigsuspend` leaves the shell
  asleep with no foreground job.
* `fg_ghost`: `do_bgfg` writes `FG` through a pointer to a slot that the handler may have cleared.
* `pipe_absolute`: two sources without a register match a destination without one, so that of two
  successive loads from absolute addresses the second adds the first address to its own.

Others, without a run of their own:

* Shell. With a full table, `sigchld_handler` reads `jid` of a job that `addjob` has refused
  (`CrashOnlyIfDropped` says that this is the only way to crash). A job that stops right after `kill` in
  `bg` is marked `BG` afterwards (`tsh.c:337`). Job ids repeat once a live job is numbered MAXJOBS
  (`tsh.c:485`): with four slots, add three jobs, delete the second, add two. Ctrl-c before the child's
  `setpgid` is lost (`tsh.c:192`).
* Cache. Past 2^31 accesses the clock of `csim` wraps and the newest line becomes the victim
  (`ClockOrdersCorrect` and `RefinesLruCacheCorrect` assume that it does not). The shifts of
  `csim.c:46` take their counts from the command line unchecked.
* Processors. `ssim -l` leaves the last instruction's writes undone when the limit ends the run
  (`ssim.c:799`). `psim -t` and `ssim -t` report a difference when a push, call or pop faults, because
  `isa.c` has changed `%rsp` and the processors have not (`isa.c:875`); the refinement mappings of `Seq`
  and `PipeIsa` make that one write. `sim_run_pipe` promises the number of instructions
  (`psim.c:751`) and counts each status that is not SBUB (`psim.c:763`), but `Stat` turns SBUB into SAOK
  (`pipe-full.hcl:374`), so that bubbles count. An instruction that is overwritten while an older one
  has not reached memory is fetched as it was (`psim.c:1397`).
* Assembler. `add_token` tests `tpos` instead of `tcount`, so that "Line too long" is never said
  (`yas.c:450`). A scanner error swallows the line behind it as well. A last line of a comment
  without a newline makes pass 2 reject the first line, unless it is the only line. What follows an
  instruction's operands is ignored. `.pos` takes a negative number and prints it modulo 16^3. In
  `.align`, `bytepos+a-1` overflows an `int` (`yas.c:372`): `halt`, `halt`, `.align 2147483647`
  comes to position -2147483647, printed as 0x001 with exit status 0, where "Code address limit
  exceeded" is due. Nothing stops the 13th token of a line or the 1001st label (`yas.c:450`,
  `yas.c:508`). `rmmovq %rax,` is accepted as address 0, while `yas.c:246` lists five forms of
  memory operands, none of them empty. Of two definitions of a label the first silently wins. After
  exit status 1 a partial `.yo` is left.
* Translator. The members of a set and the arms of a case expression are both joined through `next`,
  so that a case expression in a set takes the members behind it for arms: the C has another meaning, or
  `hcl2c` follows a null pointer, as it does for a case expression without arms. `make_ele` checks its first argument's list where the members of the set
  are meant (`node.c:305`). The scanner echoes characters it does not know into the C with exit
  status 0. `outgen.c:7` promises lines of limited length, but numbers are not counted. After errors
  the C file is left behind.
* Tester. `get_num_val` tests `*valp`, the previous value of the same option, where `*endp` is meant
  (`btest.c:496`). The "largest normalized" value 0x7f000000 is not (`btest.c:144`). A late alarm charges
  the next test or crashes the process (`btest.c:357`).

## 11. Proofs

All theorems hold for every value of the constants, from the assumptions named in the modules
alone, unless stated otherwise. The assumptions are types of the constants and, in `Bits`, that two
powers of 2 are positive, which is true of every width but which the provers do not derive.

* `TshProofs` first characterises each call into the job table (`AddJobEffect`, `DeleteJobEffect`) with
  the scans eliminated, and proves `TableTypeOK`, `SlotsWhole` and `NextJidFresh` for every sequence of
  calls. It then proves `ShellInv` for any number of processes, slots and keys. `NoStaleEntry` is not
  inductive: that `deletejob` follows `addjob` needs the window in which SIGCHLD is blocked
  (`ForkWindow`), which needs that a handler which is not idle is on the stack
  (`RunningOnStack`); that the handler's loop body removes the right slot needs `PidsUnique` and
  what is known of the child between `waitpid` and the body (`ReapedChild`, `StopsCurrent`).
  `CrashOnlyIfDropped` needs `ChildrenTracked`. The proof first states, for each variable, which
  steps write it (`TableWriters`, ...), and then treats only those steps. For a user who never
  types `fg`, `ForegroundInv` is inductive relative to `ShellInv`; `AtMostOneFg`,
  `PromptMeansNoFg` and the refinement of `JobControl` follow. With `fg` they are false.
  `KeysSpareBackground` holds for `bg` and `fg` too: while a handler is between its look and its kill,
  main cannot run, so the job it aims at can only stop or end (`AimInv`). For a user who types
  neither, `StatesTrue` follows from `ShownInv`: what `waitpid` would find has been announced or the
  handler is still in its loop (`Notified`), a stop not yet in the table is unreported or in the
  handler's hands (`StopsShown`), and a child without a slot never gets one (`DroppedApart`).
  `NoNullDeref` holds if there are no more processes than slots: the processes in the table have one
  slot each, the child just forked has none, so `addjob` finds one free and drops nobody.
* `CsimProofs`: for any geometry and trace, `TypeOK`, `BlocksUnique`, `StoreOfModifyHits` and
  `LoadedIsThere`, whether the clock wraps or not. If the accesses fit an `int`, `ClockOrders` (the
  clock is ahead of every stamp, so a new stamp is unique), and from it the refinement of `LruCache`.
  Under the same hypothesis `WiderHoldsMore`, for E and E + 1 lines. That the wider set holds what the
  narrower one does is not inductive, because their victims differ. `Inclusion` adds that a block has the
  same stamp in both, that what only the wider set holds was used before everything in the narrower
  one, and that there is such a block only when the narrower set is full: the wider set then evicts
  either a block that the narrower one has lost already, or the narrower one's victim.
* `TransProofs`: for every shape up to 256 by 256, every A and every previous content of B: no
  iteration leaves the matrices, a block that the loops have left stays in place, and the function
  returns with the transpose. The invariant says for each of the five loops which part of the
  current block is in place, which part is set aside in B, and that a multiple of the block ends
  at the edge.
* `SeqProofs`: SEQ refines the instruction set, `SeqRefinesIsa`. Its hypothesis `WellFormed` says that
  the instructions of the program name the registers that they need, which the assembler ensures
  (`get_reg`) and every menu of `Programs` satisfies; `step_state` stops at an instruction that does
  not, and `seq-full.hcl` does not look. The invariant is what a call finds: registers and memory
  with the pending writes done hold words. `Outcome` states what the pending writes amount to after
  a call; then there is a lemma for the instructions that stop, for those without and for those with
  a memory access, with a case for each of them.
* `PipeProofs`: `TypeOK`; `NoConflict`; `RedirectsAlone`, inductive with the fact that bubbles are
  nops; `CodesExact`, because the codes of an addition and a subtraction describe the exact result; and
  the refinement of the instruction set, `PipeRefinesIsa`. Its hypothesis
  `WellFormed` is that of `SeqProofs` for the pipeline: the instructions name their registers, the base
  register of a load or a store included. Without a base register the refinement is false
  (`pipe_absolute`). The invariant `IInv` says that D and E hold the instructions of the text at their
  pcs (`HeldInD`, `HeldInE`); that behind an instruction comes the one predicted to follow it, or
  nothing if it is a `ret` (`Follows`); and that the instruction in E has the operands it would find if
  those ahead of it had finished (`Operands`), which is what forwarding and the load/use stall are for.
  A cycle in which E holds a bubble, or M or W an exception, leaves the program's state alone; any
  other executes the instruction in E, with a lemma for each kind. `RedirectsAlone` tells that the
  instructions behind a mispredicted branch or a `ret` never reach E.
* `AssembleProofs`: `PassesAgree`, for every set of lines. The invariant `PassInv` says that there
  is one sequence of positions, each the one before moved by what its line says (`After`), which the
  current pass is following and along which the symbol table has been filled. It is not enough that
  the passes run the same code: pass 2 must begin with no tokens left over, in a scanner state that
  reads the same lines, which holds only as long as no error was found (`Clean`); a last line
  without a newline is what makes it delicate, because the first pass leaves its tokens behind and
  the next error check comes at the end of the file. And `Verdict`: the exit status is 0 exactly for
  a well-formed source, unless an alignment overflows. `WellFormed` speaks of positions, labels and
  lists of operands, `yas` of tokens, tables and flags; three lemmas join them. `SomeForm`: a
  statement has one of the forms of its mnemonic exactly if its tokens stand as the table of `isa.c`
  wants them. `EncodeParsed`: `get_reg`, `get_num` and `get_mem`, one after the other, report an
  error exactly if they do not, or if a label is unknown. `Reached`: the positions that `yas`
  counts, with their wraps (`Spots`), are those of the meaning up to the first line that cannot be
  printed, as long as no alignment before it overflows (`Exact`). The invariant `VerdictInv` adds to
  `PassInv` that once an error was found the source can no longer come out well formed (`Refused`:
  in pass 1 a line is `Spoilt` whatever follows, in pass 2 the source is not `Passable`, which is
  `WellFormed` with the positions that `yas` counts and the same as it when no alignment overflows,
  `PassableIs`), and that otherwise every line dealt with so far is sound, every name in the table
  is a label of the source, and the scanner is in `ERR` only behind a last line of junk (`Track`).
  And `LoadedMeansSource`, for every source and every `MEM_SIZE`, in four steps. What is encoded:
  the operands that `get_reg`, `get_num` and `get_mem` take one after the other are those of the
  meaning (`OperandsSeen`), a label among them has the position of its first definition
  (`SymbolIs`), and so the bytes of a line are those of its mnemonic, registers and number
  (`CodedLine`), of which its meaning consists (`ShapedLine`), whatever the line before left in
  `code`. What is printed: the second pass comes to each line at its position (`SecondSees`), and
  the invariant `YoInv` says that, if `yas` counts the positions of the meaning, the output has one
  line for each source line with tokens, in order, with its position and its bytes (`Listed`). As
  `print_code` ends the process beyond four digits, the positions of an accepted source are below
  16^4 (`LaidOut`, which is also where `NoNegativePosition` is needed), the printed address is the
  real one, and a number or a label fits an `int`. What is stored: `LoadInv` says that each byte of
  the memory is that of the last line read that covers it (`Fill`), and that the file was rejected
  only for having no bytes or one out of bounds (`LoadedWhen`). What is read back: the bytes of a
  number, the least first, make that number again, sign included (`HeldIs`), and those of an
  instruction its parts (`FetchIs`), so that a statement no later one overlaps is in memory as it
  was meant (`InMemory`, `LoadedThen`).
* `BtestProofs`: `CreditEarned`, for words and floats of any width, any puzzles in any order, students,
  options and draws. `gen_vals` never gives an empty list (`GeneratedFilled`), so that the loops run.
  `LoopInv` says that while `test_function` is active the function has been right on every triple of
  indices before the one the loops are at; `Advances` says that an iteration goes to the next triple of
  that order and skips none. `NoWrongCharge` holds if the puzzles agree with their references
  wherever they are called (`PuzzleAgrees`, which is a question about `bits.c` and not about `btest`,
  and which `PuzzlesRight` settles for eight bits); `ChargeInv` counts a test that has been charged and is not in
  the score yet.

Model-checked only:

* liveness (`ZombiesReaped`, `WakesOnSignal`, `Graded`, `Retires`, `RunEnds`), which is out of the prover's
  reach;
* `MissesAsReported`, which is one computation of 1993 misses and less, not a statement about all values of
  constants; `Verdict` and `GeneratedMeansHcl` of the translator, whose grammar and values are
  recursive operators; `PuzzlesRight`, which is about bits and carries of words that the provers do not
  know.

## 12. Not modelled

The components with status `not_modelled` in `PROJECT.json`, each with its reason there: SEQ+ and the
handouts of the processor laboratory, the Y86 programs and test scripts, the drivers, `dlc`, and the two
laboratories that are binaries. Within the modelled parts: how scanners match characters and how
reports are worded, the parsing of command lines and traces, graphical displays and logs, object
files of the processors, and what sections 3 to 8 name as abstracted.

## 13. Plan

1. `Seq` with its limit on instructions and the comparison at its end; SEQ+ as a second
   specification with `Seq`'s as its abstraction.

Runs answer one question each and are few; what a later module asks joins an existing run where it
shares the instance (`Seq` and `Pipe` share `Programs`).
