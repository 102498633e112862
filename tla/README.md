# Formal models of nash

TLA+ models of the nash shell (`src/`), the properties TLC checks of them and
the theorems TLAPS proves. `PROJECT.json` lists the components, the runs, the
mutants, the theorems, and for each definition the source lines it models.

    cd tla
    tlc -workers 2 -config MCPipe_safety.cfg MCPipe
    tlapm PipeProofs.tla      # and every other module named ...Proofs

## The system

nash is an interpreter with an interactive front end. A script is lexed by a
goroutine, parsed into a tree, and walked by one thread; external commands are
processes, functions bound to command names and builtins run in goroutines of
the shell, and a signal goroutine watches SIGINT.

| Part | State | Operations | Interacts with |
| --- | --- | --- | --- |
| pipelines: `executePipe`, `Cmd`, `UserFn`, `builtinFn` | runners, pipe ends, files to close, status codes | create, wire, redirect, start, wait, report | processes and goroutines through pipes |
| tree walker: `executeTree`, `executeFor`, `executeFnInv`, `setupSignals` | call stack, `looping` per shell, `interrupted` of the root shell | execute a node, iterate, call, return, import | SIGINT goroutine, through the mutex all shells share |
| rfork: `executeRfork`, `serveConn`, `startNashd` | socket, statement in flight, child process | dial with retries, send, receive, quit, wait | a second nash over a unix stream socket |
| interactive loop: `docli` | pending lines, `unfinished`, prompt, hooks | read a line, parse, execute, call hooks | line editor, parser, shell |
| variables and environment: `Shell.Getvar/Setvar/Newvar/Setenv`, `UserFn.SetArgs` | maps per shell, chain of parents, environment of the root | declare, assign, export | every statement |
| lists and objects: `sh/obj.go`, `builtin/append.go` | slices shared between values | index, append, iterate | variables |
| command and redirections: `executeCommand`, `buildRedirect`, `execCmdOutput` | streams of one runner, output buffer | redirect, capture | processes |
| lexer and parser | token channel, open blocks | emit, next, peek, parse | each other, through an unbuffered channel |
| line editor: `Terminal`, `Operation`, `RuneBuffer`, `opVim`, `opHistory`, `opCompleter` | rune buffer and cursor, history list and file, completion menu, two goroutines | one per key | each other, through channels; the history file |
| remote terminal: `RemoteSvr`, `RemoteCli` | data buffer, reply channels | read, write, close | a socket; nothing in the repository starts it |
| syntax tree and formatter: `ast`, `nashfmt` | the file that is formatted | parse, print, write back | the parser |
| flags, installation, `stdbin` | none that lasts | | |

What makes each part hard, and what makes it correct:

* **pipelines** - every phase can fail after earlier ones have opened files,
  made pipes and started processes; components run while the shell waits. The
  verdict must follow from what the components did, nothing may be leaked, and
  the shell must not wait for what waits for it.
* **tree walker** - errors, returns, ignored errors and interrupts travel as Go
  errors with a marker through frames that pass on, take or wrap them, while the
  signal goroutine changes flags in between. No marker may leave a script, a
  failure must unwind, one SIGINT must stop at most one loop and the flags must
  not outlive the loop.
* **rfork** - a protocol without message boundaries between two processes, each
  of which may die. The block must be executed whole, in order, up to the first
  failure, and the statement must end with the child, or leave a child that ends
  by itself.
* **interactive loop** - blocks, syntax errors, interrupts and mode commands in
  any order. What waits in the buffer must be an unfinished program, and the
  hooks, each looked up when its turn comes, must take turns.
* **variables** - an assignment finds the nearest shell that has the name,
  closures keep their parent, `setenv` writes the root; several names are set
  one by one.
* **lists** - assignment shares the slice, `append` may share the array.
* **lexer and parser** - two goroutines, one counter of open blocks and one flag
  for pipes shared by mutually recursive functions; a program must be called
  unfinished only if more lines can finish it.
* **line editor** - cursor arithmetic at the ends of the line, a history of
  bounded size with a cursor into it, and a handshake of two goroutines in which
  one forgotten kick hangs the prompt.
* **capture** - what commands write is copied to one buffer by goroutines, and
  read when the statement returns.
* **formatter** - it prints a tree that has lost the spaces and most positions,
  and writes the result over the only copy of the program.
* **remote terminal** - a reader that checks the buffer and then waits, a
  terminal that is raw while the connection can break.

## Modules

| Module | Models |
| --- | --- |
| `Pipe` | one `executePipe` and its components |
| `Capture` | the assignment of the output of a pipe: redirections, buffers, the goroutines that copy; extends `Pipe` |
| `Loops` | the tree walker, loops, calls and the SIGINT handler |
| `RemoteBlock` | what an rfork statement promises |
| `Rfork` | `executeRfork` and the child that serves it; implements `RemoteBlock` |
| `Values` | strings, lists and functions as values; `append` |
| `Scopes` | shells, variables, exports, calls and their results; extends `Values` |
| `Lexer` | the goroutine of the lexer |
| `Parser` | the parser, composed with `Lexer` over the token channel |
| `Reader` | lexer and parser as functions from a text to its tree |
| `Printer` | the text of a tree; extends `Reader` |
| `Nashfmt` | the formatter, run on one file again and again; extends `Printer` |
| `Repl` | `docli` |
| `RuneBuffer` | the operations on the line under edit |
| `LineEditor` | `Terminal`, `Operation` and the shell that reads lines; extends `RuneBuffer` |
| `Recall` | what a history promises |
| `History` | `opHistory`, its file and its use by `Operation`; implements `Recall` |
| `Remote` | `RemoteSvr`, `RemoteCli`, and the shell between them |
| `PipeProofs`, `LoopsProofs`, `RforkProofs`, `LineEditorProofs`, `HistoryProofs`, `RemoteProofs`, `ParserProofs` | the theorems about the module of that name; those about `Capture` are in `PipeProofs` |
| `ShellProofs` | the theorems about `Repl` and about `Scopes` with `Values` |
| `MCPipe`, `MCCapture`, `MCLoops`, `MCRfork`, `MCScopes`, `MCParser`, `MCNashfmt`, `MCRepl`, `MCLineEditor`, `MCHistory`, `MCRemote` | instances for TLC |

Definitions named in a comment as a mutant are faulty variants of the definition
after them. They are in no specification; they show that the properties can be
violated by a plausible mistake in the code.

### Pipe

`pc` is the loop of `executePipe` the shell is in and `i` its index. `cods`,
`igns`, `errIndex` are the variables of the code; `toClose` is
`closeAfterWait`. Each iteration of a loop is one action and each error path
another; `goto pipeError` is the operator `PipeError`, which returns at once, as
the code does. `kind` says which runner is behind a component, because they
differ: the child of a `Cmd` owns the write end of its pipe, a `UserFn` writes
through the shell's own and `Wait` closes it, a builtin has no pipe, and only a
`Cmd` reads the pipe it is given (`UserFn.SetStdin` does not reach the subshell).
`readEnds` and `writeEnds` are what the shell holds. The kernel (a pipe of `Cap`
chunks, SIGPIPE, end of file) and the garbage collector, which closes what an
error path forgets, are external actions. A pipe with fewer than two commands is
refused before anything is created (shell.go:1049) and is not modelled.

### Capture

`execCmdOutput` gives the shell a buffer for its stdout, and one for its stderr
when three names are assigned, runs the pipe, and reads the buffers (`Take`).
`dest` is the stdout and stderr of each runner: those of the shell, the pipe, or
elsewhere. `Create` applies the redirections of a component with
`CreateCommand` of `Pipe`, `Wire` then takes its stdout away again (shell.go:1134),
`RedirectLast` sets those of the last one, and `Wait` adds to `WaitCommand` that
the goroutines have copied everything, as `exec.Cmd.Wait` does. A chunk passes
from the component to a pipe of the kernel (`pend`), and from there to the buffer
by a write of two steps (`CopyBegins`, `CopyEnds`): two goroutines that write at
the same time lose a chunk, which is how the race on `bytes.Buffer` is modelled.
Every action of `Pipe` is an action here or part of one.

A bound function is built while the buffers are in place, and its subshell takes
the streams its parent has then (fncall.go:46). The parent is the shell that
declared it: when that is the capturing shell, the function writes to the
buffers, otherwise to the streams of another shell (`StreamsOf`). A redirection
reaches the `UserFn` and not its subshell, so it changes nothing (`SetRedirects`);
the pipe does reach it (`Wire`). The body of a function writes to a buffer itself,
or waits for commands that do, so nothing is left to copy when it ends (`Ends`),
and it counts as one writer. The runs have at most `MaxFns` functions.

### Loops

The Go call stack is a sequence of frames; `val` is the error a callee returns.
A statement is chosen when it is reached, so every script of the given size is
covered. `executeFor` and `executeInfLoop` are a frame with a phase: evaluating
its list by a call, iterating, or in the deferred function that resets
`looping`. A function body runs in a subshell one level deeper with a `looping`
of its own; the handler looks at that of level 0, as the code does.
`interrupted` is a single variable because `setIntr` and `getIntr` go to the
root. Everything under the mutex is one action. Statements without control flow
are the one action `Simple`. A bound function is called by `executeFnInv` or as a
command, with a minus or without (`CallKinds`); what the frame does with the
result follows from which it is, and a minus turns every failure of the body into
an ignored one, as shell.go:1505 does. `FailureUnwinds` therefore says where a
failure may stop, the minus of a bound function included; README.md:197 says
otherwise (see below). Bound functions in a pipeline, which run
concurrently, are in `Pipe` and not here.

### Rfork and RemoteBlock

The stream is a sequence of units: a statement is a run of units equal to its
index, quit is one unit, and the child reads at most `Buf` of them, as
`serveConn` reads at most 1024 bytes. What the child reads is executed as it is.
The shell's read takes all answers there are for one number. The goroutines that
copy stdout and stderr are the guard of `Drain`. `Crash` is the death of the
child or an `exit` in the block, `ShellDies` that of the shell. `DialFails`
after the last retry ends in `panicked`: `dialRc` returns no connection and the
deferred `Close` is a call on nil. The flags, the socket's name and the text of
answers other than 0 and 1 are abstracted, and processes of the block that
outlive the child are not modelled.

The parser accepts an rfork without a block (parse.go:961), and `executeRfork`
refuses it when the child is started and connected (rfork_linux.go:165). `NoBlock`
is that return: the child is neither told to quit nor waited for. It has been sent
nothing, and ends when it sees the end of the connection, which the deferred
`Close` has closed (`Closed`). `NoChildLeftBehind` therefore says that this is the
only child a statement that returned leaves, and that it has nothing to execute;
`RforkEnds` says that it ends.

`RemoteBlock` has the statements executed, whether the last failed, and the
outcome. `Rfork!Promise` maps `done` to the length of the child's log, `failed`
to the status of its last entry and `outcome` to what `executeRfork` returned.

### Values and Scopes

`shells` is the sequence of all shells ever made, with their parents and
variables; the index of a parent is smaller than that of its child, as with
`NewSubShell`. `stack` is the calls that run: the shell of each, and what
becomes of its results. A list is a Go slice, a length and a reference to an
array in `heap`, which assignments share; `AppendList` is Go's `append` with its
rule for the capacity (exact for the short lists of the runs). `Strings` are the
strings of the programs and those that commands write.

Statements are chosen when they are reached. `VarAssign`, `Assign` and
`SetenvAssign` are the three forms of an assignment of values, one name after
the other up to the first that fails; `CmdAssign` is the one of the output of a
command, `Call` and `Return` a call and the assignment of its results,
`AppendCall` that of the builtin. A statement that fails ends all the calls
around it and keeps what it did before. All the loops over names (`setvars`,
`newvars`, those of the assignments and of `executeSetenvExec`) are `InTurn`, and
`SetOne` says what each does with a name; `Give` is what becomes of results. The
rows of names and expressions have any length, but the output of a command goes to
at most two names here: what a third one gets is in `Capture`. A function has one
parameter, variadic or not.
Lists hold strings only. A statement that would put a list in a list is no step
(`NotModelled`). Functions that run at the same time in a pipe are not modelled.

### Lexer and Parser

The input is not given: the lexer chooses what comes next when it reads on, so
every input of `MaxTokens` tokens and newlines is covered. A token is its type.
What the lexer does between two tokens is invisible to the parser and is one
step with the next hand-over over the unbuffered channel. `addSemicolon` and
`openParens` are the fields of the code. A word may or may not ask for a
semicolon, by its first rune, and how it ends the input matters (`last`).

The Go call stack of the parser is a sequence of items: a place in a parse
function and what that function was told (`exprConfig`, multi-line or not, names
that still lack a value). `Rules` gives for the running item what the code does
with each token: take it or look at it, which items follow, what happens to
`openblocks` and `insidePipe`, and whether the program is unfinished. A token
without a rule is a parse error; a token the lexer does not know is a panic that
`Parse` recovers. The tree is not built. Lookahead that the code reads before it
needs it, and whose token it then reads again, is not a step of its own.

### Reader, Printer and Nashfmt

`Reader` is the result that `Parser` leaves out. A text is a sequence of lexemes
and newlines; `Lex` adds the semicolons and counts lines, and each `Parse...` is
the parse function of that name: it maps a place in the tokens to a set with a
node and the next place, or to the empty set if the code refuses the text. Nodes
have the fields of `ast/node.go`. The only position kept is the line of a
statement, which `BlockNode.String` asks for. Word and number lexemes are glued
by a `+`, as the lexer glues them. The flag `insidePipe` ends with its pipe here:
the one text for which it does not (`a |;`) is a matter of `Parser`.

`Printer` has the `String` methods, as functions back to texts. Spaces and tabs
are not modelled, except that `Glue` joins what the code prints without a space
and the lexer would read as one word. A length is counted in lexemes, with
`Width` for the 50 bytes. `AddEOL` decides about the empty lines of a block.
A quoted string is a few characters: the escapes are undone by `lexQuote` of
`Reader` and put back by `stringify` of `Printer`. One control character stands
for those that are read back (tab, newline), the carriage return for the one
that is not.

`Nashfmt` reads the file, parses, prints, and may write it back (`-w`); the next
run starts from what is written. `Lost` names the constructs that are known to be
printed as something else (listed below); the properties speak of all others.

### Repl

A line is statement, opening or closing of a block, something that cannot be
parsed, or a command of the loop. `Parse` abstracts what `parseBlock` says:
error, unfinished or a program. `Interrupt` is `ErrInterrupt`, `EndOfInput` is
`io.EOF`. `hooks` is the set of the hooks that are functions of the shell: each is
looked up when its turn comes (`Calls`, cli.go:149 and 224), and a program, a hook
or the completion (`Complete`, which runs a function of the user) may leave any
set of them. With only one defined that one is called twice in a row, so
`HooksAlternate` speaks of what came in between: `missed` remembers a turn of a
hook that was no function.

### RuneBuffer and LineEditor

A line is its runes and the cursor; a rune is of a word or between words, which
is all the code tells apart. Each operator is a method of `RuneBuffer`. Words
are found by the sets of their first and last indices instead of by loops.

`LineEditor` has three goroutines. `tpc`, `key`, `expect`, `pause` are
`Terminal.ioloop`; `opc`, `cmd`, `msg`, `mode` are `Operation.ioloop` with the
vi mode; `cpc` is the shell that calls `Readline`, runs what it gets and closes.
Handing a key over is a step of both (`Take`). `StopKeys` are the keys after
which the terminal waits for a kick, and each action of `Operation` says whether
it kicks. `kicked` is the channel with room for one kick, so a second kick is
lost, as with the `select` of the code. `Press` is the arrival of a key,
`CompleterReturns` the end of the completer with what its candidate does to the
line. Up and Down put any text in the line, since `History` is the module that
knows which. `Panic` is an index outside of the line, which ends the process.

### Remote

`cli` and `copier` are `ServeBy` and its goroutine, `readLoop` and `writeLoop`
those of `RemoteSvr`, `reader` the goroutine in `RemoteSvr.Read` step by step,
`wpc` the goroutines in `Write` or `writeMsg`. The unbuffered channels are steps
of both sides; the signal of `readLoop` is the step `SvrWake`, which does nothing
unless the reader waits at that moment, as the `select` with a `default`. Between
the look at `eof` (`CheckEOF`) and the receive (`WaitForSignal`) there is a state of
its own, in which a signal, also that of the end of the input, is lost. A
connection is two sequences of messages. It may break at any time, a side that
writes to a closed peer may or may not get an error, and a server that closes
with messages unread may take back what it has sent. The shell is the caller
(`operation.go`, `Runes`): raw, a line with its echo, no longer raw, output.
`saved` is `RawMode.state`. Widths, the version check and `funcWidthChan` are
abstracted to a message that wakes nobody.

### Recall and History

`h` is the list of `opHistory` with `current` as an index, `file` the lines of
the file and what follows its last newline. The version of an item is
abstracted to whether it is the present one (`live`), which is all that
`showItem` asks. `Begin` reads the file and rewrites it at the limit, without
newlines, as `rewriteLocked` does; `Submit` is the delivery of a line with `New`
and `Update`; `Leave` is the end of a session, also by a crash at that point.
The mode is fixed for a session.

`Recall` has the lines that can be recalled. `History!Promise` maps them to the
sources of all items but the last, which is the line under edit. It holds of
sessions in emacs mode: in vi's normal mode the loop skips `Update`, so the item
does not follow the line.

## Runs

Passing:

| Run | Bounds | Shows |
| --- | --- | --- |
| `pipe_safety` | 3 components of every kind, pipes of 1 chunk, at most 1 chunk of output each, results 0, 1 or without status | the verdict is right, files are closed on every way out |
| `pipe_live` | `Capture` with 3 components, one of them perhaps a function, of this shell or another; 1 chunk of output each or 2 each, 1 redirection, 1 writer to a captured stderr, readers that read to end of file | the statement returns, no output stays in a pipe, the names get all that was written |
| `loops_safety` | 2 scripts, 1 level of functions, 7 frames, blocks of 1 statement, 1 iteration (or infinitely many), 2 SIGINTs | no marker leaves a script, `looping` implies a loop, a SIGINT interrupts at most one loop, failures and returns fly to the frame that takes them and execute nothing on the way, a raised flag is seen |
| `rfork_fits` | no block, or 3 statements of 1 or 2 units; buffer of 2 units, 3 retries | whole statements, no child left behind but that of a statement without a block, implements `RemoteBlock`, ends |
| `scopes_safety` | 5 statements, 2 names, 2 calls, assignments of one or two names and of elements | exports are what their shell sees, a call disturbs nothing of its caller, results arrive |
| `parser_safety` | 8 tokens and newlines | blocks are counted, unfinished programs can be finished, every parse ends, and the lexer with it |
| `format_safety` | 70 statements, each alone, before and behind 9 others and in 5 blocks; lines of 6 lexemes; 3 runs | a formatted file holds the same program, and two runs are enough |
| `repl_safety` | 8 lines | only unfinished programs wait, hooks alternate unless one has missed its turn |
| `editor_safety` | every key but Ctrl-T, lines of 3 runes | the cursor stays in the line, the terminal stops when the shell or the completer needs stdin, emacs mode never hangs, Enter and Close end `Readline` |
| `history_safety` | 2 texts, limit 3, 4 lines submitted over any number of sessions | the line is the current item, the file ends in the lines of the list, implements `Recall` |
| `remote_live` | 2 bytes typed, 5 messages of the server, 1 change of the width | bytes arrive once and in order, the terminal is given back, what is on its way wakes a reader that waits |

Three components give a first, a middle and a last one, which the code treats
differently; a chunk more than a pipe holds is what makes a writer block. One
redirection is enough to send a second component to the buffer of the last, and
the single writer to stderr is one more than the buffer of stderr needs to be
used. With one function there is one writer that does not copy beside the commands
that do. That all components write equally much leaves both cases of each of them
in: a chunk that fits and one that does not. Seven
frames hold a loop in a loop that calls a function with a loop. Two units are
the smallest buffer that tells a full read from a short one, three statements
have a first, a middle and a last. Five statements declare a function, call it,
assign in it, return and use the result; two calls nest, or use a closure whose
call has returned. Eight tokens hold an `if` with an `else` and its block, or a
call or a list in a block; the stack of the parser stays finite, so most longer
inputs go through the same states. Six lexemes are fewer than the longer commands
and lists of `MCTexts` have and more than the shorter ones, so each is printed on
one line and on several; at most two bare words are glued. Two bytes are the least
for a signal to be late, and five messages are a prompt, an echo and the output of
a command, and the next prompt. Eight lines hold a block in a block with an
error in it and a program after it. Three runes hold a word, a break and a word.
With four lines submitted the limit of three is passed within a session and at
the start of the next. `CHECK_DEADLOCK FALSE` is in every configuration but
`format_safety` because these systems end, or may be left waiting for a user or
for a connection; the liveness properties check what must not stop.

Violation, a statement of the repository that the code does not keep:

| Run | Statement | Behaviour |
| --- | --- | --- |
| `scopes_append` | reference.md:245, append appends one element to the end of a list | two appends to one list share its last cell: the second changes what the first returned |

Seen while modelling, without a run of their own.

Pipelines and the tree walker:

* the shell stops waiting at the first failure, and the codes after it stay 0
  (shell.go:1033);
* the failure of a component with a minus hides that of another (README.md:44);
* the shell keeps the read end of a pipe while it waits for the writer, so
  `yes | head` never ends (README.md:106); `pipe_live` therefore has readers
  that read to the end;
* the code of a failed bound function stays 0 (`getErrStatus` knows
  `*exec.ExitError` only); bound functions ignore redirections;
* a minus before the name of a bound function bypasses a failure in its body, an
  interrupt of it, and an unbound variable among the arguments (shell.go:1480,
  1505), where README.md:197 says: "The dash '-' works only for operating system
  commands, other kind of errors are impossible to bypass." The model has what the
  code does, and `FailureUnwinds` allows it;
* a nested loop resets `looping` when it ends and the outer one cannot be
  interrupted any more (shell.go:558); a signal during a loop of a function is
  lost, since the handler reads the flag of the root (shell.go:526);
  `interrupted` can survive the loop it was meant for (shell_test.go:1811).

Redirections and capture:

* two components that write to the captured stdout (the last one, and one before
  it with `>[2=1]`) have two goroutines that write to one `bytes.Buffer` without a
  lock (shell.go:1948): output is lost;
* the stdout of a component that is not the last is set to nil and then to the
  pipe, so its `> file` creates an empty file (shell.go:1134), and its `>[2=1]`,
  applied before, goes to the stdout of the shell and not into the pipe;
* the output of a bound function is captured when the capturing shell declared it,
  and goes to the streams of another shell when that one did (fncall.go:46).

Variables:

* `setenv x <= f()` for an `x` that is not local is an internal error
  (shell.go:1869);
* `x, y = $y, $x` does not swap; a negative index in a variable panics; a list
  that contains itself recurses without end when it is printed.

rfork: a statement longer than the 1024 bytes of the buffer is executed in pieces
(rpc.go:17; README.md:328 says that the commands of the block are executed), which
is why `rfork_fits` has statements that fit; and it can hang, when quit is read
together with the rest of it. An rfork without a block is refused only after its
child was started and connected; the child is left to end by itself.

Formatter, the constructs that `Lost` names:

* from the third value of an assignment on, commas come twice (node_fmt.go:179);
* a function without a name is printed without its `(` (node_fmt.go:573);
* a list passed on with `...` loses the dots;
* a redirection of a descriptor to itself loses its descriptors or disappears
  (node_fmt.go:468);
* a bare word or number before a `+` is printed without the space that kept them
  apart, and the lexer reads one word;
* a carriage return in a quoted string is printed as `\r` (node_fmt.go:695), which
  `lexQuote` does not know and drops (lex.go:475): the next reading has lost it.

And beside them: the line of a statement behind a comment can move when a command
is broken into lines, so that the first run adds an empty line that the second
would not (two runs settle it); declarations with `var` have no position
(node.go:1158); a crash in `WriteFile` leaves a truncated program (main.go:78).

Lexer and parser:

* `a |;` is a pipe of one command for the parser (spec.ebnf:22 asks for two), and
  `insidePipe` stays set, so that a later `b | c` in the block is read as
  statements of its own;
* tokens that can start no argument are skipped in calls: `f(=)`, `f({)`;
* `{ (echo a }` is accepted with its parenthesis open, and newlines give no
  semicolons from there on;
* a comma after the last parameter is refused (spec.ebnf:52);
* a command that starts with a digit and is alone on its line gets no semicolon;
* a comment behind a command is an error;
* the goroutine of the lexer stays blocked after a parse error;
* a call split over lines works in a file and not at the prompt, where it is an
  error and not an unfinished program.

History: at the limit the file is rewritten with the lines one behind the other
and no newline between them (history.go:120), although readline.go:33 promises
that histories are persisted; `FileFollowsList` therefore speaks of a file without
joined lines.

Remote terminal:

* the signal for data that `Read` has already taken can come late and wake the
  next `Read`: the buffer is empty, `Read` returns `io.EOF`, and the session ends;
* data or the end of the input that arrives between the look at `eof` and the
  receive wakes nobody until more arrives, which for an end is never
  (remote.go:132, 138; `InFlightWakes` speaks of what is still on its way), and `io.EOF` is returned
  with data in the buffer when both arrive there;
* the end of the connection neither sets `eof` nor wakes the reader: the shell
  waits forever, and `Write` after `Close` blocks forever;
* `RawMode.Enter` twice in a row keeps the raw state as the one to go back to
  (utils.go:241).

Interactive:

* the hook before the prompt is not called after a syntax error in a block
  (interactive.md:100); with one hook defined it is called twice in a row;
  `set mode vim` is refused, the loop knows `vi`
  (interactive.md:18, cli.go:174); Ctrl-C does not send `io.EOF`
  (interactive.md:28, cli.go:160);
* Ctrl-W behind the first word erases what follows the cursor too
  (interactive.md:42); Ctrl-T behind a line of one rune leaves the cursor
  outside, which is why `editor_safety` leaves that key out;
* in vi's normal mode Ctrl-J, Ctrl-D and Tab stop the terminal and nobody kicks
  it: the prompt hangs; `r` behind the line and `e` on its last rune panic;
* with a terminal of width 0 a Tab leaves the terminal paused (`NoWidth`);
* an offset of the completer beyond the start of the line panics; the menu of
  candidates never opens, since the completer of nash gives at most one.

## Fairness

* `Capture`: the shell, each component and the goroutines of `os/exec` are
  scheduled (weak fairness of their steps), and a component with nothing left to
  do ends. Nothing is assumed of the garbage collector, nor that a component
  writes to stderr.
* `Remote`: the loops of both sides run, and the two ends set up the connection.
  Nobody has to type, to call `Read` or `Write`, or to leave.
* `Loops`: the walker and the signal goroutine are scheduled. A statement is one
  step, so commands are assumed to end. No signal has to arrive.
* `Rfork`: both processes are scheduled and statements of the block end. Neither
  has to crash.
* `Parser`: while one of the two goroutines can go on, one does. The input is
  finite, so this is enough for both.
* `LineEditor`: the goroutines are scheduled, the function of the completer ends
  and the shell closes what it opened. Nothing is asked of the user: no key has
  to come.
* `Pipe`, `Repl`, `History`, `Scopes`, `Nashfmt`: none; the user may stop typing, and a program may
  stop anywhere.

## Proofs

Each theorem holds for every value of the constants that the `ASSUME` of its
module allows: the bounds of the runs are gone. A theorem about `Spec` also holds
of the specifications with fairness, which are `Spec` with a further conjunct
(`CaptureFairSpec` is `CaptureSpec` with one).

| Module | Theorems, and the property of a run that each states |
| --- | --- |
| `PipeProofs` | `TypeCorrect` (`TypeOK`), `SuccessTheorem` (`SuccessIsComplete`), `BlameTheorem` (`BlamesFirstFailure`), `FileTheorem` (`NoFileLeak`), `CodeTheorem`, `OrderTheorem`; of `Capture`: `SuccessLosesNothing` (`NothingLost`), `OutputIsWhole` (`CaptureIsWhole`) |
| `LoopsProofs` | `WalkerTypeCorrect` (`TypeOK`), `MarkersStayInside` (`NoMarkerEscapes`), `LoopingIsReset` (`LoopingHasALoop`), `SignalsAreNotReused` (`OneLoopPerSignal`), `NothingRunsWhileUnwinding` (`FailureUnwinds`) |
| `RforkProofs` | `RforkTypeCorrect` (`TypeOK`), `NoOrphan` (`NoChildLeftBehind`), `WholeStatements` (`ExecutesWholeStatements`), `KeepsPromise` (`ImplementsRemoteBlock`) |
| `ShellProofs` | of `Repl`: `LinesWaitInABlock` (`PendingIsUnfinished`), `HooksTakeTurns` (`HooksAlternate`); of `Scopes`: `ReferencesAreSound` (`TypeOK`), `CallersAreSafe` (`CallerIsPrivate`), `SetenvExportsTheVariable` (`ExportsWhatItSees`), `CallersGetResults` (`ResultsReachCaller`) |
| `LineEditorProofs` | `StdinIsNotShared` (`StdinIsLent`), `EmacsGoesOn` (`EmacsNeverStuck`), `CursorInLine` (`TypeOK`) |
| `HistoryProofs` | `HistoryTypeCorrect` (`TypeOK`), `LineIsShown` (`LineIsCurrentItem`), `FileKeepsLines` (`FileFollowsList`), `SessionRecalls` (`ImplementsRecall`) |
| `RemoteProofs` | `TypedStreamArrives` (`StreamArrives`), `TerminalIsGivenBack` (`TerminalGivenBack`) |
| `ParserProofs` | `BlocksAreCounted` (`OpenblocksIsDepth`), `UnfinishedCanEnd` (`UnfinishedIsOpen`) |

Three theorems have a hypothesis; each excludes a behaviour that the code is
known to have (see the list above), and the runs make the same choice:

* `Fits` (`MaxSize <= Buf`) in `WholeStatements` and `KeepsPromise`: a statement
  longer than the buffer of the child is executed in pieces;
* `~NoWidth` in `EmacsGoesOn`: with a terminal of width 0 a Tab is not answered;
* `"CtrlT" \notin Keys` in `CursorInLine`: Ctrl-T can leave the cursor outside.

Hardly any of the properties is inductive. What each invariant adds to them:

* **Pipe** - the properties speak of the moment of return, or of processes,
  while the code works with `pc` and `i`. `PlumbingInv` says which components
  are piped in each phase, `LifeInv` which of them run, ended or were reaped given
  `pc` and `i`, `RecordInv` which codes are recorded, `EndsInv` which pipe ends and
  files the shell holds, `VerdictInv` what is known once it returned.
* **Capture** - its steps are steps of `Pipe` or leave the variables of `Pipe`
  alone (`CaptureIsPipe`), so the invariant of `Pipe` is there already. Functions
  are among the writers `OutputIsWhole` speaks of.
  `HoldsInv` and `DrainInv` say who can still write to a pipe: a reader that ended
  at end of file has left it empty, and nobody writes to it again. `CopyInv` and
  `SingleInv` say where each chunk is on its way to a buffer with one writer.
* **Loops** - `FrameInv` says which frame may be above which, that a frame that
  waits for a callee has a statement left, and which values can come back to it.
  That is what makes `NoMarkerEscapes` inductive: a marker above a frame that does
  not take it is always below one that does. `NothingRunsWhileUnwinding` goes
  through the frames a failure or a return can be above: each is left, or takes it,
  and the innermost one that takes it stays the same.
* **Rfork** - the statement in flight is in exactly one place: in the socket, in
  the hands of the child, or in its answer (`InFlight`, `ChildInv`); `LogInv` adds
  that all but the last statement executed succeeded. With these, `Send`,
  `Receive` and the steps of the child map to steps of `RemoteBlock` or to none.
  Without a block nothing is ever sent (`EmptyBlock` and `ChildInv`), which is what
  `NoOrphan` says of the child that is left.
* **Repl** - `HookInv` says where in the loop the hook called last can be which, if
  no hook has missed its turn since.
* **Scopes** - `ScopeInv` is about the state as a record (`World`), as the operators
  are: every reference is held (`Sound`), every parent is older than its child
  (`Tree`), every call runs in a shell that is there (`StackInv`). What a statement
  does is stated relative to the world before it. R is a set of shells that has the
  parents of its shells; `Within` says that only shells of R changed, and of the
  arrays of before only those that a list in R refers to, and that R got hold of no
  other. There is one lemma for each operator, that it keeps `Good`, which is both;
  the statements are put together from these. With R all shells this is the step of
  the invariant, and with R the chains of the current shell and of the caller it is
  `CallerIsPrivate`. `Exports` says which names may differ from the old environment
  in the middle of a statement, and that the shell and the root both have what was
  exported: after a failure the root is the shell that looks.
* **LineEditor** - `ControlInv` has no line in it: when the terminal goes on by
  itself, when it is idle, and who will kick it. For `CursorInLine` there is a
  lemma for each operator of `RuneBuffer`, and one for what each command of vi
  leaves in the line.
* **History** - `ListInv` is about the list: only a list just read is over its
  limit and then the cursor is at its end (`FullInv`), the last item has no line
  yet (`OpenInv`), an older item under the cursor was updated since the last
  submission (`LiveInv`); these make the item under the cursor the line under
  edit. `FileInv` is `FileFollowsList` for a file in which the line without its
  newline counts: it is about all that a next line would complete, which is what a
  rewrite leaves. For the refinement, walking, editing and interrupting map to
  `Forget` or to a stutter, a new line to `Record`.
* **Remote** - one invariant for each direction: the data on its way to the server
  continues what has arrived without a gap (`StreamInv`), and between two `RAW`
  messages on their way to the client there is an `ERAW` (`TerminalInv`), which
  needs to know what the shell is about to send in each part of its round
  (`WriterInv`).
* **Parser** - `BlocksInv` adds to `OpenblocksIsDepth` that the block of the program
  is at the bottom of the stack: a block that ends it has no other above it.
  `UnfinishedIsOpen` joins two counters, that of the lexer and the stack of the
  parser, which sees a parenthesis one token later and takes some without owing
  one. `ParensInv` compares them: the items that owe a right parenthesis, with the
  token the parser looks at, are no more than the lexer counts, but for the left
  one an item is about to take (`Asking`), and such an item is only ever on top.
  `Sound` says what a rule may do to both counts; `AllSound` goes through the rules
  of all 58 places. A sum over the stack is not needed: `InConcat` is about the
  cardinality of the set of positions, which the library has facts about.

`NonEmpty` (the lines of a file that are read) and `FlattenSeq` (what a rewrite
writes) are recursive functions, and so are the `Chain` of a shell, `InTurn` and
`EvalAll`. The induction theorems of the library take an
operator, which the provers here cannot instantiate; `HistoryProofs` and
`ShellProofs` therefore derive `LeastNatural` from the well-foundedness of the numbers, and from it `UpTo`,
an induction over a set. With it the functions are shown to exist
(`KeptUnfolds`, `FlatUnfolds`, `ChainUnfolds`, `DoneUnfolds`, `AllUnfolds`) and to
have the facts that the invariant needs.

Only model-checked:

* the liveness properties (`CaptureReturns`, `FlagIsSeen`, `RforkEnds`, `ParseEnds`,
  `ReadlineEnds`, `InFlightWakes`): beyond the prover;
* `KeepsProgram` and `Settles`: `Reader` and `Printer` are mutually recursive
  operators, which a module with theorems cannot use.

## Not modelled

* Functions bound to commands that run at the same time in a pipe over the maps of
  their parent (shell.go:692): Go leaves the outcome of such a race open.
* A single command outside of a pipe, sockets as targets of a redirection, the
  builtins that only compute or print.
* `IsEqual` of the tree (tests only), columns of tokens, alignment of the output of
  the formatter.
* The menu and paging of the completion: the completer of nash gives at most one
  candidate, so they are never entered. `FindBck` and `FindFwd` of the history,
  which no key calls.
* The copy setenv makes for child processes, the namespace flags of rfork.
* Platform terminals, flags, installation of the library (I/O without a state of
  its own), the standard binaries, vendored code and test fixtures.
