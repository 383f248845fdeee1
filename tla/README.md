# Verification of the word game server and its client

The program is a word-guessing game: a server (`GS_src`), a command-line client
(`player_src`) and code both share (`common_src`). A player asks for a game over
UDP (`start`), tries letters and words, and quits; hint, state and score table
are fetched over TCP. This directory has TLA+ models of the parts that decide
who wins, what is stored, what is sent and what the player is told, the TLC runs
that check them, and proofs of most of what the runs check, for all values of the constants.

Everything below is about the build that the Makefile makes (`-DFOR_TEST`, `-O2`).

## 1. The system

| Part | State | Operations | Talks to |
|---|---|---|---|
| Listeners (`command_processor.c`, `proc.c`) | sockets, the shared word counter and its lock file | fork a handler for every readable socket | handlers, by `fork` |
| Handlers (`GS_src/command.c`) | the memory of one process, gone when it exits | one `command_*` each: SNG, PLG, PWG, QUT (UDP), GHL, STA, GSB (TCP) | the player's file, the score table, the client |
| Game file (`serv_game.c`) | `sv_data/DAT_<plid>`: a directory entry, an inode, its `flock` | `GameAcquire`, `StartGame`, `ExitAndSerializeGame`, `GameRelease`, `RemoveFile` | all handlers of the same player |
| Game rules (`play_impl`, `guess_impl`, `start_impl`, `quit_impl`) | `ServGame`: word, `word_state`, the tables of letters and words, `errors`, `trials`, `finished`, `last_was_incremental` | one per request | - |
| Word selection (`Dictionary.c`) | the counter in shared memory, the `flock` of `./locks` | `random_entry` | handlers that begin a game |
| Score table (`score.c`) | a file per win in `sv_data/score` | `save_score`, `count_scores`, `filter_scoreboard`, `get_scoreboard` | winning handlers, GSB handlers |
| Client session (`player_src/command.c`, `game.c`) | `g_game`: active, `cur_attempt`, the word as shown | start, play, guess, quit, exit | the server, by one datagram each way |
| File transfer (`get_file`, `tcp_sender.c`) | a file being written, the bytes still missing | hint, state, scoreboard | the server, by one TCP connection each |
| Parsing (`mem.c`, `InitDictionary`) | - | tokenise, read numbers, read the word list | both programs |
| I/O wrappers, `main.c`, input line | - | `EINTR` loops, options | both programs |

What is hard about it:

- **Interleaving.** Any number of handlers may serve the same player at once.
  `GameAcquire` looks at the path, opens it and looks at the size *before* it has
  the lock, `start_impl` unlinks by name and takes a second lock while it holds
  the first, and the lock of the word counter belongs to a file description that
  all handlers inherit.
- **Failure in the middle.** SIGINT ends a handler anywhere. The answer is sent
  before the game is written (after it, for QUT); a failing send skips the write.
- **Lost and late datagrams.** The client counts a trial before it sends it,
  never repeats a request by itself, does not compare the trial number of an
  answer and does not empty its socket after a timeout.
- **Shared directories.** The score table is a directory that every handler counts,
  prunes and reads without a lock around the whole; the line of a score is in
  the buffer of its stream when the file is already unlocked.
- **Streams in pieces.** `get_file` cannot see the end of what was sent: it
  takes a pause for it, counts, waits two seconds, and parses a header out of a
  buffer that holds the last answer.
- **Long sequences.** Repetitions, duplicates and wrong trial numbers are told
  apart by the tables, the trial counter and `last_was_incremental` together.
- **Boundaries.** `errors` against `max_errors`, `trials - errors` in `u32`,
  division by `trials`, tables of 40 slots, a table of ten scores, a buffer of
  entries whose size is guessed, a table of processes full of zombies.

`PROJECT.json` lists each hazard at its line, with the properties about it.

Each part is correct when:

- game file: what a request did to a game is never overwritten by one that did not see it,
  what a client was told is in the file when the lock is given back (unless SIGINT comes
  between the answer and the write), and no two handlers wait for each other;
- rules: trials, tables, revealed letters, errors and status tell one story
  whatever is repeated or refused, and a game that is over stays over;
- word selection: games that start one after the other get the words in turn;
- client session: client and server agree when nothing is lost, and what the
  player is told is true when something is;
- score table: it has the best ten games, each once and whole;
- file transfer: the client stores exactly what was sent, or says that it failed.

## 2. The modules

| Module | Models | Notes |
|---|---|---|
| `GameOutcome` | what one request may do to one game, seen from outside | operators only, shared by the next two; checked against the rules by `OutcomesAsAssumed` |
| `GameStore` | the handlers and one player's file, one action per system call on it | |
| `GameFile` | the promise of the game store: a request is one step | abstract specification, refined by `GameStore` |
| `GameStore_proofs`, `GameStore_refinement` | theorems about `GameStore` | section 5 |
| `GameRules` | `play_impl`, `guess_impl`, `start_impl`, `quit_impl` as functions from a game and a request to a reply and a game | operators only |
| `ServGame` | one player's game, a request per step | |
| `GameRules_proofs`, `ServGame_proofs` | lemmas about a request and a game; theorems about `ServGame` | section 5 |
| `Session` | client, datagrams and the game on the server | uses `GameRules`; its server is shown to implement `ServGame` |
| `Session_proofs` | theorems about `Session` | section 5 |
| `Scoreboard` | `save_score`, `filter_scoreboard`, `get_scoreboard`, one action per system call on the directory | |
| `Scoreboard_proofs` | theorems about `Scoreboard` | section 5 |
| `TcpFetch` | the handler that sends a file, the connection, `scoreboard_impl`, `hint_impl`, `state_impl` and `get_file` at the client | |
| `TcpFetch_proofs` | theorems about `TcpFetch` | section 5 |
| `Dictionary` | `InitDictionary`, and what a dictionary is, by lines | operators only |
| `WordPicker` | `random_entry` | a part: its actions are those of `Listener`'s handlers |
| `Listener` | `main`, the UDP listener and its handlers as processes | composes `Dictionary` and `WordPicker` |
| `Listener_proofs` | theorems about `Listener` and `WordPicker` | section 5 |
| `MC*` | constants for TLC | |

The layers fit together as follows. `GameRules` has the letters and words.
`GameStore` cannot carry them through every interleaving, so it abstracts a game
to its identity, trials and status and takes the effect of a request from the
result sets of `GameOutcome`; the run `rules` checks that every outcome of
`GameRules` is one of these. In the other direction, `AtomicRequests` shows that
handlers act on the file like requests that are served in one step, which is
what `ServGame` and the server half of `Session` do. `GameStore` lets any
number of handlers serve any requests; `Listener` is how they come into being.
`Scoreboard` is what a handler that won calls between its work and its answer,
and `TcpFetch` takes over where a handler has decided what it answers to
GSB, GHL or STA.

### GameStore

One player is enough: handlers of different players share only the word counter
(its own module) and the score table. The actions follow a handler through
`access` (`AccessFile`), `open` (`OpenFile`, `CreateFile`), `fstat` (`StatFile`,
still before the lock), `flock` (`LockFile`, `LockFails`), the command
(`StartImpl`, `PlayImpl`, `GuessImpl`, `QuitImpl`, `CheckEmpty`, `ReportImpl`,
`RemoveFile`), the write (`Serialize`), `GameRelease` (`Release`, `Abort`) and
`exit`. Between two of these anything may happen in other handlers. Everything
a command does between two system calls on the file is one action, since nobody
else can see it: the answer goes out in the same action as the work, before
`Serialize`, as in the code (for QUT after it). `send` may fail (`SendCanFail`) and SIGINT may come
anywhere (`CanInterrupt`). `found` is the `errno` that `access` leaves:
`final_num` refuses every trial number after a failed `access`, so a first PLG
to a player without a file is answered with ERR and leaves an empty file, and
the second begins a game.

Left out: failures of `fstat`, `read`, `write` and `ftruncate` on a good
descriptor, a `mkdir` that fails, and what a file truncated by a power cut holds.

### GameRules and ServGame

`word_state` is the set of positions that are shown. The tables are sequences.
Each fragment of `play_impl` and `guess_impl` that can be got wrong has an
operator of its own: the look for a repetition (`IsDuplicate`, `IsRepetition`:
for letters it looks, as the code does, into the table of words), the trial that
is taken back (`TrialsBefore`), the errors (`Missed`), the end of the game
(`Over`), the count (`Count`). The writes past the 40th slot are not modelled.

### Session

The server applies a request in one step. Datagrams are sets, so they may
overtake each other when `Late` holds; then a timeout may also come
while an answer is still on its way. Without `Late` a timeout means that the request or
its answer was lost, which is how a network that is faster than two seconds
behaves. After a timeout `command_play`, `command_guess` and `command_quit_impl`
miss the -1 of `recvfrom` (they compare with 1) and read a buffer that nothing was
received into; in the Makefile's build what lies there does not parse and the command
fails, and that is the outcome `Timeout` has. `Crash` is a client that is killed
and started again; `command_exit` is the command exit or SIGINT, between two
commands or in the middle of one, whose QUT may then overtake the datagram of
that command; `Exit` is the end of the process. Hint and scoreboard do not change the
session, and neither does state: the server answers `RST ACT` for a game that is over,
too, so that the client's branch for `RST FIN` is never taken.

### Scoreboard

Names are numbers in alphabetic order, since a name begins with the score. `files`
maps names to inodes, so that a removed file lives on for those who have it open and a
file that is saved twice is truncated. A handler's action is one system call, or
several when nobody else can tell: `readdir` and `scandir` list the directory
as it is at one moment (POSIX leaves open whether an entry that is created or removed
meanwhile is listed). `LOCK_EX` is held only around `fprintf`, which fills the
buffer; `CloseScore` is the write. `RemoveLowest` has the case that
`remove(3)` is given the path of the directory itself. A handler that
writes behind `scoreboard_list` is stopped as "undefined". SIGINT writes the
buffer, as `exit` does.

### TcpFetch

Characters are strings, and the protocol is scaled down: statuses are two or three
characters, the answer without a file three, the limit of the first read one more (as in
the code), sizes are in base 2, and `BIG_BUF_SZ` is 11. What matters is kept:
the first read may end in the status, in the name, in the size or in the
data; STA goes on at `lim` and the others at what they read; the
buffer is not cleared. One behaviour is one command, in a client whose buffer is
empty or has what any earlier answer left in it. `mishaps` records what excuses a
failure: a first read that was cut, two seconds without data, a handler that
was interrupted or killed. A killed handler leaves the connection open in the
listener (`Die` to "gone"), which is why `CHECK_DEADLOCK` is off.

### Dictionary, WordPicker and Listener

`Scan` is one round of the loop of `InitDictionary`; `IsDictionary` and `Entries` say the
same by lines. `Listener` starts with any of the texts, loads it, and from then on
datagrams arrive, the listener makes a handler whenever it sees one unread
(`Fork`), and some handler takes it (`Take`). `flock` on a descriptor inherited over
`fork` succeeds at once when the same file description already has the lock, hence
`Lock` never waits. The increment is a load and a store, and the compiler may
use for it the value it has loaded before. `munmap` on the segment ends with
the process and is left out. A process that ended stays as a zombie: the zombie hunter waits
for the children of `main`, which are the two listeners. With no process left nothing is served any more,
so deadlock is not checked.

## 3. The runs

All state spaces of passing runs are explored completely within their bounds.

| Run | Shows |
|---|---|
| `store_atomic` | three overlapping requests, failing sends, SIGINT anywhere: locking holds, no handler that read a game overwrites the outcome of another, no read finds an empty file, answer and file go together unless SIGINT comes between them, a letter or word without a file begins no game, and the whole implements `GameFile!Spec`; `IndInv`, the invariant of the proofs, holds |
| `store_live` | two overlapping requests without failures: every request ends (so there is no deadlock), and a game is scored once |
| `store_serial` | five requests one after the other, also interrupted ones: `GameFile!SerialSpec`, in which a running game is never lost |
| `store_double_start` | *violation*: with overlapping requests a running game can be lost |
| `rules` | all games about a word with a repeated letter: trials and tables, revealed letters, errors, ends, repetitions; every outcome is one that `GameStore` allows |
| `good_trials` | *violation*: the good trials of the score table wrap below zero |
| `session_lossy` | losses, exits and restarts of the client: client and server agree as long as nothing goes wrong; the client's trial number never lags and is right again after an answer to a letter; letters shown and NOK are true; a retry costs no second trial; a client that lives or exits never leaves behind a game that was played |
| `session_late` | late and reordered datagrams: the server still plays by `ServGame!Spec` |
| `session_won_word` | *violation*: the word announced to the winner |
| `scoreboard` | three overlapping calls, SIGINT anywhere: calls that do not overlap show the best scores ever saved, all of them, in order; whatever overlaps, an answer holds scores that were saved, in order and whole; an empty file is one that is being saved or whose save was interrupted; overlapping filters remove at most the excess each; every call ends |
| `listener` | every text: the scanner finds what the lines say, and the entries fit; handlers that are made too often, wait and are interrupted: calls that do not overlap pick words in turn, the counter never runs ahead of the handlers that stored it or died, every datagram is taken and no handler is left picking while there is a process left |
| `transfer` | answers cut anywhere, old text in the buffer, handlers that die: what is said to be saved is what was sent (unless the header was cut and the handler interrupted, section 6), a failure has a cause, "no file" is true, and every command ends |

Bounds, and why they are enough to reach the interesting cases:

- `GameStore`: three handlers. The races need one handler between `access` and
  `flock`, one that unlinks and one that creates. `MaxInodes` is one more than
  the handlers, so that creation is never refused: a handler
  creates at most one file, since the game in it is new and is not deleted by it. A file of an earlier
  run (`Leftover`) may be there at the start: a running game, a lost one, an
  empty one. The five requests of `store_serial` are enough to begin, move, end,
  delete and begin again.
- `ServGame`: three letters of which two are equal, two letters that miss, one
  right and one wrong word, three entries per table (letters then words then
  letters, which is what makes a repetition a duplicate), errors up to ten, beyond
  the seven allowed. `Modulus` stands for 2^32.
- `Session`: the same word, trial numbers up to four, three entries per table. A
  command is entered only when at most `FlightCap` old datagrams are under way: one in
  `session_late`, none otherwise. `session_late` has fewer trials, since old
  datagrams multiply the states.
- `Scoreboard`: a table of two, three calls, five names of which three
  may be there before. One call more than the table has room for is what overlapping
  filters need to remove too much, and an empty table is reached.
- `TcpFetch`: three files: nothing, text that looks like a header and ends as an answer does, and more
  than a block; a file at the client that is longer than one of them and shorter than another. Every cut of
  every answer occurs.
- `Listener`: all texts of up to six characters and texts of two and three lines of
  each kind, words of three or four characters; three processes
  and two datagrams in the socket, so that handlers wait, overlap and run out.

Every passing property has a mutant in `PROJECT.json`: a variant of a mapped
definition with a plausible fault (the comments call them faults), under which
the run finds the property violated.

## 4. Fairness

`store_live`: `WF_vars(Step(h))` for every handler. A step of a
handler is enabled unless it waits for a lock, and the kernel runs every runnable
process. A waiting handler needs no strong fairness in this model: the bound
makes requests finite, so the lock it waits for is free for good once its
holders have ended. Taking up a request (`Recv`) and SIGINT are not fair.

`transfer`: weak fairness of the handler (`Write`, `Finish`), the client and
`Deliver`: TCP delivers what was written on a connection that stays. Dying is not fair.

`listener`: weak fairness of the listener (`Fork`, for some process) and of every
handler (`Take`, `Pick`): runnable processes run. That datagrams arrive is not assumed.

No fairness is stated for datagrams between client and server: the client gives up after two seconds
whatever happens, and nothing promises that a datagram arrives.

## 5. The proofs

All theorems are about every value of the constants: any word and alphabet, any number of
handlers, processes, datagrams and commands, any size of the table. Each
component has one inductive invariant. Except where it is said below, the assumptions are the named
`ASSUME`s of the modules, which give the domains of the constants and which TLC evaluates in the runs.

### The game file (`GameStore_proofs`, `GameStore_refinement`)

For any leftover file, with or without failing sends and SIGINT:

| Theorem | Says |
|---|---|
| `TypeCorrect` | `TypeOK`; in particular trial counters do not fall below zero |
| `LockSafety`, `MutualExclusion` | from `flock` to `GameRelease` the lock is the handler's own; no two handlers work on one inode |
| `LockOrderSafety` | a handler only waits for an inode newer than those it holds |
| `LostUpdateSafety` | what is written back is one move away from what the file holds |
| `ReadSafety` | a handler that decided to read before it had the lock finds a game |
| `AnswerSafety` | `AnsweredIsStored`: only a request that was accepted, or a QUT, changes the file, a letter or word only one that was there before, and the lock of a request whose client was told that it is done is given back only with its outcome in the file, except by a SIGINT between the answer and the write |
| `WinsScoreOnce` | a game enters the score table once; assumes that sends do not fail and no SIGINT comes, without which it is false (section 6) |
| `Refinement` | `GameStore` implements `GameFile`: requests are atomic with respect to the player's files |

The invariants follow from `IndInvHolds`. None of them
is inductive by itself, and `IndInv` adds what they rest on:

- `LockChain`: a handler that holds a lock while it looks for another file
  (inside `start_impl`) has unlinked the path before, so the path names nothing
  or a younger inode. `LockCoversWork` needs it, because the release names only
  the newer descriptor, and `LocksInOrder` is a part of it.
- `InodesCreated`: nobody has or locks an inode before it is created. `LockChain`
  needs it: a created inode is younger than all that are held.
- `GameStays`: a file that has a game keeps one. It makes the size that was
  read before the lock good enough, and `ReadFindsGame` a part of it.
- `OneMove`: a handler about to write has made one move of what is in the file
  *now*; it is kept because only the owner of the lock writes.
- `StoredAtUnlock`: a handler on its way to `GameRelease` after SNG, PLG, PWG or a QUT that
  was accepted has in memory what is in the file.
- `DrawsDiffer`: games that have not been written yet have identities of their own,
  which is what refinement by `GameFile!Begin` needs.

`AnswerSafety` adds `AnswerInv` to it, which says for each place of a handler whom it has
answered: nobody before it has done its work, the client from then on, and for QUT only after the
write. A handler that exits with its lock has failed or had nothing to write; with
`StoredAtUnlock` this leaves SIGINT at `serialize` as the only way to lose what was answered.

`WinsScoreOnce` adds `ScoreInv` to it: a game lies in one inode only, and one that has been
scored is over, in the file or in the memory of the handler that holds its lock.

The module first proves what sets `Successors` and its parts give (a move keeps
types and identity), then initial states, then one lemma per action with a step
per conjunct that the action can disturb, and combines them. The refinement has three
steps that are not stutters: `CreateFile` is `Create` (the new inode is empty by
`InodesCreated`), `RemoveFile` is `Unlink`, and `Serialize` is `Update` or `Begin`
(by `OneMove`, `GameStays` and `DrawsDiffer`).

### The rules (`GameRules_proofs`, `ServGame_proofs`)

| Theorem | Says |
|---|---|
| `TypeCorrect`, `TrialsMatch`, `Solved`, `MissesAreErrors`, `ScoreDefined` | `TypeOK`, `TrialsMatchTables`, `SolvedByTrials`, `MissesCost`, `ScoreIsDefined` |
| `OnlyAdvances` | `GameOnlyAdvances`: only SNG undoes anything |
| `Outcomes` | `OutcomesAsAssumed`: what `GameStore` assumes of a request is so, hence its proofs are about these rules |

`GameInv` is about one game, whoever keeps it, so that `Session_proofs` uses it too. The
properties need `CountsBack` (a repetition takes a trial back only when there is
one to take back, which is what `last_was_incremental` promises) and `Scores`: a
game that was won has counted a trial for each distinct miss. The lemmas
first say what an accepted letter or word does without the order of the code (`LetterTaken`,
`WordTaken`: the table gets the entry, or has it already and the last request was
counted), and each conjunct of `GameInv` is proved from that.

### The session (`Session_proofs`)

| Theorem | Says |
|---|---|
| `TypeCorrect`, `ClientAgrees`, `NumbersCatchUp`, `NoneLeftBehind`, `PlayerToldTruth` | `TypeOK`, `InStep`, `NeverBehind`, `NoOrphan`, `ToldIsTrue` |
| `RetryIsFree` | `RetryNotCounted`: a retry of a request whose answer was lost costs no second trial |
| `PlaysByRules` | `ServerPlaysByRules`: the server implements `ServGame!Spec`, also with late datagrams |

The invariant has three layers, since each property excuses other mishaps. `Base` holds whatever
happens: types, `GameInv` of the file, which requests can be under way at all (`Requests`,
`Roles`), and that a request that timed out has a smaller trial number than the next (`Numbers`).
`PromptInv` holds while no answer has come late: only the command in progress or its
answer is under way (`Traffic`), an answer tells the game as it is (`Answers`), the server's last
reply to a trial tells whether it can be repeated (`ServedLast`, which `RetryIsFree` needs), the
client's number has passed the server's while a trial is on its way (`Ahead`). `Agreement` holds
while nothing went wrong and has one picture for before and one for after the server has worked.
`PlaysByRules` also needs `Caps`: that the requests under way cannot carry the game beyond the
bounds of `ServGame`, which only exist to keep the models finite.

### The listener and the word counter (`Listener_proofs`)

| Theorem | Says |
|---|---|
| `TypeCorrect`, `NeverRunsAhead`, `WordsInTurn` | `TypeOK`, `NeverAhead`, `InTurn` |

`NeverAhead` says that the counter is at most the number of handlers past their own store or
dead (`Past`), and that whoever has number n has it after n others of them. It does not say that
the n-th start gets one of the first n words: when calls overlap, the first may get the second word. It is not
inductive, since a handler may store what others have stored before:
`Bounded` also bounds the value that a handler is about to store, which makes room for itself. `Alone` relates the counter to the one handler that
is at work. `TextsAssumption` says that a text without an error has a word, so that `random_entry` does
not divide by zero. It follows from the scanner, but by induction over the text, so it is assumed
here; TLC evaluates it for all texts of the run. `Procs` is assumed finite: it is a table of the kernel.

### The score table (`Scoreboard_proofs`)

| Theorem | Says |
|---|---|
| `TypeCorrect`, `AnswersAreScores`, `NoStrayEmptyFile`, `PruningIsBounded` | `TypeOK`, `LinesAreScores`, `EmptyIsUnfinished`, `LossIsBounded`, whatever overlaps or is interrupted |
| `AnswersAreTheBest` | `AnswersAreBest`: calls that do not overlap answer with the best scores ever saved, all of them, in order |

`LinesAreScores` rests on `Naming`: an inode that anyone has or had open goes by one
name, so that a line read through a descriptor is the score its name says, although the file may have been
removed or saved again meanwhile. `LossIsBounded` is a matter of accounts. Every removed file is charged to one
of the places (handler, 1..excess) of the handler that removed it, which are used up from the top: there are never
more removed files than used places (`Budget`), and a handler has no more places than there were
files too many when it counted. `AnswersAreBest` has an invariant of its own, `Orderly`, on top
of `Inv`: as long as calls follow one another, only one handler is at work (`OneAtWork`), what it counted
and the lowest name it found are true of the table (`Knows`), the lines it has are
the best of the table (`Ranked`), and a score that is gone has at least `TOP_SCORE` better ones (`Outranked`). The last one
makes the ranking of the table the ranking of everything ever saved.

An inode is named by the handler that created it or by the score it was there with from the start, so
`Handlers` and `Names` are assumed disjoint. Handlers and names are finite sets.

### The fetch of files (`TcpFetch_proofs`)

| Theorem | Says |
|---|---|
| `TypeCorrect`, `SavedSent`, `FailuresHaveCauses`, `NoFileTold` | `TypeOK`, `SavedIsSent`, `FailureHasCause`, `NoFileIsTold`, for any name, any files, any size of the buffer and any cut |

`Inv` follows the answer through the connection. `OnWay(r)` says where it is when the client has read `r`
characters of it: what comes after them is ready, then on the wire, then still to be written, unless the
handler died. `At(r)` says, for each place of the client, what `r` has to do with its counts. There are two pictures
of a file that is being fetched. `Whole`: the header was read at once, so that the tokens are those that were
sent (`WholeHeader`), the block in the buffer is the part of the data behind what was saved (`Kept`), and the count
is one more than the size exactly when nothing will follow. `Partial`: the header was cut. Then the client reads
on behind what it has, in whatever an earlier answer left there; either its count does not fit, or all it read of the size is
a part of the digits (`CutHeader`), so that it waits for fewer characters than will come (`t + full + 1 < Len`). It
can then take a block for the last one only if the handler was interrupted, which is the exception of `SavedIsSent`.

Two assumptions are particular to this module, and TLC evaluates both in the run. `HeaderAssumption`: a header
fits into `big_buffer`; `get_file` relies on it ("No file metadata will take 4MiB") and does not check it.
`NumbersAssumption`: `number` reads what `printed` prints, no more from less than all of its digits, and something unsigned from
any digits. It is a fact about `%zu` and `strtoul` that holds for every number, but by induction over the digits, and
so it is assumed here. Everything else is about positions in the stream and in the buffer.

### Only checked by TLC

- Liveness (`EveryRequestEnds`, `EveryDatagramTaken`, `FetchEnds`): outside the prover's reach.
- `LoadsDictionary`: the scanner of `Dictionary` is a fold over the text, and that it finds the entries of every
  text is induction over data.
- `SerialRequests`: `GameStore` refines `GameFile!SerialSpec` when requests do not overlap. Not attempted yet.

## 6. Where the code and its texts disagree

Each is a run that expects a violation; `PROJECT.json` quotes the text.

1. A game under way can be lost when two requests overlap (`store_double_start`).
   `start_impl` unlinks by name, and the size is looked at before the lock.
2. `n_succ = trials - errors` wraps, since a repeated miss costs an error and no trial (`good_trials`).
   `ScoreIsDefined` shows that it does not when no miss was repeated.
3. A lost answer to a letter makes the client announce a wrong word when it wins (`session_won_word`).

Seen while modelling, and part of the models, but without a run of their own:

- "You are allowed to fail 9 times" (`reports/report-04.html:11`): `play_impl` ends the game at
  `errors > max_errors`, `guess_impl` at `errors == max_errors`; once letters have used up
  the failures, wrong words are answered with NOK without end (`MissesCost` says that it takes words).
- "picks the words sequentially" (`README.txt:12-13`): the lock of the word counter excludes nobody, so overlapping
  starts get the same word or skip one (`InTurn` is about those that do not overlap).
- RLG WIN, RLG OVR and RWG OVR report one trial less than they answer, against `reports/report-04.html:131`.
- A letter or a word begins a game without SNG, against "Use start PLID to start one"
  (`player_src/src/command.c:15-16`): `GameAcquire` leaves an empty file for every player it is asked about, the first
  PLG is refused, the second draws a word (`AnsweredIsStored` has the refusal).
- A NOK that arrives after the timeout is reported for the letter of the next command, also
  when that one is in the word (`ToldIsTrue` excepts late answers).
- An outcome that the client was told is lost when SIGINT ends the handler between `sendto` and
  `ExitAndSerializeGame` (`AnsweredIsStored` excepts it).
- A player without a game who is told "use quit to finish it" (`player_src/src/command.c:73`)
  is refused by `command_quit` (line 704).
- A win whose answer cannot be sent, or whose handler is interrupted, is in the score table although
  the game goes on, and can be won and scored again (`ScoredOnce` is checked without failures).
- "TOP 10 SCORES" (`GS_src/src/command.c:424`): k calls that prune the table at the same time remove
  the whole excess each, so that good scores are lost (`LossIsBounded`); when the table is
  emptied, the directory itself is removed.
- An interrupted save leaves an empty file, at which every GSB fails until
  higher scores push it out (`EmptyIsUnfinished`).
- Without a game the server answers STA with `STA NOK` (`GS_src/src/command.c:686`), the client
  expects `RST NOK` (`player_src/src/command.c:621`) and reports a failure; `NoFileIsTold` leaves STA out.
- A wrong file can be reported as saved. When the first read ends just behind the size in the header and an earlier
  answer left a NUL there (line 344), the space behind the size is counted as the first byte of the data. If
  the hint handler is then interrupted before the LF that ends an answer, and the file itself ends with LF, the
  count is right and the file is shifted by one byte and short of its end. `SavedIsSent` excepts a cut header
  together with an interrupted handler; each alone is harmless. An attempt at a proof led here.
- `get_file` opens without `O_TRUNC`: of a longer file with that name the end stays (`SavedIsSent` says so).
- A client that reads on a connection that has ended loops for ever in `tcp_sender_recv_all`
  (`player_src/src/tcp_sender.c:139`); `FetchEnds` excepts handlers that died.
- `proc_start_zombie_hunter` waits for the two listeners only; zombies of handlers stay (`Exhausted`).
- A first `exit` is ignored: `command_reader` tests for it only after a second line was read
  (`player_src/src/command_processor.c:86-116`).

## 7. Plan

Done: the game file with its proofs and its refinement, the rules, the client
session with its exit, the score table, the fetch of files, dictionary, word selection and listener;
proofs of the safety properties of each of them.
Next, in this order:

1. `SerialRequests` of `GameStore`, with a second invariant for calls that do not overlap, like `Orderly` of `Scoreboard`.
2. `Scoreboard`: an abstract table (the best scores, one step per call) that calls which do
   not overlap refine.
3. The TCP listener: descriptors it keeps after `fork`, and a full table of them.

## 8. Not modelled

- `main.c` beyond the order of start-up, option parsing and the input line: no state that another part depends on.
- The `EINTR` loops, `io.c`, `misc.c`: a call that was interrupted is made again and nothing else changes.
- The tests of a request for NULs and line feeds (`mem.c`): a request that fails them is answered
  with ERR before the handler opens a file.
- The writes behind the 40th slot of the tables: what they change depends on the layout of the record.
- The build without `FOR_TEST`, the test scripts, and the reports, which are quoted where they say what the
  program should do.
