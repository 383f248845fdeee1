----------------------------- MODULE GameStore -----------------------------
(***************************************************************************)
(* The handler processes of the server and the file of one player.         *)
(*                                                                         *)
(* command_reader forks a process for every request; each process runs one *)
(* command_* function and exits.  The only state that outlives a handler   *)
(* is the player's file sv_data/DAT_<plid>: a directory entry that names   *)
(* an inode, and the contents of the inodes.  A handler opens the file,    *)
(* takes its flock, reads the game into memory, answers the client, writes *)
(* the game back and leaves.  Players do not share files, so one player is *)
(* enough: any interference is between two requests about the same player. *)
(*                                                                         *)
(* A handler whose file was unlinked keeps working on the unlinked inode;  *)
(* inodes are numbered in the order in which they are created.             *)
(***************************************************************************)
EXTENDS GameOutcome, FiniteSets

CONSTANTS
  Handlers,     \* the handler processes: one request each
  MaxInodes,    \* bound: the number of files created in a behaviour
  Leftover,     \* what a file of an earlier run of the server may hold
  None,         \* no process (the owner of a lock that nobody holds)
  SendCanFail,  \* whether sendto may fail in a handler
  CanInterrupt  \* whether SIGINT may end a handler

ASSUME ConstantsAssumption ==
  /\ None \notin Handlers
  /\ Leftover \subseteq GameType \union {EmptyFile}
  /\ MaxInodes \in Nat \ {0}
  /\ SendCanFail \in BOOLEAN
  /\ CanInterrupt \in BOOLEAN

Inodes  == 1..MaxInodes
NoInode == 0   \* no directory entry; as a descriptor, -1

UDPCommands == {"SNG", "PLG", "PWG", "QUT"}
TCPCommands == {"GHL", "STA"}
Commands == UDPCommands \union TCPCommands
Replies  == {"none", "OK", "NOK", "INV", "DUP", "WIN", "OVR", "ERR"}

VARIABLES
  path,      \* the inode that sv_data/DAT_<plid> names, or NoInode
  created,   \* how many inodes have been created
  content,   \* what each inode holds: a game, or EmptyFile
  owner,     \* the process that holds the exclusive flock on each inode
  draws,     \* how many times random_entry was called
  scores,    \* the calls of save_score: <<game id, handler>>
  pc,        \* where each handler is
  cmd,       \* the request each handler serves
  fd,        \* g_file_dat
  found,     \* whether the last access(2) found the file (else errno = ENOENT)
  exists,    \* exists
  mem,       \* *g_serv_game
  reply      \* the status of the last reply that was sent

files   == <<path, created, content>>
shared  == <<path, created, content, owner, draws, scores>>
private == <<pc, cmd, fd, found, exists, mem, reply>>
vars    == <<path, created, content, owner, draws, scores,
             pc, cmd, fd, found, exists, mem, reply>>

Stages == {"idle", "access", "open", "stat", "create", "lock", "empty", "impl",
           "remove", "serialize", "reply", "unlock", "abort", "exit", "done"}

(* The server starts with the files that its last run left behind. *)
Init ==
  /\ \/ /\ path = NoInode
        /\ created = 0
        /\ draws = 0
        /\ content = [i \in Inodes |-> EmptyFile]
     \/ \E g \in Leftover :
          /\ path = 1
          /\ created = 1
          /\ draws = g.id
          /\ content = [i \in Inodes |-> IF i = 1 THEN g ELSE EmptyFile]
  /\ owner = [i \in Inodes |-> None]
  /\ scores = {}
  /\ pc = [h \in Handlers |-> "idle"]
  /\ cmd = [h \in Handlers |-> "SNG"]
  /\ fd = [h \in Handlers |-> NoInode]
  /\ found = [h \in Handlers |-> FALSE]
  /\ exists = [h \in Handlers |-> FALSE]
  /\ mem = [h \in Handlers |-> EmptyFile]
  /\ reply = [h \in Handlers |-> "none"]

----------------------------------------------------------------------------
(* Vocabulary of the actions *)

At(h, stage)  == pc[h] = stage
Goto(h, stage) == pc' = [pc EXCEPT ![h] = stage]
Answer(h, tok) == reply' = [reply EXCEPT ![h] = tok]

Held(h) == {i \in Inodes : owner[i] = h}

(* The end of a process: its memory is gone, and the kernel closes its     *)
(* descriptors, which gives back every lock it still holds.                *)
End(h) ==
  /\ Goto(h, "done")
  /\ owner' = [i \in Inodes |-> IF owner[i] = h THEN None ELSE owner[i]]
  /\ cmd' = [cmd EXCEPT ![h] = "SNG"]
  /\ fd' = [fd EXCEPT ![h] = NoInode]
  /\ found' = [found EXCEPT ![h] = FALSE]
  /\ exists' = [exists EXCEPT ![h] = FALSE]
  /\ mem' = [mem EXCEPT ![h] = EmptyFile]
  /\ Answer(h, "none")
  /\ UNCHANGED <<files, draws, scores>>

Sent == {TRUE} \union (IF SendCanFail THEN {FALSE} ELSE {})

----------------------------------------------------------------------------
(* GameAcquire *)

(* The process is forked and the request is parsed; a malformed one is     *)
(* answered with ERR before any file is touched.                           *)
Recv(h) ==
  /\ At(h, "idle")
  /\ \E c \in Commands : cmd' = [cmd EXCEPT ![h] = c]
  /\ \/ Goto(h, "access") /\ UNCHANGED reply
     \/ Goto(h, "exit") /\ Answer(h, "ERR")
  /\ UNCHANGED <<shared, fd, found, exists, mem>>

(* access(dat, F_OK) *)
AccessFile(h) ==
  /\ At(h, "access")
  /\ found' = [found EXCEPT ![h] = path # NoInode]
  /\ Goto(h, IF path # NoInode THEN "open" ELSE "create")
  /\ UNCHANGED <<shared, cmd, fd, exists, mem, reply>>

(* open(dat, O_RDWR): the file may be gone again, which is only reported. *)
OpenFile(h) ==
  /\ At(h, "open")
  /\ fd' = [fd EXCEPT ![h] = path]
  /\ Goto(h, "stat")
  /\ UNCHANGED <<shared, cmd, found, exists, mem, reply>>

(* Faults of StatFile: the size is not looked at; the test is inverted. *)
StatFile_AnySize(h) ==
  /\ At(h, "stat")
  /\ exists' = [exists EXCEPT ![h] = fd[h] # NoInode]
  /\ Goto(h, "lock")
  /\ UNCHANGED <<shared, cmd, fd, found, mem, reply>>

StatFile_Inverted(h) ==
  /\ At(h, "stat")
  /\ exists' = [exists EXCEPT ![h] = fd[h] # NoInode /\ content[fd[h]] = EmptyFile]
  /\ Goto(h, "lock")
  /\ UNCHANGED <<shared, cmd, fd, found, mem, reply>>

(* GameEmpty, called BEFORE the lock is taken.  On a bad descriptor it     *)
(* leaves exists as it was and its failure (1, not -1) passes unnoticed.   *)
StatFile(h) ==
  /\ At(h, "stat")
  /\ exists' = [exists EXCEPT ![h] =
       IF fd[h] = NoInode THEN ~ exists[h] ELSE content[fd[h]] # EmptyFile]
  /\ Goto(h, "lock")
  /\ UNCHANGED <<shared, cmd, fd, found, mem, reply>>

(* open(dat, O_RDWR | O_CREAT): somebody may have created it meanwhile. *)
CreateFile(h) ==
  /\ At(h, "create")
  /\ \/ /\ path = NoInode
        /\ created < MaxInodes
        /\ created' = created + 1
        /\ path' = created + 1
     \/ /\ path # NoInode
        /\ UNCHANGED <<created, path>>
  /\ fd' = [fd EXCEPT ![h] = path']
  /\ exists' = [exists EXCEPT ![h] = FALSE]
  /\ Goto(h, "lock")
  /\ UNCHANGED <<content, owner, draws, scores, cmd, found, mem, reply>>

(* A fault of LockFile: the lock is shared. *)
LockFile_Shared(h) ==
  /\ At(h, "lock")
  /\ fd[h] # NoInode
  /\ owner' = [owner EXCEPT ![fd[h]] = h]
  /\ Goto(h, IF cmd[h] \in {"GHL", "STA"} THEN "empty" ELSE "impl")
  /\ UNCHANGED <<files, draws, scores, cmd, fd, found, exists, mem, reply>>

(* flock(g_file_dat, LOCK_EX) *)
LockFile(h) ==
  /\ At(h, "lock")
  /\ fd[h] # NoInode
  /\ owner[fd[h]] = None
  /\ owner' = [owner EXCEPT ![fd[h]] = h]
  /\ Goto(h, IF cmd[h] \in {"GHL", "STA"} THEN "empty" ELSE "impl")
  /\ UNCHANGED <<files, draws, scores, cmd, fd, found, exists, mem, reply>>

(* A fault of LockFails: the result of flock is ignored. *)
LockFails_Ignored(h) ==
  /\ At(h, "lock")
  /\ fd[h] = NoInode
  /\ Goto(h, "impl")
  /\ UNCHANGED <<shared, cmd, fd, found, exists, mem, reply>>

(* flock on a bad descriptor.  The first time GameAcquire fails the client *)
(* gets ERR; inside start_impl the release that follows fails as well.     *)
LockFails(h) ==
  /\ At(h, "lock")
  /\ fd[h] = NoInode
  /\ \/ Held(h) = {} /\ Answer(h, "ERR") /\ Goto(h, "exit")
     \/ Held(h) # {} /\ Goto(h, "abort") /\ UNCHANGED reply
  /\ UNCHANGED <<shared, cmd, fd, found, exists, mem>>

----------------------------------------------------------------------------
(* The commands, up to the reply *)

(* StartGame: the game a handler works on, drawn anew unless the file had  *)
(* one when it was opened.                                                 *)
StartGame(h) == IF exists[h] THEN content[fd[h]] ELSE FreshGame(draws + 1)
Draw_Stuck(h) == draws' = draws   \* a fault: the counter does not advance
Draw(h) == draws' = IF exists[h] THEN draws ELSE draws + 1

(* A fault of Finish: the result of udp_sender_send is ignored. *)
Finish_Unsent(h, r, next, failed) ==
  /\ mem' = [mem EXCEPT ![h] = r.game]
  /\ \E sent \in Sent : Answer(h, IF sent THEN r.tok ELSE reply[h])
  /\ Goto(h, next)

(* The game and the reply of a handler that has done its work.  A reply    *)
(* that cannot be sent ends the handler before it serialises the game.     *)
Finish(h, r, next, failed) ==
  /\ mem' = [mem EXCEPT ![h] = r.game]
  /\ \E sent \in Sent :
       /\ Answer(h, IF sent THEN r.tok ELSE IF failed = "exit" THEN "ERR" ELSE reply[h])
       /\ Goto(h, IF sent THEN next ELSE failed)

(* start_impl and command_start: a game that is over is deleted and the    *)
(* whole of GameAcquire and start_impl runs again.                         *)
StartImpl(h) ==
  /\ At(h, "impl") /\ cmd[h] = "SNG"
  /\ Draw(h)
  /\ LET g == StartGame(h) IN
       \/ g.fin = Running /\ Finish(h, StartResult(g), "serialize", "abort")
       \/ /\ g.fin # Running
          /\ mem' = [mem EXCEPT ![h] = g]
          /\ Goto(h, "remove")
          /\ UNCHANGED reply
  /\ UNCHANGED <<files, owner, scores, cmd, fd, found, exists>>

(* A fault of RemoveFile: the finished game stays where it is. *)
RemoveFile_Kept(h) ==
  /\ At(h, "remove")
  /\ Goto(h, IF path # NoInode THEN "access" ELSE "abort")
  /\ UNCHANGED <<shared, cmd, fd, found, exists, mem, reply>>

(* RemoveFile unlinks whatever the path names by now; the descriptor and   *)
(* the lock of the finished game stay with the process until it exits.     *)
RemoveFile(h) ==
  /\ At(h, "remove")
  /\ path' = NoInode
  /\ Goto(h, IF path # NoInode THEN "access" ELSE "abort")
  /\ UNCHANGED <<created, content, owner, draws, scores, cmd, fd, found, exists, mem, reply>>

(* The failure path of a request that was understood but cannot be served: *)
(* play_impl and hint_impl exit at once, guess_impl releases the file.     *)
Reject(h) ==
  /\ mem' = [mem EXCEPT ![h] = StartGame(h)]
  /\ \/ cmd[h] = "PLG" /\ Answer(h, "ERR") /\ Goto(h, "exit")
     \/ cmd[h] = "PWG" /\ Goto(h, "abort") /\ UNCHANGED reply
  /\ UNCHANGED scores

(* play_impl and guess_impl.  They fail on a finished game, on a bad       *)
(* letter, word or number, and whenever access(2) left errno set: final_num*)
(* takes ENOENT for an overflow.  A win calls save_score before the reply. *)
TrialResults(c, g) == IF c = "PLG" THEN LetterResults(g) ELSE WordResults(g)

(* A fault of TrialImpl: the status of the game is not asked. *)
TrialImpl_AnyStatus(h) ==
  /\ At(h, "impl")
  /\ Draw(h)
  /\ LET g == StartGame(h) IN
       \E r \in TrialResults(cmd[h], g) :
         /\ scores' = IF r.tok = "WIN" THEN scores \union {<<g.id, h>>} ELSE scores
         /\ Finish(h, r, "serialize", "exit")
  /\ UNCHANGED <<files, owner, cmd, fd, found, exists>>

(* A fault of TrialImpl: strtoul_check clears errno first. *)
TrialImpl_ErrnoCleared(h) ==
  /\ At(h, "impl")
  /\ Draw(h)
  /\ LET g == StartGame(h) IN
       \/ Reject(h)
       \/ /\ g.fin = Running
          /\ \E r \in TrialResults(cmd[h], g) :
               /\ scores' = IF r.tok = "WIN" THEN scores \union {<<g.id, h>>} ELSE scores
               /\ Finish(h, r, "serialize", IF cmd[h] = "PLG" THEN "exit" ELSE "abort")
  /\ UNCHANGED <<files, owner, cmd, fd, found, exists>>

TrialImpl(h) ==
  /\ At(h, "impl")
  /\ Draw(h)
  /\ LET g == StartGame(h) IN
       \/ Reject(h)
       \/ /\ g.fin = Running
          /\ found[h]
          /\ \E r \in TrialResults(cmd[h], g) :
               /\ scores' = IF r.tok = "WIN" THEN scores \union {<<g.id, h>>} ELSE scores
               /\ Finish(h, r, "serialize", IF cmd[h] = "PLG" THEN "exit" ELSE "abort")
  /\ UNCHANGED <<files, owner, cmd, fd, found, exists>>

PlayImpl(h)  == cmd[h] = "PLG" /\ TrialImpl(h)
GuessImpl(h) == cmd[h] = "PWG" /\ TrialImpl(h)

(* A fault of QuitImpl: the client is answered and the game not written. *)
QuitImpl_NotStored(h) ==
  /\ At(h, "impl") /\ cmd[h] = "QUT"
  /\ Draw(h)
  /\ Finish(h, QuitResult(StartGame(h)), "unlock", "abort")
  /\ UNCHANGED <<files, owner, scores, cmd, fd, found, exists>>

(* quit_impl: GameEmpty again, now under the lock; the reply comes last. *)
QuitImpl(h) ==
  /\ At(h, "impl") /\ cmd[h] = "QUT"
  /\ Draw(h)
  /\ LET g == StartGame(h) IN
       \/ content[fd[h]] = EmptyFile /\ Finish(h, Result("NOK", g), "unlock", "abort")
       \/ /\ content[fd[h]] # EmptyFile
          /\ mem' = [mem EXCEPT ![h] = QuitResult(g).game]
          /\ Goto(h, "serialize")
          /\ UNCHANGED reply
  /\ UNCHANGED <<files, owner, scores, cmd, fd, found, exists>>

(* command_hint and command_state: GameEmpty under the lock. *)
CheckEmpty(h) ==
  /\ At(h, "empty")
  /\ \/ content[fd[h]] = EmptyFile /\ Answer(h, "NOK") /\ Goto(h, "exit")
     \/ content[fd[h]] # EmptyFile /\ Goto(h, "impl") /\ UNCHANGED reply
  /\ UNCHANGED <<shared, cmd, fd, found, exists, mem>>

(* hint_impl and state_impl report the game and write nothing; a failure   *)
(* of hint_impl skips the release.                                         *)
ReportImpl(h) ==
  /\ At(h, "impl") /\ cmd[h] \in {"GHL", "STA"}
  /\ Draw(h)
  /\ Finish(h, Result("OK", StartGame(h)), "unlock",
            IF cmd[h] = "GHL" THEN "exit" ELSE "abort")
  /\ UNCHANGED <<files, owner, scores, cmd, fd, found, exists>>

----------------------------------------------------------------------------
(* Writing back and leaving *)

(* A fault of Serialize: the file is opened again by its name. *)
Serialize_ByName(h) ==
  /\ At(h, "serialize")
  /\ content' = [content EXCEPT ![path] = mem[h]]
  /\ Goto(h, IF cmd[h] = "QUT" THEN "reply" ELSE "unlock")
  /\ UNCHANGED <<path, created, owner, draws, scores, cmd, fd, found, exists, mem, reply>>

(* ExitAndSerializeGame: lseek, write and ftruncate, under the lock. *)
Serialize(h) ==
  /\ At(h, "serialize")
  /\ content' = [content EXCEPT ![fd[h]] = mem[h]]
  /\ Goto(h, IF cmd[h] = "QUT" THEN "reply" ELSE "unlock")
  /\ UNCHANGED <<path, created, owner, draws, scores, cmd, fd, found, exists, mem, reply>>

(* The last part of quit_impl. *)
QuitReply(h) ==
  /\ At(h, "reply")
  /\ \E sent \in Sent :
       /\ Answer(h, IF sent THEN "OK" ELSE reply[h])
       /\ Goto(h, IF sent THEN "unlock" ELSE "abort")
  /\ UNCHANGED <<shared, cmd, fd, found, exists, mem>>

(* GameRelease on the way out of a request that succeeded. *)
Release(h) ==
  /\ At(h, "unlock")
  /\ owner' = [owner EXCEPT ![fd[h]] = None]
  /\ Goto(h, "exit")
  /\ UNCHANGED <<files, draws, scores, cmd, fd, found, exists, mem, reply>>

(* out_release, then out: GameRelease and the ERR reply; command_start     *)
(* exits in silence when the release itself fails.                         *)
Abort(h) ==
  /\ At(h, "abort")
  /\ \/ /\ fd[h] # NoInode
        /\ owner' = [owner EXCEPT ![fd[h]] = None]
        /\ Answer(h, "ERR")
     \/ /\ fd[h] = NoInode
        /\ UNCHANGED <<owner, reply>>
  /\ Goto(h, "exit")
  /\ UNCHANGED <<files, draws, scores, cmd, fd, found, exists, mem>>

(* exit(3) at the end of every command. *)
Exit(h) == At(h, "exit") /\ End(h)

(* sig_exit_subudp_impl and sig_exit_subtcp_impl: SIGINT ends the handler  *)
(* wherever it is.                                                         *)
Interrupt(h) == CanInterrupt /\ pc[h] \notin {"idle", "done"} /\ End(h)

----------------------------------------------------------------------------
Acquire(h) ==
  AccessFile(h) \/ OpenFile(h) \/ StatFile(h) \/ CreateFile(h) \/ LockFile(h) \/ LockFails(h)

Impl(h) ==
  \/ StartImpl(h) \/ RemoveFile(h) \/ PlayImpl(h) \/ GuessImpl(h) \/ QuitImpl(h)
  \/ CheckEmpty(h) \/ ReportImpl(h)

Leave(h) == Serialize(h) \/ QuitReply(h) \/ Release(h) \/ Abort(h) \/ Exit(h)

(* A step of a handler's own program. *)
Step(h) == Acquire(h) \/ Impl(h) \/ Leave(h)

AllDone == (\A h \in Handlers : pc[h] = "done") /\ UNCHANGED vars

Next == (\E h \in Handlers : Recv(h) \/ Step(h) \/ Interrupt(h)) \/ AllDone

Spec == Init /\ [][Next]_vars

(* The kernel schedules every runnable process, and hands a free flock to  *)
(* some process that waits for it.                                         *)
FairSpec == Spec /\ \A h \in Handlers : WF_vars(Step(h))

(* One request at a time: what a client that waits for every answer, and   *)
(* is alone to use its PLID, obtains.                                      *)
Working == {h \in Handlers : pc[h] \notin {"idle", "done"}}
SerialSpec == Init /\ [][Next /\ Cardinality(Working') <= 1]_vars

----------------------------------------------------------------------------
(* Properties *)

TypeOK ==
  /\ path \in 0..MaxInodes
  /\ created \in 0..MaxInodes
  /\ content \in [Inodes -> GameType \union {EmptyFile}]
  /\ owner \in [Inodes -> Handlers \union {None}]
  /\ draws \in Nat
  /\ scores \in SUBSET ((Nat \ {0}) \X Handlers)
  /\ pc \in [Handlers -> Stages]
  /\ cmd \in [Handlers -> Commands]
  /\ fd \in [Handlers -> 0..MaxInodes]
  /\ found \in [Handlers -> BOOLEAN]
  /\ exists \in [Handlers -> BOOLEAN]
  /\ mem \in [Handlers -> GameType \union {EmptyFile}]
  /\ reply \in [Handlers -> Replies]

(* The stages between flock(LOCK_EX) and GameRelease. *)
Locked == {"empty", "impl", "remove", "serialize", "reply", "unlock"}

(* Between flock and GameRelease the lock on g_file_dat is the handler's    *)
(* own, through errors, the second GameAcquire of start_impl and the deaths *)
(* of other handlers: no two handlers ever work on one file at a time.      *)
LockCoversWork ==
  \A h \in Handlers :
    pc[h] \in Locked \/ (pc[h] = "abort" /\ fd[h] # NoInode) =>
      fd[h] # NoInode /\ owner[fd[h]] = h

(* A handler that read its game from the file writes back a game that one   *)
(* request can make of what the file holds at that very moment: no request  *)
(* overwrites the outcome of another one it did not see (lost update).      *)
NoLostUpdate ==
  \A h \in Handlers :
    pc[h] = "serialize" /\ exists[h] => mem[h] \in Successors(content[fd[h]])

(* The read of StartGame never meets an empty file, although the size that  *)
(* decided to read was taken before the lock: E_FAILED_SERIAL_READ is dead  *)
(* code as long as files are only ever written whole.                       *)
ReadFindsGame ==
  \A h \in Handlers : pc[h] = "impl" /\ exists[h] => content[fd[h]] # EmptyFile

(* The second GameAcquire of start_impl waits for a lock while the first    *)
(* one is still held.  It never waits for an inode as old as one it holds,  *)
(* so handlers cannot wait for each other in a circle.                      *)
LocksInOrder ==
  \A h \in Handlers : \A i \in Held(h) :
    (pc[h] \in {"stat", "lock"} /\ fd[h] # NoInode) => i < fd[h]

(* Whether the client was told that its request was carried out, and        *)
(* whether that promises a change (or a game) that is in the file.          *)
Accepted(h) == reply[h] \in Replies \ {"none", "ERR"}
Promised(h) == Accepted(h) /\ (cmd[h] \in {"SNG", "PLG", "PWG"} \/ (cmd[h] = "QUT" /\ reply[h] = "OK"))

(* For a letter or a word there was a file before GameAcquire. *)
FileWasThere(h) == cmd[h] \in {"PLG", "PWG"} => found[h]

(* SIGINT comes between sendto and ExitAndSerializeGame. *)
CutOff(h) == pc[h] = "serialize" /\ pc'[h] = "done"

(* The answer goes out before the game is written (command.c:56, 77), and   *)
(* may fail to; QUT does it the other way round.  Nevertheless answer and   *)
(* file go together: a handler changes the file only for a request that was *)
(* accepted or a QUT, and the lock of a request that was promised is only   *)
(* given back, by GameRelease or by exit, with its outcome in the file.     *)
(* A letter or a word of a player without a file changes nothing.  All that *)
(* refuses it is the errno that access(2) left, which strtoul_check takes   *)
(* for its own; in the empty file it leaves, the next one begins a game.    *)
(* The exception is real: a handler that SIGINT ends just after its answer  *)
(* frees the lock, and the outcome its client was told is lost.             *)
AnsweredIsStored ==
  [][\A h \in Handlers :
       (fd[h] # NoInode /\ owner[fd[h]] = h) =>
         /\ content'[fd[h]] # content[fd[h]] => cmd[h] = "QUT" \/ (Accepted(h) /\ FileWasThere(h))
         /\ (owner'[fd[h]] # h /\ Promised(h)) => content[fd[h]] = mem[h] \/ CutOff(h)]_vars

(* A game enters the score table once, although save_score runs before the  *)
(* reply and before the game is written as won.                             *)
ScoredOnce ==
  \A s, t \in scores : s[1] = t[1] => s = t

(* Behind the properties above: what is true of the inodes at every step.   *)
(* Nothing is named, open, locked or written before it was created.         *)
InodesCreated ==
  /\ path <= created
  /\ \A h \in Handlers : fd[h] <= created
  /\ \A i \in Inodes : i > created => owner[i] = None /\ content[i] = EmptyFile

(* A process that holds a lock while it looks for another file has removed  *)
(* the path since: what the path names now is newer than what it holds.     *)
LockChain ==
  \A h \in Handlers : \A i \in Held(h) :
    /\ pc[h] \notin {"idle", "done"}
    /\ pc[h] \in {"access", "open", "create"} => path = NoInode \/ i < path
    /\ pc[h] \in {"stat", "lock"} => fd[h] = NoInode \/ i < fd[h]

(* A file found to have a game when it was opened still has one.            *)
GameStays ==
  \A h \in Handlers :
    (pc[h] \in {"lock", "empty", "impl", "serialize"} /\ exists[h] /\ fd[h] # NoInode) =>
      content[fd[h]] # EmptyFile

(* A handler about to write has made one move, of the game in the file or   *)
(* of a new one, and from then on the file has what it wrote.               *)
OneMove ==
  \A h \in Handlers :
    /\ pc[h] = "serialize" =>
         mem[h] \in Successors(IF exists[h] THEN content[fd[h]] ELSE FreshGame(mem[h].id))
    /\ pc[h] = "reply" => content[fd[h]] = mem[h]

(* A handler that goes on to GameRelease has written what it promised.      *)
StoredAtUnlock ==
  \A h \in Handlers :
    /\ pc[h] = "unlock"
    /\ cmd[h] \in {"SNG", "PLG", "PWG"} \/ (cmd[h] = "QUT" /\ reply[h] = "OK")
    => content[fd[h]] = mem[h]

(* A new game that is about to be written is in no file, and nobody else    *)
(* is about to write it.                                                    *)
Begins(h) == pc[h] = "serialize" /\ ~ exists[h]
DrawsDiffer ==
  /\ \A i \in Inodes : content[i].id <= draws
  /\ \A h \in Handlers : mem[h].id <= draws
  /\ \A h \in Handlers : Begins(h) =>
       /\ mem[h].id # 0
       /\ \A i \in Inodes : content[i].id # mem[h].id
       /\ \A k \in Handlers \ {h} : Begins(k) => mem[k].id # mem[h].id

(* The inductive invariant from which GameStore_proofs.tla derives the      *)
(* safety properties.                                                       *)
IndInv ==
  /\ TypeOK
  /\ InodesCreated
  /\ LockCoversWork
  /\ LockChain
  /\ GameStays
  /\ OneMove
  /\ StoredAtUnlock
  /\ DrawsDiffer

(* Every request that is taken up ends, however handlers share the file. *)
EveryRequestEnds ==
  \A h \in Handlers : pc[h] = "access" ~> pc[h] = "done"

(* Only its player's moves and QUT end a game: the client tells a player    *)
(* whose SNG is refused to use quit (player_src/src/command.c:73).  A game  *)
(* that is under way is never unlinked nor replaced by another one.         *)
ActiveGameKept ==
  [][\A i \in Inodes :
       (path = i /\ content[i] # EmptyFile /\ content[i].fin = Running) =>
         path' = i /\ content'[i].id = content[i].id]_vars

(* What the handlers do to the files, seen as one step per request. *)
GameFile == INSTANCE GameFile
AtomicRequests == GameFile!Spec

(* The same for requests that do not overlap: only an empty file is begun   *)
(* and only a finished game is deleted.                                     *)
SerialRequests == GameFile!SerialSpec
============================================================================
