-------------------------- MODULE GameStore_proofs --------------------------
(***************************************************************************)
(* Proofs about GameStore, for any number of handlers and of files.        *)
(***************************************************************************)
EXTENDS GameStore, TLAPS

(* A move keeps the identity of a game and leaves a game, never an empty   *)
(* file; GameUnregTrial is never applied to a game without trials.         *)
LEMMA MoveKeepsGame ==
  ASSUME NEW g \in GameType, NEW m \in Successors(g)
  PROVE  m \in GameType /\ m.id = g.id /\ m # EmptyFile
<1>1. \A n \in Counted(g) \union Uncounted(g) : n \in Nat
  BY DEF Counted, Uncounted, GameType
<1>2. \A t \in Nat, f \in Running..Quit :
        Moved(g, t, f) \in GameType /\ Moved(g, t, f).id = g.id
  BY DEF Moved, GameType
<1>3. {Running, Won, Lost, Quit} \subseteq Running..Quit /\ g.fin \in Running..Quit /\ g.trials \in Nat
  BY DEF GameType, Running, Won, Lost, Quit
<1>4. ASSUME NEW r \in Refused(g) PROVE r.game = g
  BY DEF Refused, Result
<1>5. ASSUME NEW r \in Missed(g) PROVE r.game \in GameType /\ r.game.id = g.id
  BY <1>1, <1>2, <1>3 DEF Missed, Result
<1>6. ASSUME NEW r \in LetterResults(g) PROVE r.game \in GameType /\ r.game.id = g.id
  BY <1>1, <1>2, <1>3, <1>4, <1>5 DEF LetterResults, Result
<1>7. ASSUME NEW r \in WordResults(g) PROVE r.game \in GameType /\ r.game.id = g.id
  BY <1>1, <1>2, <1>3, <1>4, <1>5 DEF WordResults, Result
<1>8. QuitResult(g).game \in GameType /\ QuitResult(g).game.id = g.id
  BY <1>2, <1>3 DEF QuitResult, Result
<1>9. StartResult(g).game = g
  BY DEF StartResult, Result
<1>10. m \in GameType /\ m.id = g.id
  BY <1>6, <1>7, <1>8, <1>9 DEF Successors
<1> QED BY <1>10 DEF GameType, EmptyFile

(* The game a handler works on is a game: the size that was taken before   *)
(* the lock is not out of date in the direction that would hurt.           *)
LEMMA StartGameIsGame ==
  ASSUME IndInv, NEW h \in Handlers, pc[h] = "impl", Draw(h)
  PROVE  /\ StartGame(h) \in GameType
         /\ StartGame(h).id <= draws'
         /\ exists[h] => StartGame(h) = content[fd[h]]
         /\ ~ exists[h] => StartGame(h) = FreshGame(StartGame(h).id) /\ StartGame(h).id = draws + 1
<1>1. fd[h] \in Inodes /\ draws \in Nat /\ exists[h] \in BOOLEAN /\ pc[h] \in Locked
  BY DEF IndInv, TypeOK, LockCoversWork, Locked, Inodes, NoInode
<1>2. CASE exists[h]
  <2>1. content[fd[h]] # EmptyFile /\ content[fd[h]].id <= draws
    BY <1>1, <1>2 DEF IndInv, GameStays, DrawsDiffer, LockCoversWork
  <2> QED BY <1>1, <1>2, <2>1 DEF StartGame, Draw, IndInv, TypeOK
<1>3. CASE ~ exists[h]
  <2>1. draws + 1 \in Nat \ {0}
    BY <1>1
  <2> QED BY <1>1, <1>3, <2>1 DEF StartGame, Draw, FreshGame, GameType, Running, Quit
<1> QED BY <1>2, <1>3

(* What every command does between its read and its write, as far as the   *)
(* invariant can tell.                                                     *)
ImplShape(h) ==
  /\ pc[h] = "impl"
  /\ Draw(h)
  /\ \E stage \in {"serialize", "unlock", "remove", "abort", "exit"}, m \in GameType, tok \in Replies :
       /\ pc' = [pc EXCEPT ![h] = stage]
       /\ mem' = [mem EXCEPT ![h] = m]
       /\ reply' = [reply EXCEPT ![h] = tok]
       /\ m.id = StartGame(h).id
       /\ stage = "serialize" => m \in Successors(StartGame(h))
       /\ stage = "unlock" => cmd[h] \in {"GHL", "STA"} \/ (cmd[h] = "QUT" /\ tok # "OK")
  /\ scores' \in SUBSET ((Nat \ {0}) \X Handlers)
  /\ UNCHANGED <<path, created, content, owner, cmd, fd, found, exists>>

(* A result that is the game itself or one move away has that shape.       *)
LEMMA FinishShape ==
  ASSUME IndInv, NEW h \in Handlers, pc[h] = "impl", Draw(h),
         NEW r, r.game \in Successors(StartGame(h)) \union {StartGame(h)}, r.tok \in Replies,
         NEW next \in {"serialize", "unlock"}, NEW failed \in {"abort", "exit"},
         next = "serialize" => r.game \in Successors(StartGame(h)),
         next = "unlock" => cmd[h] \in {"GHL", "STA"} \/ (cmd[h] = "QUT" /\ r.tok # "OK"),
         Finish(h, r, next, failed),
         scores' \in SUBSET ((Nat \ {0}) \X Handlers),
         UNCHANGED <<path, created, content, owner, cmd, fd, found, exists>>
  PROVE  ImplShape(h)
<1>1. r.game \in GameType /\ r.game.id = StartGame(h).id
  BY StartGameIsGame, MoveKeepsGame
<1>2. reply[h] \in Replies /\ "ERR" \in Replies
  BY DEF IndInv, TypeOK, Replies
<1>3. PICK sent \in Sent :
        /\ Answer(h, IF sent THEN r.tok ELSE IF failed = "exit" THEN "ERR" ELSE reply[h])
        /\ Goto(h, IF sent THEN next ELSE failed)
  BY DEF Finish
<1>4. CASE sent
  BY <1>1, <1>2, <1>3, <1>4 DEF Finish, ImplShape, Answer, Goto
<1>5. CASE ~ sent
  BY <1>1, <1>2, <1>3, <1>5 DEF Finish, ImplShape, Answer, Goto
<1> QED BY <1>4, <1>5

(* A command keeps the invariant whatever it decided. *)
LEMMA ImplShapeStep == ASSUME IndInv, NEW h \in Handlers, ImplShape(h) PROVE IndInv'
<1> USE DEF Draw
<1>1. PICK stage \in {"serialize", "unlock", "remove", "abort", "exit"}, m \in GameType, tok \in Replies :
       /\ pc' = [pc EXCEPT ![h] = stage]
       /\ mem' = [mem EXCEPT ![h] = m]
       /\ reply' = [reply EXCEPT ![h] = tok]
       /\ m.id = StartGame(h).id
       /\ stage = "serialize" => m \in Successors(StartGame(h))
       /\ stage = "unlock" => cmd[h] \in {"GHL", "STA"} \/ (cmd[h] = "QUT" /\ tok # "OK")
  BY DEF ImplShape
<1>2. pc[h] = "impl" /\ Draw(h) /\ UNCHANGED <<path, created, content, owner, cmd, fd, found, exists>>
  BY DEF ImplShape
<1>3. /\ m.id <= draws' /\ draws <= draws' /\ draws' \in Nat
      /\ exists[h] => StartGame(h) = content[fd[h]]
      /\ ~ exists[h] => StartGame(h) = FreshGame(m.id) /\ m.id = draws + 1
  BY <1>1, <1>2, StartGameIsGame DEF IndInv, TypeOK
<1>4. TypeOK'
  BY <1>1, <1>2, <1>3 DEF IndInv, TypeOK, ImplShape, Stages
<1>5. InodesCreated'
  BY <1>2 DEF IndInv, InodesCreated
<1>6. LockCoversWork'
  BY <1>1, <1>2 DEF IndInv, TypeOK, LockCoversWork, Locked
<1>7. LockChain'
  BY <1>1, <1>2 DEF IndInv, TypeOK, LockChain, Held
<1>8. GameStays'
  BY <1>1, <1>2 DEF IndInv, TypeOK, GameStays
<1>9. OneMove'
  BY <1>1, <1>2, <1>3 DEF IndInv, TypeOK, OneMove
<1>10. StoredAtUnlock'
  BY <1>1, <1>2 DEF IndInv, TypeOK, StoredAtUnlock
<1>11. DrawsDiffer'
  <2>1. /\ \A i \in Inodes : content[i].id \in Nat /\ content'[i] = content[i]
        /\ \A k \in Handlers : mem[k].id \in Nat
        /\ draws \in Nat /\ m.id \in Nat \ {0}
    BY <1>2 DEF IndInv, TypeOK, GameType, EmptyFile
  <2>2. \A k \in Handlers : k # h => mem'[k] = mem[k] /\ (Begins(k)' <=> Begins(k))
    BY <1>1, <1>2 DEF IndInv, TypeOK, Begins
  <2>3. mem'[h] = m /\ (Begins(h)' => ~ exists[h])
    BY <1>1, <1>2 DEF IndInv, TypeOK, Begins
  <2>4. \A i \in Inodes : content'[i].id <= draws'
    BY <1>3, <2>1 DEF IndInv, DrawsDiffer
  <2>5. \A k \in Handlers : mem'[k].id <= draws'
    BY <1>3, <2>1, <2>2, <2>3 DEF IndInv, DrawsDiffer
  <2>6. ASSUME NEW k \in Handlers, Begins(k)'
        PROVE  /\ mem'[k].id # 0
               /\ \A i \in Inodes : content'[i].id # mem'[k].id
               /\ \A l \in Handlers \ {k} : Begins(l)' => mem'[l].id # mem'[k].id
    <3>1. CASE k = h
      <4>1. m.id = draws + 1
        BY <1>3, <2>3, <2>6, <3>1
      <4> QED BY <2>1, <2>2, <2>3, <3>1, <4>1 DEF IndInv, DrawsDiffer
    <3>2. CASE k # h
      <4>1. Begins(k) /\ mem'[k] = mem[k]
        BY <2>2, <2>6, <3>2
      <4>2. ASSUME Begins(h)' PROVE m.id # mem[k].id
        <5>1. m.id = draws + 1
          BY <1>3, <2>3, <4>2
        <5> QED BY <2>1, <5>1 DEF IndInv, DrawsDiffer
      <4> QED BY <2>1, <2>2, <2>3, <4>1, <4>2 DEF IndInv, DrawsDiffer
    <3> QED BY <3>1, <3>2
  <2> QED BY <2>4, <2>5, <2>6 DEF DrawsDiffer
<1> QED BY <1>4, <1>5, <1>6, <1>7, <1>8, <1>9, <1>10, <1>11 DEF IndInv

(* What is answered to a trial or to start is a reply of the protocol. *)
LEMMA RepliesTyped ==
  ASSUME NEW g
  PROVE  /\ \A r \in LetterResults(g) \union WordResults(g) : r.tok \in Replies
         /\ StartResult(g).tok \in Replies
  BY DEF LetterResults, WordResults, Refused, Missed, StartResult, Result, Replies

(* start_impl has the shape of a command. *)
LEMMA StartImplShape == ASSUME IndInv, NEW h \in Handlers, StartImpl(h) PROVE ImplShape(h)
<1> DEFINE g == StartGame(h)
<1>1. /\ pc[h] = "impl" /\ cmd[h] = "SNG" /\ Draw(h)
      /\ UNCHANGED <<path, created, content, owner, scores, cmd, fd, found, exists>>
  BY DEF StartImpl, At, files
<1>2. scores' \in SUBSET ((Nat \ {0}) \X Handlers)
  BY <1>1 DEF IndInv, TypeOK
<1>3. CASE g.fin = Running /\ Finish(h, StartResult(g), "serialize", "abort")
  <2>1. StartResult(g).game \in Successors(g)
    BY <1>3 DEF Successors
  <2> QED BY <1>1, <1>2, <1>3, <2>1, RepliesTyped, FinishShape
<1>4. CASE mem' = [mem EXCEPT ![h] = g] /\ Goto(h, "remove") /\ UNCHANGED reply
  <2>1. g \in GameType
    BY <1>1, StartGameIsGame
  <2>2. reply' = [reply EXCEPT ![h] = reply[h]] /\ reply[h] \in Replies
    BY <1>4 DEF IndInv, TypeOK
  <2> QED BY <1>1, <1>2, <1>4, <2>1, <2>2 DEF ImplShape, Goto
<1> QED BY <1>3, <1>4 DEF StartImpl

(* So have play_impl and guess_impl. *)
LEMMA TrialImplShape ==
  ASSUME IndInv, NEW h \in Handlers, cmd[h] \in {"PLG", "PWG"}, TrialImpl(h) PROVE ImplShape(h)
<1> DEFINE g == StartGame(h)
<1>1. /\ pc[h] = "impl" /\ Draw(h)
      /\ UNCHANGED <<path, created, content, owner, cmd, fd, found, exists>>
  BY DEF TrialImpl, At, files
<1>2. g \in GameType
  BY <1>1, StartGameIsGame
<1>3. CASE Reject(h)
  <2>1. reply \in [Handlers -> Replies] /\ scores' \in SUBSET ((Nat \ {0}) \X Handlers)
    BY <1>3 DEF IndInv, TypeOK, Reject
  <2>2. PICK stage \in {"abort", "exit"}, tok \in Replies :
          pc' = [pc EXCEPT ![h] = stage] /\ reply' = [reply EXCEPT ![h] = tok]
    <3>1. CASE Answer(h, "ERR") /\ Goto(h, "exit")
      BY <3>1 DEF Answer, Goto, Replies
    <3>2. CASE Goto(h, "abort") /\ UNCHANGED reply
      <4>1. reply' = [reply EXCEPT ![h] = reply[h]] /\ reply[h] \in Replies
        BY <2>1, <3>2
      <4> QED BY <3>2, <4>1 DEF Goto
    <3> QED BY <1>3, <3>1, <3>2 DEF Reject
  <2> QED BY <1>1, <1>2, <1>3, <2>1, <2>2 DEF Reject, ImplShape
<1>4. ASSUME g.fin = Running,
             NEW r \in TrialResults(cmd[h], g),
             scores' = IF r.tok = "WIN" THEN scores \union {<<g.id, h>>} ELSE scores,
             Finish(h, r, "serialize", IF cmd[h] = "PLG" THEN "exit" ELSE "abort")
      PROVE  ImplShape(h)
  <2>1. r \in LetterResults(g) \union WordResults(g)
    BY DEF TrialResults
  <2>2. r.game \in Successors(g) /\ r.tok \in Replies
    BY <1>4, <2>1, RepliesTyped DEF Successors
  <2>3. scores' \in SUBSET ((Nat \ {0}) \X Handlers)
    BY <1>2, <1>4 DEF IndInv, TypeOK, GameType
  <2> DEFINE failed == IF cmd[h] = "PLG" THEN "exit" ELSE "abort"
  <2>4. failed \in {"abort", "exit"}
    OBVIOUS
  <2> QED BY <1>1, <1>4, <2>2, <2>3, <2>4, FinishShape
<1> QED BY <1>3, <1>4 DEF TrialImpl

(* So has quit_impl, which writes before it answers. *)
LEMMA QuitImplShape == ASSUME IndInv, NEW h \in Handlers, QuitImpl(h) PROVE ImplShape(h)
<1> DEFINE g == StartGame(h)
<1>1. /\ pc[h] = "impl" /\ cmd[h] = "QUT" /\ Draw(h)
      /\ UNCHANGED <<path, created, content, owner, scores, cmd, fd, found, exists>>
  BY DEF QuitImpl, At, files
<1>2. scores' \in SUBSET ((Nat \ {0}) \X Handlers) /\ g \in GameType
  BY <1>1, StartGameIsGame DEF IndInv, TypeOK
<1>3. CASE Finish(h, Result("NOK", g), "unlock", "abort")
  <2>1. Result("NOK", g).game = g /\ Result("NOK", g).tok = "NOK" /\ "NOK" \in Replies
    BY DEF Result, Replies
  <2> QED BY <1>1, <1>2, <1>3, <2>1, FinishShape
<1>4. CASE mem' = [mem EXCEPT ![h] = QuitResult(g).game] /\ Goto(h, "serialize") /\ UNCHANGED reply
  <2>1. QuitResult(g).game \in Successors(g)
    BY DEF Successors
  <2>2. QuitResult(g).game \in GameType /\ QuitResult(g).game.id = g.id
    BY <1>2, <2>1, MoveKeepsGame
  <2>3. reply' = [reply EXCEPT ![h] = reply[h]] /\ reply[h] \in Replies
    BY <1>4 DEF IndInv, TypeOK
  <2> QED BY <1>1, <1>2, <1>4, <2>1, <2>2, <2>3 DEF ImplShape, Goto
<1> QED BY <1>3, <1>4 DEF QuitImpl

(* So have hint and state, which write nothing. *)
LEMMA ReportImplShape == ASSUME IndInv, NEW h \in Handlers, ReportImpl(h) PROVE ImplShape(h)
<1> DEFINE g == StartGame(h)
           failed == IF cmd[h] = "GHL" THEN "exit" ELSE "abort"
<1>1. /\ pc[h] = "impl" /\ cmd[h] \in {"GHL", "STA"} /\ Draw(h)
      /\ UNCHANGED <<path, created, content, owner, scores, cmd, fd, found, exists>>
  BY DEF ReportImpl, At, files
<1>2. scores' \in SUBSET ((Nat \ {0}) \X Handlers)
  BY <1>1 DEF IndInv, TypeOK
<1>3. Result("OK", g).game = g /\ Result("OK", g).tok = "OK" /\ "OK" \in Replies
  BY DEF Result, Replies
<1>4. failed \in {"abort", "exit"} /\ Finish(h, Result("OK", g), "unlock", failed)
  BY DEF ReportImpl
<1> QED BY <1>1, <1>2, <1>3, <1>4, FinishShape

(* A request is taken up: the process holds no lock yet. *)
LEMMA RecvStep == ASSUME IndInv, NEW h \in Handlers, Recv(h) PROVE IndInv'
<1> USE ConstantsAssumption DEF Recv, At, Goto, Answer, files, shared, Inodes, NoInode, IndInv, TypeOK
<1>1. TypeOK'
  <2>1. PICK c \in Commands : cmd' = [cmd EXCEPT ![h] = c]
    BY DEF Recv
  <2>2. CASE Goto(h, "access") /\ UNCHANGED reply
    BY <2>1, <2>2 DEF Stages
  <2>3. CASE Goto(h, "exit") /\ Answer(h, "ERR")
    BY <2>1, <2>3 DEF Stages, Replies
  <2> QED BY <2>2, <2>3 DEF Recv
<1>2. InodesCreated'
  BY DEF InodesCreated
<1>3. LockCoversWork'
  BY DEF LockCoversWork, Locked
<1>4. LockChain'
  BY DEF LockChain, Held
<1>5. GameStays'
  BY DEF GameStays
<1>6. OneMove'
  BY DEF OneMove
<1>7. StoredAtUnlock'
  BY DEF StoredAtUnlock
<1>8. DrawsDiffer'
  BY DEF DrawsDiffer, Begins, EmptyFile
<1> QED BY <1>1, <1>2, <1>3, <1>4, <1>5, <1>6, <1>7, <1>8

(* access(2). *)
LEMMA AccessFileStep == ASSUME IndInv, NEW h \in Handlers, AccessFile(h) PROVE IndInv'
<1> USE ConstantsAssumption DEF AccessFile, At, Goto, Answer, files, shared, Inodes, NoInode, IndInv, TypeOK
<1>1. TypeOK'
  BY DEF Stages, Replies, Commands, UDPCommands, TCPCommands, GameType, EmptyFile
<1>2. InodesCreated'
  BY DEF InodesCreated
<1>3. LockCoversWork'
  BY DEF LockCoversWork, Locked
<1>4. LockChain'
  BY DEF LockChain, Held
<1>5. GameStays'
  BY DEF GameStays
<1>6. OneMove'
  BY DEF OneMove
<1>7. StoredAtUnlock'
  BY DEF StoredAtUnlock
<1>8. DrawsDiffer'
  BY DEF DrawsDiffer, Begins, EmptyFile
<1> QED BY <1>1, <1>2, <1>3, <1>4, <1>5, <1>6, <1>7, <1>8

(* open(2): whatever it opens is newer than what the process holds. *)
LEMMA OpenFileStep == ASSUME IndInv, NEW h \in Handlers, OpenFile(h) PROVE IndInv'
<1> USE ConstantsAssumption DEF OpenFile, At, Goto, Answer, files, shared, Inodes, NoInode, IndInv, TypeOK
<1>1. TypeOK'
  BY DEF Stages, Replies, Commands, UDPCommands, TCPCommands, GameType, EmptyFile
<1>2. InodesCreated'
  BY DEF InodesCreated
<1>3. LockCoversWork'
  BY DEF LockCoversWork, Locked
<1>4. LockChain'
  BY DEF LockChain, Held
<1>5. GameStays'
  BY DEF GameStays
<1>6. OneMove'
  BY DEF OneMove
<1>7. StoredAtUnlock'
  BY DEF StoredAtUnlock
<1>8. DrawsDiffer'
  BY DEF DrawsDiffer, Begins, EmptyFile
<1> QED BY <1>1, <1>2, <1>3, <1>4, <1>5, <1>6, <1>7, <1>8

(* fstat(2). *)
LEMMA StatFileStep == ASSUME IndInv, NEW h \in Handlers, StatFile(h) PROVE IndInv'
<1> USE ConstantsAssumption DEF StatFile, At, Goto, Answer, files, shared, Inodes, NoInode, IndInv, TypeOK
<1>1. TypeOK'
  BY DEF Stages, Replies, Commands, UDPCommands, TCPCommands, GameType, EmptyFile
<1>2. InodesCreated'
  BY DEF InodesCreated
<1>3. LockCoversWork'
  BY DEF LockCoversWork, Locked
<1>4. LockChain'
  BY DEF LockChain, Held
<1>5. GameStays'
  <2>1. CASE fd[h] = NoInode
    BY <2>1 DEF GameStays
  <2>2. CASE fd[h] # NoInode
    BY <2>2 DEF GameStays
  <2> QED BY <2>1, <2>2
<1>6. OneMove'
  BY DEF OneMove
<1>7. StoredAtUnlock'
  BY DEF StoredAtUnlock
<1>8. DrawsDiffer'
  BY DEF DrawsDiffer, Begins, EmptyFile
<1> QED BY <1>1, <1>2, <1>3, <1>4, <1>5, <1>6, <1>7, <1>8

(* open(2) with O_CREAT: a new inode is newer than all others. *)
LEMMA CreateFileStep == ASSUME IndInv, NEW h \in Handlers, CreateFile(h) PROVE IndInv'
<1> USE ConstantsAssumption DEF CreateFile, At, Goto, Answer, files, shared, Inodes, NoInode, IndInv, TypeOK
<1>1. TypeOK'
  BY DEF Stages, Replies, Commands, UDPCommands, TCPCommands, GameType, EmptyFile
<1>2. InodesCreated'
  BY DEF InodesCreated, LockCoversWork, Locked
<1>3. LockCoversWork'
  BY DEF LockCoversWork, Locked, InodesCreated
<1>4. LockChain'
  BY DEF LockChain, Held, LockCoversWork, Locked, InodesCreated
<1>5. GameStays'
  BY DEF GameStays, LockCoversWork, Locked, InodesCreated
<1>6. OneMove'
  BY DEF OneMove, LockCoversWork, Locked, InodesCreated
<1>7. StoredAtUnlock'
  BY DEF StoredAtUnlock, LockCoversWork, Locked, InodesCreated
<1>8. DrawsDiffer'
  BY DEF DrawsDiffer, Begins, EmptyFile, LockCoversWork, Locked, InodesCreated
<1> QED BY <1>1, <1>2, <1>3, <1>4, <1>5, <1>6, <1>7, <1>8

(* flock(2): the one step by which a handler starts to cover its work. *)
LEMMA LockFileStep == ASSUME IndInv, NEW h \in Handlers, LockFile(h) PROVE IndInv'
<1> USE ConstantsAssumption DEF LockFile, At, Goto, Answer, files, shared, Inodes, NoInode, IndInv, TypeOK
<1>1. TypeOK'
  BY DEF Stages, Replies, Commands, UDPCommands, TCPCommands, GameType, EmptyFile
<1>2. InodesCreated'
  BY DEF InodesCreated, LockCoversWork, Locked
<1>3. LockCoversWork'
  BY DEF LockCoversWork, Locked, InodesCreated
<1>4. LockChain'
  BY DEF LockChain, Held
<1>5. GameStays'
  BY DEF GameStays, LockCoversWork, Locked, InodesCreated
<1>6. OneMove'
  BY DEF OneMove, LockCoversWork, Locked, InodesCreated
<1>7. StoredAtUnlock'
  BY DEF StoredAtUnlock, LockCoversWork, Locked, InodesCreated
<1>8. DrawsDiffer'
  BY DEF DrawsDiffer, Begins, EmptyFile, LockCoversWork, Locked, InodesCreated
<1> QED BY <1>1, <1>2, <1>3, <1>4, <1>5, <1>6, <1>7, <1>8

(* flock(2) on a bad descriptor. *)
LEMMA LockFailsStep == ASSUME IndInv, NEW h \in Handlers, LockFails(h) PROVE IndInv'
<1> USE ConstantsAssumption DEF LockFails, At, Goto, Answer, files, shared, Inodes, NoInode, IndInv, TypeOK
<1>1. TypeOK'
  <2>1. CASE Answer(h, "ERR") /\ Goto(h, "exit")
    BY <2>1 DEF Stages, Replies
  <2>2. CASE Goto(h, "abort") /\ UNCHANGED reply
    BY <2>2 DEF Stages
  <2> QED BY <2>1, <2>2 DEF LockFails
<1>2. InodesCreated'
  BY DEF InodesCreated
<1>3. LockCoversWork'
  BY DEF LockCoversWork, Locked
<1>4. LockChain'
  BY DEF LockChain, Held
<1>5. GameStays'
  BY DEF GameStays
<1>6. OneMove'
  BY DEF OneMove
<1>7. StoredAtUnlock'
  BY DEF StoredAtUnlock
<1>8. DrawsDiffer'
  BY DEF DrawsDiffer, Begins, EmptyFile
<1> QED BY <1>1, <1>2, <1>3, <1>4, <1>5, <1>6, <1>7, <1>8

(* unlink(2): from here on the path names only newer inodes. *)
LEMMA RemoveFileStep == ASSUME IndInv, NEW h \in Handlers, RemoveFile(h) PROVE IndInv'
<1> USE ConstantsAssumption DEF RemoveFile, At, Goto, Answer, files, shared, Inodes, NoInode, IndInv, TypeOK
<1>1. TypeOK'
  BY DEF Stages, Replies, Commands, UDPCommands, TCPCommands, GameType, EmptyFile
<1>2. InodesCreated'
  BY DEF InodesCreated
<1>3. LockCoversWork'
  BY DEF LockCoversWork, Locked
<1>4. LockChain'
  BY DEF LockChain, Held
<1>5. GameStays'
  BY DEF GameStays
<1>6. OneMove'
  BY DEF OneMove
<1>7. StoredAtUnlock'
  BY DEF StoredAtUnlock
<1>8. DrawsDiffer'
  BY DEF DrawsDiffer, Begins, EmptyFile
<1> QED BY <1>1, <1>2, <1>3, <1>4, <1>5, <1>6, <1>7, <1>8

(* The second GameEmpty of GHL and STA. *)
LEMMA CheckEmptyStep == ASSUME IndInv, NEW h \in Handlers, CheckEmpty(h) PROVE IndInv'
<1> USE ConstantsAssumption DEF CheckEmpty, At, Goto, Answer, files, shared, Inodes, NoInode, IndInv, TypeOK
<1>1. TypeOK'
  BY DEF Stages, Replies, Commands, UDPCommands, TCPCommands, GameType, EmptyFile
<1>2. InodesCreated'
  BY DEF InodesCreated
<1>3. LockCoversWork'
  BY DEF LockCoversWork, Locked
<1>4. LockChain'
  BY DEF LockChain, Held
<1>5. GameStays'
  BY DEF GameStays, LockCoversWork, Locked
<1>6. OneMove'
  BY DEF OneMove
<1>7. StoredAtUnlock'
  BY DEF StoredAtUnlock
<1>8. DrawsDiffer'
  BY DEF DrawsDiffer, Begins, EmptyFile
<1> QED BY <1>1, <1>2, <1>3, <1>4, <1>5, <1>6, <1>7, <1>8

(* write(2): nobody else works on this inode, and the move is one of the game it holds. *)
LEMMA SerializeStep == ASSUME IndInv, NEW h \in Handlers, Serialize(h) PROVE IndInv'
<1> USE ConstantsAssumption DEF Serialize, At, Goto, Answer, files, shared, Inodes, NoInode, IndInv, TypeOK
<1>10. /\ fd[h] \in Inodes /\ owner[fd[h]] = h
      /\ content' = [content EXCEPT ![fd[h]] = mem[h]]
      /\ mem[h] \in Successors(IF exists[h] THEN content[fd[h]] ELSE FreshGame(mem[h].id))
      /\ UNCHANGED <<owner, fd, exists, mem, draws>>
  BY DEF LockCoversWork, Locked, OneMove, Inodes, NoInode
<1>11. mem[h] \in GameType /\ mem[h] # EmptyFile /\ (exists[h] => content[fd[h]] \in GameType)
  <2>1. CASE exists[h]
    <3>1. content[fd[h]] \in GameType
      BY <1>10, <2>1 DEF GameStays
    <3> QED BY <1>10, <2>1, <3>1, MoveKeepsGame
  <2>2. CASE ~ exists[h]
    <3>1. FreshGame(mem[h].id) \in GameType
      BY <2>2 DEF DrawsDiffer, Begins, FreshGame, GameType, EmptyFile, Running, Quit
    <3> QED BY <1>10, <2>2, <3>1, MoveKeepsGame
  <2> QED BY <2>1, <2>2
<1>1. TypeOK'
  BY DEF Stages, Replies, Commands, UDPCommands, TCPCommands, GameType, EmptyFile
<1>2. InodesCreated'
  BY DEF InodesCreated, LockCoversWork, Locked
<1>3. LockCoversWork'
  BY DEF LockCoversWork, Locked, InodesCreated
<1>4. LockChain'
  BY DEF LockChain, Held, LockCoversWork, Locked, InodesCreated
<1>5. GameStays'
  BY <1>10, <1>11 DEF GameStays, LockCoversWork, Locked
<1>6. OneMove'
  BY DEF OneMove, LockCoversWork, Locked, InodesCreated
<1>7. StoredAtUnlock'
  BY DEF StoredAtUnlock, LockCoversWork, Locked, InodesCreated, OneMove
<1>8. DrawsDiffer'
  <2>1. /\ \A i \in Inodes : content[i].id \in Nat
        /\ \A k \in Handlers : mem[k].id \in Nat
        /\ draws \in Nat
    BY DEF GameType, EmptyFile
  <2>2. \A i \in Inodes : content'[i] = IF i = fd[h] THEN mem[h] ELSE content[i]
    BY <1>10
  <2>3. \A k \in Handlers : Begins(k)' <=> (k # h /\ Begins(k))
    BY <1>10 DEF Begins
  <2> HIDE DEF Serialize, Goto, At
  <2>4. CASE exists[h]
    <3>1. mem[h].id = content[fd[h]].id
      BY <1>10, <1>11, <2>4, MoveKeepsGame
    <3>2. \A i \in Inodes : content'[i].id = content[i].id
      BY <2>2, <3>1
    <3> QED BY <1>10, <2>1, <2>3, <3>2 DEF DrawsDiffer
  <2>5. CASE ~ exists[h]
    <3>1. Begins(h)
      BY <2>5 DEF Begins, Serialize, At
    <3> QED BY <1>10, <2>1, <2>2, <2>3, <3>1 DEF DrawsDiffer
  <2> QED BY <2>4, <2>5
<1> QED BY <1>1, <1>2, <1>3, <1>4, <1>5, <1>6, <1>7, <1>8

(* The reply of QUT. *)
LEMMA QuitReplyStep == ASSUME IndInv, NEW h \in Handlers, QuitReply(h) PROVE IndInv'
<1> USE ConstantsAssumption DEF QuitReply, At, Goto, Answer, files, shared, Inodes, NoInode, IndInv, TypeOK
<1>1. TypeOK'
  BY DEF Stages, Replies, Commands, UDPCommands, TCPCommands, GameType, EmptyFile
<1>2. InodesCreated'
  BY DEF InodesCreated, LockCoversWork, Locked
<1>3. LockCoversWork'
  BY DEF LockCoversWork, Locked, InodesCreated
<1>4. LockChain'
  BY DEF LockChain, Held, LockCoversWork, Locked, InodesCreated
<1>5. GameStays'
  BY DEF GameStays, LockCoversWork, Locked, InodesCreated
<1>6. OneMove'
  BY DEF OneMove, LockCoversWork, Locked, InodesCreated
<1>7. StoredAtUnlock'
  BY DEF StoredAtUnlock, LockCoversWork, Locked, InodesCreated, OneMove
<1>8. DrawsDiffer'
  BY DEF DrawsDiffer, Begins, EmptyFile, LockCoversWork, Locked, InodesCreated
<1> QED BY <1>1, <1>2, <1>3, <1>4, <1>5, <1>6, <1>7, <1>8

(* GameRelease. *)
LEMMA ReleaseStep == ASSUME IndInv, NEW h \in Handlers, Release(h) PROVE IndInv'
<1> USE ConstantsAssumption DEF Release, At, Goto, Answer, files, shared, Inodes, NoInode, IndInv, TypeOK
<1>1. TypeOK'
  BY DEF Stages, Replies, Commands, UDPCommands, TCPCommands, GameType, EmptyFile
<1>2. InodesCreated'
  BY DEF InodesCreated, LockCoversWork, Locked
<1>3. LockCoversWork'
  BY DEF LockCoversWork, Locked, InodesCreated
<1>4. LockChain'
  BY DEF LockChain, Held, LockCoversWork, Locked, InodesCreated
<1>5. GameStays'
  BY DEF GameStays, LockCoversWork, Locked, InodesCreated
<1>6. OneMove'
  BY DEF OneMove, LockCoversWork, Locked, InodesCreated
<1>7. StoredAtUnlock'
  BY DEF StoredAtUnlock, LockCoversWork, Locked, InodesCreated
<1>8. DrawsDiffer'
  BY DEF DrawsDiffer, Begins, EmptyFile, LockCoversWork, Locked, InodesCreated
<1> QED BY <1>1, <1>2, <1>3, <1>4, <1>5, <1>6, <1>7, <1>8

(* The failure paths. *)
LEMMA AbortStep == ASSUME IndInv, NEW h \in Handlers, Abort(h) PROVE IndInv'
<1> USE ConstantsAssumption DEF Abort, At, Goto, Answer, files, shared, Inodes, NoInode, IndInv, TypeOK
<1>1. TypeOK'
  BY DEF Stages, Replies, Commands, UDPCommands, TCPCommands, GameType, EmptyFile
<1>2. InodesCreated'
  BY DEF InodesCreated, LockCoversWork, Locked
<1>3. LockCoversWork'
  <2>1. pc' = [pc EXCEPT ![h] = "exit"] /\ "exit" \notin Locked
    BY DEF Locked
  <2>2. CASE fd[h] # NoInode /\ owner' = [owner EXCEPT ![fd[h]] = None]
    <3>1. ASSUME NEW k \in Handlers, pc'[k] \in Locked PROVE fd'[k] # NoInode /\ owner'[fd'[k]] = k
      <4>1. k # h /\ pc[k] \in Locked
        BY <2>1, <3>1
      <4>2. fd[k] # NoInode /\ owner[fd[k]] = k /\ fd[k] \in Inodes
        BY <4>1 DEF LockCoversWork
      <4>3. CASE fd[k] = fd[h]
        BY <2>2, <4>1, <4>2, <4>3 DEF LockCoversWork
      <4> QED BY <2>2, <4>2, <4>3
    <3> QED BY <3>1 DEF LockCoversWork
  <2>3. CASE UNCHANGED owner
    BY <2>1, <2>3 DEF LockCoversWork
  <2> QED BY <2>2, <2>3 DEF Abort
<1>4. LockChain'
  <2>1. pc'[h] = "exit" /\ \A k \in Handlers : k # h => pc'[k] = pc[k]
    OBVIOUS
  <2>2. \A k \in Handlers : \A i \in Inodes : owner'[i] = k => owner[i] = k
    OBVIOUS
  <2>3. UNCHANGED <<path, fd>>
    OBVIOUS
  <2> QED BY <2>1, <2>2, <2>3 DEF LockChain, Held
<1>5. GameStays'
  BY DEF GameStays, LockCoversWork, Locked, InodesCreated
<1>6. OneMove'
  <2>1. pc'[h] = "exit" /\ \A k \in Handlers : k # h => pc'[k] = pc[k]
    OBVIOUS
  <2>2. UNCHANGED <<content, exists, fd, mem>>
    OBVIOUS
  <2> QED BY <2>1, <2>2 DEF OneMove
<1>7. StoredAtUnlock'
  BY DEF StoredAtUnlock, LockCoversWork, Locked, InodesCreated
<1>8. DrawsDiffer'
  BY DEF DrawsDiffer, Begins, EmptyFile, LockCoversWork, Locked, InodesCreated
<1> QED BY <1>1, <1>2, <1>3, <1>4, <1>5, <1>6, <1>7, <1>8

(* exit(3) and SIGINT. *)
LEMMA EndStep == ASSUME IndInv, NEW h \in Handlers, End(h) PROVE IndInv'
<1> USE ConstantsAssumption DEF End, Goto, Answer, files, Inodes, NoInode, IndInv, TypeOK
<1>1. TypeOK'
  BY DEF Stages, Replies, Commands, UDPCommands, TCPCommands, GameType, EmptyFile
<1>2. InodesCreated'
  BY DEF InodesCreated
<1>3. LockCoversWork'
  BY DEF LockCoversWork, Locked
<1>4. LockChain'
  BY DEF LockChain, Held
<1>5. GameStays'
  BY DEF GameStays
<1>6. OneMove'
  BY DEF OneMove
<1>7. StoredAtUnlock'
  BY DEF StoredAtUnlock
<1>8. DrawsDiffer'
  BY DEF DrawsDiffer, Begins, EmptyFile
<1> QED BY <1>1, <1>2, <1>3, <1>4, <1>5, <1>6, <1>7, <1>8

(* The invariant holds at the start, also with a file of an earlier run. *)
LEMMA InitIndInv == Init => IndInv
<1> SUFFICES ASSUME Init PROVE IndInv
  OBVIOUS
<1> USE ConstantsAssumption DEF Init, Inodes, NoInode
<1>1. PICK g \in GameType \union {EmptyFile} :
        /\ path \in {0, 1} /\ created = path /\ draws \in Nat
        /\ content = [i \in Inodes |-> IF i = 1 /\ path = 1 THEN g ELSE EmptyFile]
        /\ g.id <= draws \/ path = 0
  <2>1. CASE path = 0 /\ created = 0 /\ draws = 0 /\ content = [i \in Inodes |-> EmptyFile]
    BY <2>1
  <2>2. CASE \E g \in Leftover : /\ path = 1 /\ created = 1 /\ draws = g.id
                                  /\ content = [i \in Inodes |-> IF i = 1 THEN g ELSE EmptyFile]
    BY <2>2 DEF GameType, EmptyFile
  <2> QED BY <2>1, <2>2
<1>2. TypeOK
  BY <1>1 DEF TypeOK, Stages, Commands, UDPCommands, TCPCommands, Replies
<1>3. InodesCreated
  BY <1>1 DEF InodesCreated
<1>4. LockCoversWork /\ LockChain /\ GameStays /\ OneMove /\ StoredAtUnlock
  BY <1>1 DEF LockCoversWork, Locked, LockChain, Held, GameStays, OneMove, StoredAtUnlock
<1>5. DrawsDiffer
  BY <1>1 DEF DrawsDiffer, Begins, EmptyFile
<1> QED BY <1>2, <1>3, <1>4, <1>5 DEF IndInv

(* Nothing happens. *)
LEMMA StutterIndInv == IndInv /\ UNCHANGED vars => IndInv'
  BY DEF vars, IndInv, TypeOK, InodesCreated, LockCoversWork, LockChain, Held, GameStays, OneMove,
         StoredAtUnlock, DrawsDiffer, Begins

(* Every step keeps the invariant. *)
LEMMA NextIndInv == IndInv /\ [Next]_vars => IndInv'
<1> SUFFICES ASSUME IndInv, [Next]_vars PROVE IndInv'
  OBVIOUS
<1>1. CASE UNCHANGED vars
  BY <1>1, StutterIndInv
<1>2. CASE \E h \in Handlers : Recv(h) \/ Step(h) \/ Interrupt(h)
  <2>1. PICK h \in Handlers : Recv(h) \/ Step(h) \/ Interrupt(h)
    BY <1>2
  <2>2. CASE Recv(h)
    BY <2>2, RecvStep
  <2>3. CASE Acquire(h)
    BY <2>3, AccessFileStep, OpenFileStep, StatFileStep, CreateFileStep, LockFileStep, LockFailsStep
       DEF Acquire
  <2>4. CASE StartImpl(h) \/ QuitImpl(h) \/ ReportImpl(h)
    BY <2>4, StartImplShape, QuitImplShape, ReportImplShape, ImplShapeStep
  <2>5. CASE PlayImpl(h) \/ GuessImpl(h)
    BY <2>5, TrialImplShape, ImplShapeStep DEF PlayImpl, GuessImpl
  <2>6. CASE RemoveFile(h) \/ CheckEmpty(h)
    BY <2>6, RemoveFileStep, CheckEmptyStep
  <2>7. CASE Leave(h)
    BY <2>7, SerializeStep, QuitReplyStep, ReleaseStep, AbortStep, EndStep DEF Leave, Exit
  <2>8. CASE Interrupt(h)
    BY <2>8, EndStep DEF Interrupt
  <2> QED BY <2>1, <2>2, <2>3, <2>4, <2>5, <2>6, <2>7, <2>8 DEF Step, Impl
<1>3. CASE AllDone
  BY <1>3, StutterIndInv DEF AllDone
<1> QED BY <1>1, <1>2, <1>3 DEF Next

(* The inductive invariant holds in every reachable state. *)
THEOREM IndInvHolds == Spec => []IndInv
<1>1. Init => IndInv
  BY InitIndInv
<1>2. IndInv /\ [Next]_vars => IndInv'
  BY NextIndInv
<1> QED BY <1>1, <1>2, PTL DEF Spec

(* Every variable keeps its type: in particular GameUnregTrial never takes  *)
(* trials below zero, and no descriptor leaves the inodes.                  *)
THEOREM TypeCorrect == Spec => []TypeOK
<1>1. IndInv => TypeOK
  BY DEF IndInv
<1> QED BY <1>1, IndInvHolds, PTL

(* Between flock and GameRelease a handler owns the lock of its file.       *)
THEOREM LockSafety == Spec => []LockCoversWork
<1>1. IndInv => LockCoversWork
  BY DEF IndInv
<1> QED BY <1>1, IndInvHolds, PTL

(* A handler that holds a lock only waits for newer inodes: no circle.      *)
THEOREM LockOrderSafety == Spec => []LocksInOrder
<1>1. IndInv => LocksInOrder
  BY DEF IndInv, LockChain, LocksInOrder
<1> QED BY <1>1, IndInvHolds, PTL

(* No request overwrites the outcome of another one that it did not see.    *)
THEOREM LostUpdateSafety == Spec => []NoLostUpdate
<1>1. IndInv => NoLostUpdate
  BY DEF IndInv, OneMove, NoLostUpdate
<1> QED BY <1>1, IndInvHolds, PTL

(* StartGame never reads an empty file.                                     *)
THEOREM ReadSafety == Spec => []ReadFindsGame
<1>1. IndInv => ReadFindsGame
  BY DEF IndInv, GameStays, LockCoversWork, Locked, ReadFindsGame
<1> QED BY <1>1, IndInvHolds, PTL

(* Two handlers never work on the same file at the same time.               *)
THEOREM MutualExclusion ==
  Spec => [](\A h, k \in Handlers :
               pc[h] \in Locked /\ pc[k] \in Locked /\ fd[h] = fd[k] => h = k)
<1>1. LockCoversWork =>
        \A h, k \in Handlers : pc[h] \in Locked /\ pc[k] \in Locked /\ fd[h] = fd[k] => h = k
  BY DEF LockCoversWork
<1> QED BY <1>1, LockSafety, PTL

----------------------------------------------------------------------------
(* Each win is scored once *)

(* A game is in one file only, and one that was scored is over, or about   *)
(* to be written by the handler that scored it.                            *)
StoredOnce ==
  \A i, j \in Inodes : content[i].id = content[j].id /\ content[i].id # 0 => i = j

ScoredIsOver ==
  \A s \in scores :
    /\ s[1] <= draws
    /\ \A i \in Inodes : content[i].id = s[1] /\ content[i].fin = Running =>
         \E h \in Handlers : pc[h] = "serialize" /\ fd[h] = i
    /\ \A h \in Handlers : pc[h] = "serialize" /\ mem[h].id = s[1] => mem[h].fin # Running

ScoreInv == StoredOnce /\ ScoredIsOver /\ ScoredOnce

(* The parts of the state that ScoreInv reads, by their types. *)
LEMMA ScoreTypes ==
  ASSUME IndInv
  PROVE  /\ \A i \in Inodes : content[i] \in GameType \union {EmptyFile} /\ content[i].id \in Nat
         /\ \A i \in Inodes : content[i].id <= draws
         /\ \A s \in scores : s[1] \in Nat \ {0} /\ s[2] \in Handlers
         /\ draws \in Nat
         /\ \A h \in Handlers : pc[h] \in Locked => fd[h] \in Inodes /\ owner[fd[h]] = h
<1>1. \A i \in Inodes : content[i] \in GameType \union {EmptyFile}
  BY DEF IndInv, TypeOK
<1>2. \A i \in Inodes : content[i].id \in Nat
  BY <1>1 DEF GameType, EmptyFile
<1>3. \A h \in Handlers : pc[h] \in Locked => fd[h] \in Inodes /\ owner[fd[h]] = h
  BY DEF IndInv, TypeOK, LockCoversWork, Inodes, NoInode
<1> QED BY <1>1, <1>2, <1>3 DEF IndInv, TypeOK, DrawsDiffer

(* The start of the server. *)
LEMMA InitScore == Init => ScoreInv
<1> SUFFICES ASSUME Init PROVE ScoreInv
  OBVIOUS
<1>1. \E g : content = [i \in Inodes |-> IF i = 1 /\ path = 1 THEN g ELSE EmptyFile]
  <2>1. CASE path = NoInode /\ content = [i \in Inodes |-> EmptyFile]
    BY <2>1 DEF NoInode
  <2>2. CASE path = 1 /\ \E g \in Leftover : content = [i \in Inodes |-> IF i = 1 THEN g ELSE EmptyFile]
    BY <2>2
  <2> QED BY <2>1, <2>2 DEF Init
<1>2. \A i \in Inodes : i # 1 => content[i].id = 0
  BY <1>1 DEF EmptyFile
<1>3. StoredOnce
  BY <1>2 DEF StoredOnce
<1> QED BY <1>3 DEF Init, ScoreInv, ScoredIsOver, ScoredOnce

(* A step that neither scores nor writes nor is about to. *)
LEMMA QuietScore ==
  ASSUME IndInv, ScoreInv, NEW h \in Handlers, pc[h] # "serialize", pc'[h] # "serialize",
         \A k \in Handlers : k # h => pc'[k] = pc[k] /\ fd'[k] = fd[k] /\ mem'[k] = mem[k],
         UNCHANGED <<content, scores, draws>>
  PROVE  ScoreInv'
<1>1. \A k \in Handlers : pc[k] = "serialize" =>
        pc'[k] = "serialize" /\ fd'[k] = fd[k] /\ mem'[k] = mem[k]
  OBVIOUS
<1>2. \A k \in Handlers : pc'[k] = "serialize" =>
        pc[k] = "serialize" /\ fd'[k] = fd[k] /\ mem'[k] = mem[k]
  OBVIOUS
<1>3. ScoredIsOver'
  BY <1>1, <1>2 DEF ScoreInv, ScoredIsOver
<1> QED BY <1>3 DEF ScoreInv, StoredOnce, ScoredOnce

(* A handler at work never has a game that was scored and goes on: a game  *)
(* under way that was scored is about to be written by another handler,    *)
(* which holds the lock.                                                   *)
LEMMA ScoredNotAtWork ==
  ASSUME IndInv, ScoreInv, NEW h \in Handlers, pc[h] = "impl", Draw(h), NEW s \in scores,
         StartGame(h).id = s[1]
  PROVE  exists[h] /\ StartGame(h) = content[fd[h]] /\ StartGame(h).fin # Running
<1>1. /\ exists[h] => StartGame(h) = content[fd[h]]
      /\ ~ exists[h] => StartGame(h).id = draws + 1
  BY StartGameIsGame
<1>2. s[1] <= draws /\ s[1] \in Nat /\ draws \in Nat
  BY ScoreTypes DEF ScoreInv, ScoredIsOver
<1>3. exists[h]
  BY <1>1, <1>2
<1>4. fd[h] \in Inodes /\ owner[fd[h]] = h
  BY ScoreTypes DEF Locked
<1>5. ASSUME NEW k \in Handlers, pc[k] = "serialize" PROVE fd[k] # fd[h]
  <2>1. owner[fd[k]] = k
    BY <1>5, ScoreTypes DEF Locked
  <2> QED BY <1>4, <1>5, <2>1
<1> QED BY <1>1, <1>3, <1>4, <1>5 DEF ScoreInv, ScoredIsOver

(* A game that is over is not played on. *)
LEMMA OverStaysOver ==
  ASSUME NEW g, g.fin # Running, NEW m \in Successors(g)
  PROVE  m.fin # Running
  BY DEF Successors, QuitResult, Result, Moved, Running, Quit

(* A handler has done its work: it may have scored the game that it is     *)
(* about to write as won.                                                  *)
LEMMA ImplScore ==
  ASSUME IndInv, ScoreInv, NEW h \in Handlers, ImplShape(h),
         \/ scores' = scores
         \/ /\ scores' = scores \union {<<StartGame(h).id, h>>}
            /\ StartGame(h).fin = Running
            /\ pc'[h] = "serialize" /\ mem'[h].fin = Won
  PROVE  ScoreInv'
<1> DEFINE g == StartGame(h)
<1>1. PICK stage \in {"serialize", "unlock", "remove", "abort", "exit"}, m \in GameType :
       /\ pc' = [pc EXCEPT ![h] = stage]
       /\ mem' = [mem EXCEPT ![h] = m]
       /\ m.id = g.id
       /\ stage = "serialize" => m \in Successors(g)
  BY DEF ImplShape
<1>2. /\ pc[h] = "impl" /\ Draw(h) /\ content' = content /\ fd' = fd
      /\ draws \in Nat /\ draws' \in Nat /\ draws <= draws' /\ g.id <= draws' /\ g.id \in Nat
  <2>1. pc[h] = "impl" /\ Draw(h) /\ content' = content /\ fd' = fd
    BY DEF ImplShape
  <2>2. draws \in Nat /\ g.id <= draws' /\ g \in GameType
    BY <2>1, StartGameIsGame, ScoreTypes
  <2> QED BY <2>1, <2>2 DEF Draw, GameType
<1>3. /\ exists[h] => g = content[fd[h]]
      /\ ~ exists[h] => g.id = draws + 1
  BY <1>2, StartGameIsGame
<1>4. /\ pc'[h] = stage /\ mem'[h] = m
      /\ \A k \in Handlers : k # h => pc'[k] = pc[k] /\ mem'[k] = mem[k]
  BY <1>1 DEF IndInv, TypeOK
<1>5. \A s \in scores : g.id = s[1] => g.fin # Running
  BY <1>2, ScoredNotAtWork
<1>6. fd[h] \in Inodes /\ owner[fd[h]] = h
  BY <1>2, ScoreTypes DEF Locked
<1> HIDE DEF g
<1>7. StoredOnce'
  BY <1>2 DEF ScoreInv, StoredOnce
<1>8. \A s \in scores :
        /\ s[1] <= draws'
        /\ \A i \in Inodes : content'[i].id = s[1] /\ content'[i].fin = Running =>
             \E k \in Handlers : pc'[k] = "serialize" /\ fd'[k] = i
        /\ \A k \in Handlers : pc'[k] = "serialize" /\ mem'[k].id = s[1] => mem'[k].fin # Running
  <2> TAKE s \in scores
  <2>1. s[1] <= draws'
    BY <1>2, ScoreTypes DEF ScoreInv, ScoredIsOver
  <2>2. \A i \in Inodes : content'[i].id = s[1] /\ content'[i].fin = Running =>
          \E k \in Handlers : pc'[k] = "serialize" /\ fd'[k] = i
    <3> SUFFICES ASSUME NEW i \in Inodes, content[i].id = s[1], content[i].fin = Running
                 PROVE  \E k \in Handlers : pc'[k] = "serialize" /\ fd'[k] = i
      BY <1>2
    <3>1. PICK k \in Handlers : pc[k] = "serialize" /\ fd[k] = i
      BY DEF ScoreInv, ScoredIsOver
    <3>2. k # h
      BY <1>2, <3>1
    <3> QED BY <1>2, <1>4, <3>1, <3>2
  <2>3. ASSUME NEW k \in Handlers, pc'[k] = "serialize", mem'[k].id = s[1]
        PROVE  mem'[k].fin # Running
    <3>1. CASE k = h
      <4>1. mem'[k] \in Successors(g) /\ g.id = s[1]
        BY <1>1, <1>4, <2>3, <3>1
      <4> QED BY <1>5, <4>1, OverStaysOver
    <3>2. CASE k # h
      BY <1>4, <2>3, <3>2 DEF ScoreInv, ScoredIsOver
    <3> QED BY <3>1, <3>2
  <2> QED BY <2>1, <2>2, <2>3
<1>9. CASE scores' = scores
  BY <1>7, <1>8, <1>9 DEF ScoreInv, ScoredIsOver, ScoredOnce
<1>10. CASE /\ scores' = scores \union {<<g.id, h>>}
            /\ g.fin = Running
            /\ pc'[h] = "serialize" /\ mem'[h].fin = Won
  <2>1. \A s \in scores : s[1] # g.id
    BY <1>5, <1>10
  <2>2. ScoredOnce'
    BY <1>10, <2>1 DEF ScoreInv, ScoredOnce
  <2>3. ASSUME NEW i \in Inodes, content'[i].id = g.id, content'[i].fin = Running
        PROVE  \E k \in Handlers : pc'[k] = "serialize" /\ fd'[k] = i
    <3>1. content[i].id <= draws /\ content[i].id \in Nat /\ content[i].id = g.id
      BY <1>2, <2>3, ScoreTypes
    <3>2. exists[h]
      BY <1>2, <1>3, <3>1
    <3>3. content[fd[h]].id = g.id
      BY <1>3, <3>2
    <3>4. g.id # 0
      BY <1>1 DEF GameType
    <3>5. i = fd[h]
      BY <1>6, <3>1, <3>3, <3>4 DEF ScoreInv, StoredOnce
    <3> QED BY <1>2, <1>10, <3>5
  <2>4. ASSUME NEW k \in Handlers, pc'[k] = "serialize", mem'[k].id = g.id
        PROVE  mem'[k].fin # Running
    <3>1. CASE k = h
      BY <1>10, <3>1 DEF Won, Running
    <3>2. CASE k # h
      <4>1. pc[k] = "serialize" /\ mem[k].id = g.id
        BY <1>4, <2>4, <3>2
      <4>2. fd[k] \in Inodes /\ owner[fd[k]] = k
        BY <4>1, ScoreTypes DEF Locked
      <4>3. mem[k].id <= draws /\ mem[k].id \in Nat
        BY <1>2, <4>1 DEF IndInv, DrawsDiffer
      <4>4. exists[h] /\ content[fd[h]].id = g.id
        BY <1>2, <1>3, <4>1, <4>3
      <4>5. exists[k]
        BY <1>6, <4>1, <4>4 DEF IndInv, DrawsDiffer, Begins
      <4>6. content[fd[k]].id = g.id
        <5>1. mem[k] \in Successors(content[fd[k]])
          BY <4>1, <4>5 DEF IndInv, OneMove
        <5>2. content[fd[k]] \in GameType
          <6>1. content[fd[k]] # EmptyFile
            BY <4>1, <4>2, <4>5 DEF IndInv, GameStays, Inodes, NoInode
          <6> QED BY <4>2, <6>1, ScoreTypes
        <5> QED BY <4>1, <5>1, <5>2, MoveKeepsGame
      <4>7. g.id # 0
        BY <1>1 DEF GameType
      <4>8. fd[k] = fd[h]
        BY <1>6, <4>2, <4>4, <4>6, <4>7 DEF ScoreInv, StoredOnce
      <4> QED BY <1>6, <3>2, <4>2, <4>8
    <3> QED BY <3>1, <3>2
  <2>5. ScoredIsOver'
    <3> SUFFICES ASSUME NEW s \in scores'
                 PROVE  /\ s[1] <= draws'
                        /\ \A i \in Inodes : content'[i].id = s[1] /\ content'[i].fin = Running =>
                             \E k \in Handlers : pc'[k] = "serialize" /\ fd'[k] = i
                        /\ \A k \in Handlers :
                             pc'[k] = "serialize" /\ mem'[k].id = s[1] => mem'[k].fin # Running
      BY DEF ScoredIsOver
    <3>1. CASE s \in scores
      BY <1>8, <3>1
    <3>2. CASE s = <<g.id, h>>
      <4>1. s[1] = g.id
        BY <3>2
      <4> QED BY <1>2, <2>3, <2>4, <4>1
    <3> QED BY <1>10, <3>1, <3>2
  <2> QED BY <1>7, <2>2, <2>5 DEF ScoreInv
<1> QED BY <1>9, <1>10 DEF g

(* The file is written: a game that was scored is in it as won. *)
LEMMA SerializeScore ==
  ASSUME IndInv, ScoreInv, NEW h \in Handlers, Serialize(h)
  PROVE  ScoreInv'
<1>1. /\ pc[h] = "serialize" /\ pc'[h] # "serialize"
      /\ content' = [content EXCEPT ![fd[h]] = mem[h]]
      /\ \A k \in Handlers : k # h => pc'[k] = pc[k]
      /\ UNCHANGED <<draws, scores, fd, mem>>
  BY DEF Serialize, At, Goto, IndInv, TypeOK
<1>2. fd[h] \in Inodes /\ owner[fd[h]] = h
  BY <1>1, ScoreTypes DEF Locked
<1>3. \A i \in Inodes : content'[i] = IF i = fd[h] THEN mem[h] ELSE content[i]
  BY <1>1, <1>2 DEF IndInv, TypeOK
<1>4. CASE exists[h]
  <2>1. mem[h].id = content[fd[h]].id
    <3>1. content[fd[h]] # EmptyFile
      BY <1>1, <1>2, <1>4 DEF IndInv, GameStays, Inodes, NoInode
    <3>2. content[fd[h]] \in GameType
      BY <1>2, <3>1, ScoreTypes
    <3>3. mem[h] \in Successors(content[fd[h]])
      BY <1>1, <1>4 DEF IndInv, OneMove
    <3> QED BY <3>2, <3>3, MoveKeepsGame
  <2>2. StoredOnce'
    BY <1>2, <1>3, <2>1 DEF ScoreInv, StoredOnce
  <2>3. ASSUME NEW s \in scores, NEW i \in Inodes, content'[i].id = s[1], content'[i].fin = Running
        PROVE  \E k \in Handlers : pc'[k] = "serialize" /\ fd'[k] = i
    <3>1. i # fd[h]
      BY <1>1, <1>3, <2>3 DEF ScoreInv, ScoredIsOver
    <3>2. PICK k \in Handlers : pc[k] = "serialize" /\ fd[k] = i
      BY <1>3, <2>3, <3>1 DEF ScoreInv, ScoredIsOver
    <3> QED BY <1>1, <3>1, <3>2
  <2>4. ScoredIsOver'
    BY <1>1, <2>3 DEF ScoreInv, ScoredIsOver
  <2> QED BY <1>1, <2>2, <2>4 DEF ScoreInv, ScoredOnce
<1>5. CASE ~ exists[h]
  <2>1. Begins(h)
    BY <1>1, <1>5 DEF Begins
  <2>2. \A i \in Inodes : content[i].id # mem[h].id
    BY <2>1 DEF IndInv, DrawsDiffer
  <2>3. StoredOnce'
    BY <1>2, <1>3, <2>2 DEF ScoreInv, StoredOnce
  <2>4. ASSUME NEW s \in scores, NEW i \in Inodes, content'[i].id = s[1], content'[i].fin = Running
        PROVE  \E k \in Handlers : pc'[k] = "serialize" /\ fd'[k] = i
    <3>1. i # fd[h]
      BY <1>1, <1>3, <2>4 DEF ScoreInv, ScoredIsOver
    <3>2. PICK k \in Handlers : pc[k] = "serialize" /\ fd[k] = i
      BY <1>3, <2>4, <3>1 DEF ScoreInv, ScoredIsOver
    <3> QED BY <1>1, <3>1, <3>2
  <2>5. ScoredIsOver'
    BY <1>1, <2>4 DEF ScoreInv, ScoredIsOver
  <2> QED BY <1>1, <2>3, <2>5 DEF ScoreInv, ScoredOnce
<1> QED BY <1>4, <1>5

(* A letter or a word that wins is scored and, when the reply is sent, is  *)
(* about to be written as won.                                             *)
LEMMA TrialScore ==
  ASSUME ~ SendCanFail, IndInv, ScoreInv, NEW h \in Handlers, cmd[h] \in {"PLG", "PWG"}, TrialImpl(h)
  PROVE  ScoreInv'
<1> DEFINE g == StartGame(h)
<1>1. ImplShape(h)
  BY TrialImplShape
<1>2. CASE Reject(h)
  BY <1>1, <1>2, ImplScore DEF Reject
<1>3. ASSUME g.fin = Running,
             NEW r \in TrialResults(cmd[h], g),
             scores' = IF r.tok = "WIN" THEN scores \union {<<g.id, h>>} ELSE scores,
             Finish(h, r, "serialize", IF cmd[h] = "PLG" THEN "exit" ELSE "abort")
      PROVE  ScoreInv'
  <2>1. pc'[h] = "serialize" /\ mem'[h] = r.game
    BY <1>3 DEF Finish, Sent, Goto, IndInv, TypeOK
  <2>2. r.tok = "WIN" => r.game.fin = Won
    BY <1>3 DEF TrialResults, LetterResults, WordResults, Refused, Missed, Result, Moved
  <2>3. CASE r.tok = "WIN"
    <3>1. /\ scores' = scores \union {<<StartGame(h).id, h>>}
          /\ StartGame(h).fin = Running
          /\ pc'[h] = "serialize" /\ mem'[h].fin = Won
      BY <1>3, <2>1, <2>2, <2>3
    <3> QED BY <1>1, <3>1, ImplScore
  <2>4. CASE r.tok # "WIN"
    <3>1. scores' = scores
      BY <1>3, <2>4
    <3> QED BY <1>1, <3>1, ImplScore
  <2> QED BY <2>3, <2>4
<1> QED BY <1>2, <1>3 DEF TrialImpl

(* Every step, when no reply fails and no handler is interrupted. *)
LEMMA NextScore ==
  ASSUME ~ SendCanFail, ~ CanInterrupt, IndInv, ScoreInv, [Next]_vars
  PROVE  ScoreInv'
<1>1. CASE UNCHANGED vars
  BY <1>1 DEF vars, ScoreInv, StoredOnce, ScoredIsOver, ScoredOnce
<1>2. CASE AllDone
  BY <1>2 DEF AllDone, vars, ScoreInv, StoredOnce, ScoredIsOver, ScoredOnce
<1>3. ASSUME NEW h \in Handlers, Recv(h) \/ Step(h) \/ Interrupt(h)
      PROVE  ScoreInv'
  <2>1. pc \in [Handlers -> Stages] /\ fd \in [Handlers -> 0..MaxInodes]
        /\ mem \in [Handlers -> GameType \union {EmptyFile}]
    BY DEF IndInv, TypeOK
  <2>2. ASSUME NEW stage, pc[h] # "serialize", pc' = [pc EXCEPT ![h] = stage], stage # "serialize",
               \A k \in Handlers : k # h => fd'[k] = fd[k] /\ mem'[k] = mem[k],
               UNCHANGED <<content, scores, draws>>
        PROVE  ScoreInv'
    BY <2>1, <2>2, QuietScore
  <2>3. CASE Recv(h)
    BY <2>1, <2>2, <2>3 DEF Recv, At, Goto, shared
  <2>4. CASE AccessFile(h)
    BY <2>1, <2>2, <2>4 DEF AccessFile, At, Goto, shared
  <2>5. CASE OpenFile(h)
    BY <2>1, <2>2, <2>5 DEF OpenFile, At, Goto, shared
  <2>6. CASE StatFile(h)
    BY <2>1, <2>2, <2>6 DEF StatFile, At, Goto, shared
  <2>7. CASE CreateFile(h)
    BY <2>1, <2>2, <2>7 DEF CreateFile, At, Goto
  <2>8. CASE LockFile(h)
    BY <2>1, <2>2, <2>8 DEF LockFile, At, Goto, files
  <2>9. CASE LockFails(h)
    BY <2>1, <2>2, <2>9 DEF LockFails, At, Goto, shared
  <2>10. CASE RemoveFile(h)
    BY <2>1, <2>2, <2>10 DEF RemoveFile, At, Goto
  <2>11. CASE CheckEmpty(h)
    BY <2>1, <2>2, <2>11 DEF CheckEmpty, At, Goto, shared
  <2>12. CASE QuitReply(h)
    BY <2>1, <2>2, <2>12 DEF QuitReply, At, Goto, shared
  <2>13. CASE Release(h)
    BY <2>1, <2>2, <2>13 DEF Release, At, Goto, files
  <2>14. CASE Abort(h)
    BY <2>1, <2>2, <2>14 DEF Abort, At, Goto, files
  <2>15. CASE Exit(h)
    BY <2>1, <2>2, <2>15 DEF Exit, End, At, Goto, files
  <2>16. CASE StartImpl(h)
    BY <2>16, StartImplShape, ImplScore DEF StartImpl
  <2>17. CASE QuitImpl(h)
    BY <2>17, QuitImplShape, ImplScore DEF QuitImpl
  <2>18. CASE ReportImpl(h)
    BY <2>18, ReportImplShape, ImplScore DEF ReportImpl
  <2>19. CASE PlayImpl(h) \/ GuessImpl(h)
    BY <2>19, TrialScore DEF PlayImpl, GuessImpl
  <2>20. CASE Serialize(h)
    BY <2>20, SerializeScore
  <2>21. ~ Interrupt(h)
    BY DEF Interrupt
  <2> QED BY <1>3, <2>3, <2>4, <2>5, <2>6, <2>7, <2>8, <2>9, <2>10, <2>11, <2>12, <2>13, <2>14,
             <2>15, <2>16, <2>17, <2>18, <2>19, <2>20, <2>21 DEF Step, Acquire, Impl, Leave
<1> QED BY <1>1, <1>2, <1>3 DEF Next

(* A game enters the score table once, although save_score runs before the *)
(* reply and before the game is written, as long as no handler ends in     *)
(* between.                                                                *)
THEOREM WinsScoreOnce ==
  ASSUME ~ SendCanFail, ~ CanInterrupt
  PROVE  Spec => []ScoredOnce
<1>1. Init => IndInv /\ ScoreInv
  BY InitIndInv, InitScore
<1>2. IndInv /\ ScoreInv /\ [Next]_vars => IndInv' /\ ScoreInv'
  BY NextIndInv, NextScore
<1>3. ScoreInv => ScoredOnce
  BY DEF ScoreInv
<1> QED BY <1>1, <1>2, <1>3, PTL DEF Spec
----------------------------------------------------------------------------
(* An answer and what is in the file go together *)

(* Whom a handler has answered, by where it is: nobody before it has done  *)
(* its work; then the client, except for QUT, which writes first.  One that*)
(* exits with its lock has failed, or had nothing to write.                *)
AnswerOf(h) ==
  /\ pc[h] \notin {"serialize", "unlock", "exit"} => reply[h] = "none"
  /\ pc[h] = "empty" => cmd[h] \in TCPCommands
  /\ pc[h] = "serialize" => IF cmd[h] = "QUT" THEN reply[h] = "none" ELSE Accepted(h) /\ FileWasThere(h)
  /\ pc[h] = "exit" /\ fd[h] # NoInode /\ owner[fd[h]] = h => reply[h] = "ERR" \/ cmd[h] \in TCPCommands

AnswerInv == \A h \in Handlers : AnswerOf(h)

(* A step of one handler leaves the answers of the others as they are. *)
LEMMA AnswerOthers ==
  ASSUME TypeOK, AnswerInv, NEW h \in Handlers, AnswerOf(h)',
         NEW stage, pc' = [pc EXCEPT ![h] = stage],
         \A k \in Handlers : k # h =>
           /\ reply'[k] = reply[k] /\ cmd'[k] = cmd[k] /\ fd'[k] = fd[k] /\ found'[k] = found[k]
           /\ fd[k] # NoInode /\ owner'[fd[k]] = k => owner[fd[k]] = k
  PROVE  AnswerInv'
<1> SUFFICES ASSUME NEW k \in Handlers, k # h PROVE AnswerOf(k)'
  BY DEF AnswerInv
<1>1. pc'[k] = pc[k]
  BY DEF TypeOK
<1> QED BY <1>1 DEF AnswerInv, AnswerOf, Accepted, FileWasThere

(* A command that is done answers by Finish. *)
LEMMA AnswerFinish ==
  ASSUME TypeOK, AnswerInv, NEW h \in Handlers, pc[h] = "impl",
         NEW r, r.tok \in Replies \ {"none", "ERR"},
         NEW next \in {"serialize", "unlock"}, NEW failed \in {"abort", "exit"},
         Finish(h, r, next, failed), next = "serialize" => cmd[h] # "QUT" /\ FileWasThere(h),
         UNCHANGED <<owner, cmd, fd, found>>
  PROVE  AnswerInv'
<1>1. reply[h] = "none"
  BY DEF AnswerInv, AnswerOf
<1>2. PICK sent \in Sent :
        /\ Answer(h, IF sent THEN r.tok ELSE IF failed = "exit" THEN "ERR" ELSE reply[h])
        /\ Goto(h, IF sent THEN next ELSE failed)
  BY DEF Finish
<1>3. CASE sent
  <2>1. pc' = [pc EXCEPT ![h] = next] /\ reply' = [reply EXCEPT ![h] = r.tok]
    BY <1>2, <1>3 DEF Answer, Goto
  <2>2. pc'[h] = next /\ reply'[h] = r.tok /\ cmd'[h] = cmd[h] /\ \A k \in Handlers : k # h => reply'[k] = reply[k]
    BY <2>1 DEF TypeOK
  <2>3. AnswerOf(h)'
    BY <2>2 DEF AnswerOf, Accepted, FileWasThere
  <2> QED BY <2>1, <2>2, <2>3, AnswerOthers
<1>4. CASE ~ sent
  <2>1. pc' = [pc EXCEPT ![h] = failed]
        /\ reply' = [reply EXCEPT ![h] = IF failed = "exit" THEN "ERR" ELSE "none"]
    BY <1>1, <1>2, <1>4 DEF Answer, Goto
  <2>2. /\ pc'[h] = failed /\ reply'[h] = IF failed = "exit" THEN "ERR" ELSE "none"
        /\ \A k \in Handlers : k # h => reply'[k] = reply[k]
    BY <2>1 DEF TypeOK
  <2>3. AnswerOf(h)'
    BY <2>2 DEF AnswerOf
  <2> QED BY <2>1, <2>2, <2>3, AnswerOthers
<1> QED BY <1>3, <1>4

(* The results of the commands are answers, not errors. *)
LEMMA AcceptedResults ==
  ASSUME NEW g
  PROVE  /\ \A r \in LetterResults(g) \union WordResults(g) : r.tok \in Replies \ {"none", "ERR"}
         /\ StartResult(g).tok \in Replies \ {"none", "ERR"}
         /\ QuitResult(g).tok \in Replies \ {"none", "ERR"}
         /\ \A tok : Result(tok, g).tok = tok
  BY DEF LetterResults, WordResults, Refused, Missed, StartResult, QuitResult, Result, Replies

(* The commands. *)
LEMMA AnswerImpl ==
  ASSUME TypeOK, AnswerInv, NEW h \in Handlers, Impl(h)
  PROVE  AnswerInv'
<1>0. \A k \in Handlers : pc[k] = "impl" \/ pc[k] = "remove" \/ pc[k] = "empty" => reply[k] = "none"
  BY DEF AnswerInv, AnswerOf
<1>1. ASSUME NEW stage \in {"impl", "remove", "access", "abort", "serialize"},
             pc[h] \in {"impl", "remove", "empty"}, stage = "serialize" => cmd[h] = "QUT",
             Goto(h, stage), UNCHANGED <<owner, cmd, fd, found, reply>>
      PROVE  AnswerInv'
  <2>1. pc' = [pc EXCEPT ![h] = stage] /\ pc'[h] = stage
    BY <1>1 DEF Goto, TypeOK
  <2>2. AnswerOf(h)'
    BY <1>0, <1>1, <2>1 DEF AnswerOf
  <2> QED BY <1>1, <2>1, <2>2, AnswerOthers
<1>2. ASSUME NEW tok, tok = "ERR" \/ cmd[h] \in TCPCommands,
             Goto(h, "exit"), Answer(h, tok), UNCHANGED <<owner, cmd, fd, found>>
      PROVE  AnswerInv'
  <2>1. pc' = [pc EXCEPT ![h] = "exit"] /\ pc'[h] = "exit" /\ reply'[h] = tok
        /\ \A k \in Handlers : k # h => reply'[k] = reply[k]
    BY <1>2 DEF Goto, Answer, TypeOK
  <2>2. AnswerOf(h)'
    BY <1>2, <2>1 DEF AnswerOf
  <2> QED BY <1>2, <2>1, <2>2, AnswerOthers
<1>3. CASE StartImpl(h)
  <2>1. CASE Finish(h, StartResult(StartGame(h)), "serialize", "abort")
    <3>1. pc[h] = "impl" /\ cmd[h] = "SNG" /\ UNCHANGED <<owner, cmd, fd, found>>
      BY <1>3 DEF StartImpl, At
    <3>2. FileWasThere(h)
      BY <3>1 DEF FileWasThere
    <3> QED BY <2>1, <3>1, <3>2, AnswerFinish, AcceptedResults
  <2>2. CASE Goto(h, "remove") /\ UNCHANGED reply
    BY <1>1, <1>3, <2>2 DEF StartImpl, At
  <2> QED BY <1>3, <2>1, <2>2 DEF StartImpl
<1>4. CASE RemoveFile(h)
  BY <1>1, <1>4 DEF RemoveFile, At
<1>5. CASE PlayImpl(h) \/ GuessImpl(h)
  <2>1. TrialImpl(h) /\ cmd[h] \in {"PLG", "PWG"} /\ pc[h] = "impl" /\ UNCHANGED <<owner, cmd, fd, found>>
    BY <1>5 DEF PlayImpl, GuessImpl, TrialImpl, At
  <2>2. CASE Reject(h)
    BY <1>1, <1>2, <2>1, <2>2 DEF Reject
  <2>3. ASSUME NEW r \in TrialResults(cmd[h], StartGame(h)), found[h],
               Finish(h, r, "serialize", IF cmd[h] = "PLG" THEN "exit" ELSE "abort")
        PROVE  AnswerInv'
    <3>1. r.tok \in Replies \ {"none", "ERR"}
      BY AcceptedResults DEF TrialResults
    <3>2. cmd[h] # "QUT" /\ FileWasThere(h)
      BY <2>1, <2>3 DEF FileWasThere
    <3> DEFINE failed == IF cmd[h] = "PLG" THEN "exit" ELSE "abort"
    <3>3. failed \in {"abort", "exit"} /\ Finish(h, r, "serialize", failed)
      BY <2>3
    <3> HIDE DEF failed
    <3> QED BY <2>1, <3>1, <3>2, <3>3, AnswerFinish
  <2> QED BY <2>1, <2>2, <2>3 DEF TrialImpl
<1>6. CASE QuitImpl(h)
  <2>1. pc[h] = "impl" /\ cmd[h] = "QUT" /\ UNCHANGED <<owner, cmd, fd, found>>
    BY <1>6 DEF QuitImpl, At
  <2>2. CASE Finish(h, Result("NOK", StartGame(h)), "unlock", "abort")
    <3>1. Result("NOK", StartGame(h)).tok \in Replies \ {"none", "ERR"}
      BY AcceptedResults DEF Replies
    <3> QED BY <2>1, <2>2, <3>1, AnswerFinish
  <2>3. CASE Goto(h, "serialize") /\ UNCHANGED reply
    BY <1>1, <2>1, <2>3
  <2> QED BY <1>6, <2>2, <2>3 DEF QuitImpl
<1>7. CASE CheckEmpty(h)
  <2>1. pc[h] = "empty" /\ cmd[h] \in TCPCommands /\ UNCHANGED <<owner, cmd, fd, found>>
    BY <1>7 DEF CheckEmpty, At, shared, AnswerInv, AnswerOf
  <2>2. CASE Answer(h, "NOK") /\ Goto(h, "exit")
    BY <1>2, <2>1, <2>2
  <2>3. CASE Goto(h, "impl") /\ UNCHANGED reply
    BY <1>1, <2>1, <2>3
  <2> QED BY <1>7, <2>2, <2>3 DEF CheckEmpty
<1>8. CASE ReportImpl(h)
  <2>1. pc[h] = "impl" /\ cmd[h] \in {"GHL", "STA"} /\ UNCHANGED <<owner, cmd, fd, found>>
    BY <1>8 DEF ReportImpl, At
  <2>2. Result("OK", StartGame(h)).tok \in Replies \ {"none", "ERR"}
    BY AcceptedResults DEF Replies
  <2> DEFINE failed == IF cmd[h] = "GHL" THEN "exit" ELSE "abort"
  <2>3. failed \in {"abort", "exit"} /\ Finish(h, Result("OK", StartGame(h)), "unlock", failed)
    BY <1>8 DEF ReportImpl
  <2> HIDE DEF failed
  <2> QED BY <2>1, <2>2, <2>3, AnswerFinish
<1> QED BY <1>3, <1>4, <1>5, <1>6, <1>7, <1>8 DEF Impl

(* Looking for the file and locking it. *)
LEMMA AnswerAcquire ==
  ASSUME TypeOK, AnswerInv, NEW h \in Handlers, Recv(h) \/ Acquire(h)
  PROVE  AnswerInv'
<1>1. ASSUME NEW stage \in {"access", "open", "stat", "create", "lock", "abort"},
             pc[h] \notin {"serialize", "unlock", "exit"}, pc' = [pc EXCEPT ![h] = stage],
             \A k \in Handlers : k # h =>
               cmd'[k] = cmd[k] /\ fd'[k] = fd[k] /\ found'[k] = found[k] /\ (fd[k] # NoInode /\ owner'[fd[k]] = k => owner[fd[k]] = k),
             UNCHANGED reply
      PROVE  AnswerInv'
  <2>1. pc'[h] = stage /\ reply'[h] = "none"
    BY <1>1 DEF TypeOK, AnswerInv, AnswerOf
  <2>2. AnswerOf(h)'
    BY <2>1 DEF AnswerOf
  <2> QED BY <1>1, <2>2, AnswerOthers
<1>2. CASE Recv(h)
  <2>1. /\ pc[h] = "idle" /\ UNCHANGED <<owner, fd>>
        /\ \A k \in Handlers : k # h => cmd'[k] = cmd[k] /\ found'[k] = found[k]
    BY <1>2 DEF Recv, At, shared, TypeOK
  <2>2. CASE Goto(h, "access") /\ UNCHANGED reply
    BY <1>1, <2>1, <2>2 DEF Goto
  <2>3. CASE Goto(h, "exit") /\ Answer(h, "ERR")
    <3>1. /\ pc' = [pc EXCEPT ![h] = "exit"] /\ pc'[h] = "exit" /\ reply'[h] = "ERR"
          /\ \A k \in Handlers : k # h => reply'[k] = reply[k]
      BY <2>3 DEF Goto, Answer, TypeOK
    <3>2. AnswerOf(h)'
      BY <3>1 DEF AnswerOf
    <3> QED BY <2>1, <3>1, <3>2, AnswerOthers
  <2> QED BY <1>2, <2>2, <2>3 DEF Recv
<1>3. CASE AccessFile(h)
  <2>1. CASE path # NoInode
    BY <1>1, <1>3, <2>1 DEF AccessFile, At, Goto, shared, TypeOK
  <2>2. CASE path = NoInode
    BY <1>1, <1>3, <2>2 DEF AccessFile, At, Goto, shared, TypeOK
  <2> QED BY <2>1, <2>2
<1>4. CASE OpenFile(h)
  BY <1>1, <1>4 DEF OpenFile, At, Goto, shared, TypeOK
<1>5. CASE StatFile(h)
  BY <1>1, <1>5 DEF StatFile, At, Goto, shared
<1>6. CASE CreateFile(h)
  BY <1>1, <1>6 DEF CreateFile, At, Goto, TypeOK
<1>7. CASE LockFile(h)
  <2> DEFINE stage == IF cmd[h] \in TCPCommands THEN "empty" ELSE "impl"
  <2>1. /\ pc[h] = "lock" /\ fd[h] # NoInode /\ pc' = [pc EXCEPT ![h] = stage]
        /\ owner' = [owner EXCEPT ![fd[h]] = h] /\ UNCHANGED <<cmd, fd, found, reply>>
    BY <1>7 DEF LockFile, At, Goto, TCPCommands
  <2>2. \A k \in Handlers : k # h /\ fd[k] # NoInode /\ owner'[fd[k]] = k => owner[fd[k]] = k
    <3>1. \A k \in Handlers : fd[k] # NoInode => fd[k] \in Inodes
      BY DEF TypeOK, Inodes, NoInode
    <3> QED BY <2>1, <3>1 DEF TypeOK
  <2>3. pc'[h] = stage /\ reply'[h] = "none" /\ cmd'[h] = cmd[h]
    BY <2>1 DEF TypeOK, AnswerInv, AnswerOf
  <2>4. AnswerOf(h)'
    BY <2>3 DEF AnswerOf
  <2> QED BY <2>1, <2>2, <2>4, AnswerOthers
<1>8. CASE LockFails(h)
  <2>1. pc[h] = "lock" /\ fd[h] = NoInode /\ UNCHANGED <<owner, cmd, fd, found>>
    BY <1>8 DEF LockFails, At, shared
  <2>2. CASE Answer(h, "ERR") /\ Goto(h, "exit")
    <3>1. /\ pc' = [pc EXCEPT ![h] = "exit"] /\ pc'[h] = "exit" /\ reply'[h] = "ERR"
          /\ \A k \in Handlers : k # h => reply'[k] = reply[k]
      BY <2>2 DEF Goto, Answer, TypeOK
    <3>2. AnswerOf(h)'
      BY <3>1 DEF AnswerOf
    <3> QED BY <2>1, <3>1, <3>2, AnswerOthers
  <2>3. CASE Goto(h, "abort") /\ UNCHANGED reply
    BY <1>1, <2>1, <2>3 DEF Goto
  <2> QED BY <1>8, <2>2, <2>3 DEF LockFails
<1> QED BY <1>2, <1>3, <1>4, <1>5, <1>6, <1>7, <1>8 DEF Acquire

(* Writing back and leaving. *)
LEMMA AnswerLeave ==
  ASSUME IndInv, AnswerInv, NEW h \in Handlers, Leave(h) \/ Interrupt(h)
  PROVE  AnswerInv'
<1>0. TypeOK /\ AnswerOf(h) /\ \A k \in Handlers : fd[k] # NoInode => fd[k] \in Inodes
  BY DEF IndInv, TypeOK, AnswerInv, Inodes, NoInode
<1>1. CASE Serialize(h)
  <2> DEFINE stage == IF cmd[h] = "QUT" THEN "reply" ELSE "unlock"
  <2>1. pc[h] = "serialize" /\ pc' = [pc EXCEPT ![h] = stage] /\ UNCHANGED <<owner, cmd, fd, found, reply>>
    BY <1>1 DEF Serialize, At, Goto
  <2>2. pc'[h] = stage
    BY <1>0, <2>1 DEF TypeOK
  <2>3. AnswerOf(h)'
    BY <1>0, <2>1, <2>2 DEF AnswerOf
  <2> QED BY <1>0, <2>1, <2>3, AnswerOthers
<1>2. CASE QuitReply(h)
  <2>1. pc[h] = "reply" /\ reply[h] = "none" /\ UNCHANGED <<owner, cmd, fd, found>>
    BY <1>0, <1>2 DEF QuitReply, At, shared, AnswerOf
  <2>2. PICK sent \in Sent : /\ Answer(h, IF sent THEN "OK" ELSE reply[h])
                             /\ Goto(h, IF sent THEN "unlock" ELSE "abort")
    BY <1>2 DEF QuitReply
  <2>3. /\ pc' = [pc EXCEPT ![h] = IF sent THEN "unlock" ELSE "abort"]
        /\ reply' = [reply EXCEPT ![h] = IF sent THEN "OK" ELSE "none"]
    BY <2>1, <2>2 DEF Goto, Answer
  <2>4. /\ pc'[h] = IF sent THEN "unlock" ELSE "abort"
        /\ reply'[h] = IF sent THEN "OK" ELSE "none"
        /\ \A k \in Handlers : k # h => reply'[k] = reply[k]
    BY <1>0, <2>3 DEF TypeOK
  <2>5. AnswerOf(h)'
    BY <2>4 DEF AnswerOf
  <2> QED BY <1>0, <2>1, <2>3, <2>4, <2>5, AnswerOthers
<1>3. CASE Release(h)
  <2>1. /\ pc[h] = "unlock" /\ pc' = [pc EXCEPT ![h] = "exit"]
        /\ owner' = [owner EXCEPT ![fd[h]] = None] /\ UNCHANGED <<cmd, fd, found, reply>>
    BY <1>3 DEF Release, At, Goto, files
  <2>2. pc'[h] = "exit" /\ fd[h] \in Inodes
    BY <1>0, <2>1 DEF TypeOK, IndInv, LockCoversWork, Locked
  <2>3. \A i \in Inodes : owner'[i] = IF i = fd[h] THEN None ELSE owner[i]
    BY <1>0, <2>1 DEF TypeOK
  <2>4. AnswerOf(h)'
    BY <2>1, <2>2, <2>3, ConstantsAssumption DEF AnswerOf
  <2>5. \A k \in Handlers : fd[k] # NoInode /\ owner'[fd[k]] = k => owner[fd[k]] = k
    BY <1>0, <2>3, ConstantsAssumption
  <2> QED BY <1>0, <2>1, <2>4, <2>5, AnswerOthers
<1>4. CASE Abort(h)
  <2>1. /\ pc[h] = "abort" /\ pc' = [pc EXCEPT ![h] = "exit"] /\ UNCHANGED <<cmd, fd, found>>
        /\ pc'[h] = "exit"
    BY <1>0, <1>4 DEF Abort, At, Goto, TypeOK
  <2>2. CASE fd[h] # NoInode /\ owner' = [owner EXCEPT ![fd[h]] = None] /\ Answer(h, "ERR")
    <3>1. \A i \in Inodes : owner'[i] = IF i = fd[h] THEN None ELSE owner[i]
      BY <1>0, <2>2 DEF TypeOK
    <3>2. reply'[h] = "ERR" /\ \A k \in Handlers : k # h => reply'[k] = reply[k]
      BY <1>0, <2>2 DEF Answer, TypeOK
    <3>3. \A k \in Handlers : fd[k] # NoInode /\ owner'[fd[k]] = k => owner[fd[k]] = k
      BY <1>0, <3>1, ConstantsAssumption
    <3>4. AnswerOf(h)'
      BY <2>1, <3>2 DEF AnswerOf
    <3> QED BY <1>0, <2>1, <3>2, <3>3, <3>4, AnswerOthers
  <2>3. CASE fd[h] = NoInode /\ UNCHANGED <<owner, reply>>
    <3>1. AnswerOf(h)'
      BY <2>1, <2>3 DEF AnswerOf
    <3> QED BY <1>0, <2>1, <2>3, <3>1, AnswerOthers
  <2> QED BY <1>4, <2>2, <2>3 DEF Abort
<1>5. CASE End(h)
  <2>1. pc' = [pc EXCEPT ![h] = "done"] /\ pc'[h] = "done" /\ reply'[h] = "none"
    BY <1>0, <1>5 DEF End, Goto, Answer, TypeOK
  <2>2. \A k \in Handlers : k # h => reply'[k] = reply[k] /\ cmd'[k] = cmd[k] /\ fd'[k] = fd[k] /\ found'[k] = found[k]
    BY <1>0, <1>5 DEF End, Answer, TypeOK
  <2>3. \A i \in Inodes : owner'[i] = IF owner[i] = h THEN None ELSE owner[i]
    BY <1>5 DEF End
  <2>4. \A k \in Handlers : fd[k] # NoInode /\ owner'[fd[k]] = k => owner[fd[k]] = k
    BY <1>0, <2>3, ConstantsAssumption
  <2>5. AnswerOf(h)'
    BY <2>1 DEF AnswerOf
  <2> QED BY <1>0, <2>1, <2>2, <2>4, <2>5, AnswerOthers
<1> QED BY <1>1, <1>2, <1>3, <1>4, <1>5 DEF Leave, Exit, Interrupt

(* Every step. *)
LEMMA NextAnswer == IndInv /\ AnswerInv /\ [Next]_vars => AnswerInv'
<1> SUFFICES ASSUME IndInv, AnswerInv, [Next]_vars PROVE AnswerInv'
  OBVIOUS
<1>1. CASE UNCHANGED vars \/ AllDone
  BY <1>1 DEF AllDone, vars, AnswerInv, AnswerOf, Accepted, FileWasThere
<1>2. ASSUME NEW h \in Handlers, Recv(h) \/ Step(h) \/ Interrupt(h)
      PROVE  AnswerInv'
  BY <1>2, AnswerAcquire, AnswerImpl, AnswerLeave DEF Step, IndInv
<1> QED BY <1>1, <1>2 DEF Next

(* No handler has answered at the start. *)
LEMMA InitAnswer == Init => AnswerInv
  BY DEF Init, AnswerInv, AnswerOf

(* What one step may do to the file of a handler that holds its lock. *)
AnswerStep(h) ==
  (fd[h] # NoInode /\ owner[fd[h]] = h) =>
    /\ content'[fd[h]] # content[fd[h]] => cmd[h] = "QUT" \/ (Accepted(h) /\ FileWasThere(h))
    /\ (owner'[fd[h]] # h /\ Promised(h)) => content[fd[h]] = mem[h] \/ CutOff(h)

(* The file of a handler that holds its lock is written by nobody else. *)
LEMMA WriterAnswered ==
  ASSUME IndInv, AnswerInv, NEW h \in Handlers, fd[h] # NoInode, owner[fd[h]] = h,
         NEW k \in Handlers, Recv(k) \/ Step(k) \/ Interrupt(k), content'[fd[h]] # content[fd[h]]
  PROVE  cmd[h] = "QUT" \/ (Accepted(h) /\ FileWasThere(h))
<1>1. Serialize(k)
  BY DEF Recv, Step, Interrupt, Acquire, AccessFile, OpenFile, StatFile, CreateFile, LockFile, LockFails,
         Impl, StartImpl, RemoveFile, PlayImpl, GuessImpl, TrialImpl, QuitImpl, CheckEmpty, ReportImpl,
         Leave, QuitReply, Release, Abort, Exit, End, files, shared
<1>2. pc[k] = "serialize" /\ content' = [content EXCEPT ![fd[k]] = mem[k]]
  BY <1>1 DEF Serialize, At
<1>3. fd[k] = fd[h]
  BY <1>2
<1>4. owner[fd[k]] = k
  BY <1>2 DEF IndInv, LockCoversWork, Locked
<1>5. k = h
  BY <1>3, <1>4
<1> QED BY <1>2, <1>5 DEF AnswerInv, AnswerOf

(* The lock of a handler that made a promise is given back by itself. *)
LEMMA ReleaserStored ==
  ASSUME IndInv, AnswerInv, NEW h \in Handlers, fd[h] # NoInode, owner[fd[h]] = h, Promised(h),
         NEW k \in Handlers, Recv(k) \/ Step(k) \/ Interrupt(k), owner'[fd[h]] # h
  PROVE  content[fd[h]] = mem[h] \/ CutOff(h)
<1>1. /\ fd[h] \in Inodes /\ h # None /\ \A i \in Inodes : owner[i] \in Handlers \union {None}
      /\ pc[h] \in {"serialize", "unlock", "exit"} /\ reply[h] \notin {"none", "ERR"}
      /\ cmd[h] \notin TCPCommands
  BY ConstantsAssumption
     DEF IndInv, TypeOK, Inodes, NoInode, AnswerInv, AnswerOf, Promised, Accepted, TCPCommands
<1>2. pc[h] # "exit"
  BY <1>1 DEF AnswerInv, AnswerOf
<1>3. ASSUME pc[h] = "unlock" PROVE content[fd[h]] = mem[h]
  BY <1>3 DEF IndInv, StoredAtUnlock, Promised
<1>4. LockFile(k) \/ Release(k) \/ Abort(k) \/ End(k)
  BY DEF Recv, Step, Interrupt, Acquire, AccessFile, OpenFile, StatFile, CreateFile, LockFails,
         Impl, StartImpl, RemoveFile, PlayImpl, GuessImpl, TrialImpl, QuitImpl, CheckEmpty, ReportImpl,
         Leave, Serialize, QuitReply, Exit, shared
<1>5. CASE LockFile(k)
  <2>1. owner[fd[k]] = None /\ owner' = [owner EXCEPT ![fd[k]] = k]
    BY <1>5 DEF LockFile
  <2>2. fd[k] # fd[h]
    BY <1>1, <2>1
  <2> QED BY <2>1, <2>2
<1>6. CASE Release(k)
  <2>1. pc[k] = "unlock" /\ owner' = [owner EXCEPT ![fd[k]] = None]
    BY <1>6 DEF Release, At
  <2>2. fd[k] = fd[h] /\ owner[fd[k]] = k
    BY <2>1 DEF IndInv, LockCoversWork, Locked
  <2> QED BY <1>3, <2>1, <2>2
<1>7. CASE Abort(k)
  <2>1. pc[k] = "abort" /\ fd[k] # NoInode /\ owner' = [owner EXCEPT ![fd[k]] = None]
    BY <1>7 DEF Abort, At
  <2>2. fd[k] = fd[h] /\ owner[fd[k]] = k
    BY <2>1 DEF IndInv, LockCoversWork
  <2> QED BY <1>1, <2>1, <2>2
<1>8. CASE End(k)
  <2>1. pc' = [pc EXCEPT ![k] = "done"] /\ owner'[fd[h]] = IF owner[fd[h]] = k THEN None ELSE owner[fd[h]]
    BY <1>1, <1>8 DEF End, Goto
  <2>2. k = h
    BY <2>1
  <2>3. pc'[h] = "done"
    BY <2>1, <2>2 DEF IndInv, TypeOK
  <2> QED BY <1>1, <1>2, <1>3, <2>3 DEF CutOff
<1> QED BY <1>4, <1>5, <1>6, <1>7, <1>8

(* AnsweredIsStored: a handler changes the file only for a request that it *)
(* accepted, or to quit, and for a letter or a word only when there was a  *)
(* file before; and the lock of a request whose client was told   *)
(* that it is done is only given back with its outcome in the file, unless *)
(* SIGINT comes between the answer and the write.                          *)
THEOREM AnswerSafety == Spec => AnsweredIsStored
<1>1. IndInv /\ AnswerInv /\ [Next]_vars => [\A h \in Handlers : AnswerStep(h)]_vars
  <2> SUFFICES ASSUME IndInv, AnswerInv, Next, NEW h \in Handlers PROVE AnswerStep(h) \/ UNCHANGED vars
    OBVIOUS
  <2>1. CASE AllDone
    BY <2>1 DEF AllDone
  <2>2. ASSUME NEW k \in Handlers, Recv(k) \/ Step(k) \/ Interrupt(k) PROVE AnswerStep(h)
    BY <2>2, WriterAnswered, ReleaserStored DEF AnswerStep
  <2> QED BY <2>1, <2>2 DEF Next
<1>2. Init => IndInv /\ AnswerInv
  BY InitIndInv, InitAnswer
<1>3. IndInv /\ AnswerInv /\ [Next]_vars => IndInv' /\ AnswerInv'
  BY NextIndInv, NextAnswer
<1>4. Spec => [][\A h \in Handlers : AnswerStep(h)]_vars
  BY <1>1, <1>2, <1>3, PTL DEF Spec
<1> QED BY <1>4 DEF AnsweredIsStored, AnswerStep
=============================================================================
