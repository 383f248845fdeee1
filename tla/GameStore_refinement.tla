------------------------ MODULE GameStore_refinement ------------------------
(***************************************************************************)
(* GameStore implements GameFile: whatever the handlers do to the player's *)
(* files is what requests that take one step each would do.  Only three of *)
(* their actions touch the files; all others are stutters of GameFile.     *)
(***************************************************************************)
EXTENDS GameStore_proofs

(* The vocabulary of GameOutcome, as GameFile sees it. *)
LEMMA SameOutcomes ==
  /\ GameFile!EmptyFile = EmptyFile
  /\ GameFile!Running = Running
  /\ \A n : GameFile!FreshGame(n) = FreshGame(n)
  /\ \A g : GameFile!Successors(g) = Successors(g)
  BY DEF GameFile!EmptyFile, EmptyFile, GameFile!Running, Running, GameFile!FreshGame, FreshGame,
         GameFile!Successors, Successors, GameFile!QuitResult, QuitResult,
         GameFile!StartResult, StartResult, GameFile!LetterResults, LetterResults,
         GameFile!WordResults, WordResults, GameFile!Refused, Refused, GameFile!Missed, Missed,
         GameFile!Counted, Counted, GameFile!Uncounted, Uncounted, GameFile!Moved, Moved,
         GameFile!Result, Result, GameFile!Won, Won, GameFile!Lost, Lost, GameFile!Quit, Quit

(* The files at the start are those of the abstract specification. *)
LEMMA InitRefines == Init => GameFile!Init
  BY SameOutcomes DEF Init, GameFile!Init, Inodes, GameFile!Inodes, NoInode, GameFile!NoInode

(* The second open(2) of GameAcquire creates a file or finds one. *)
LEMMA CreateRefines ==
  ASSUME IndInv, NEW h \in Handlers, CreateFile(h)
  PROVE  GameFile!Next \/ UNCHANGED <<path, content>>
<1> USE ConstantsAssumption DEF Inodes, NoInode, GameFile!Inodes, GameFile!NoInode
<1>1. CASE path # NoInode /\ UNCHANGED <<created, path>>
  BY <1>1 DEF CreateFile
<1>2. CASE path = NoInode /\ created < MaxInodes /\ path' = created + 1
  <2>1. created + 1 \in Inodes /\ content[created + 1] = EmptyFile
    BY <1>2 DEF IndInv, TypeOK, InodesCreated
  <2>2. GameFile!Create(created + 1)
    BY <1>2, <2>1, SameOutcomes DEF GameFile!Create, CreateFile
  <2> QED BY <2>1, <2>2 DEF GameFile!Next
<1> QED BY <1>1, <1>2 DEF CreateFile

(* RemoveFile is Unlink. *)
LEMMA RemoveRefines ==
  ASSUME NEW h \in Handlers, RemoveFile(h)
  PROVE  GameFile!Next
  BY DEF RemoveFile, GameFile!Next, GameFile!Unlink, NoInode, GameFile!NoInode

(* The only write: one move of the game that the file holds by then, or of *)
(* a new game that no file holds.                                          *)
LEMMA SerializeRefines ==
  ASSUME IndInv, NEW h \in Handlers, Serialize(h)
  PROVE  GameFile!Next
<1> USE ConstantsAssumption DEF Inodes, NoInode, GameFile!Inodes, GameFile!NoInode
<1>1. At(h, "serialize") /\ content' = [content EXCEPT ![fd[h]] = mem[h]] /\ UNCHANGED path
  BY DEF Serialize
<1>2. fd[h] \in Inodes /\ content \in [Inodes -> GameType \union {EmptyFile}]
  BY <1>1 DEF At, IndInv, TypeOK, LockCoversWork, Locked
<1>3. CASE exists[h]
  <2>1. content[fd[h]] # EmptyFile /\ mem[h] \in Successors(content[fd[h]])
    BY <1>1, <1>2, <1>3 DEF At, IndInv, GameStays, OneMove
  <2>2. GameFile!Update(fd[h])
    BY <1>1, <2>1, SameOutcomes DEF GameFile!Update
  <2> QED BY <1>2, <2>2 DEF GameFile!Next
<1>4. CASE ~ exists[h]
  <2>1. Begins(h)
    BY <1>1, <1>4 DEF Begins, At
  <2>2. mem[h].id # 0 /\ \A i \in Inodes : content[i].id # mem[h].id
    BY <2>1 DEF IndInv, DrawsDiffer
  <2>3. mem[h] \in Successors(FreshGame(mem[h].id))
    BY <1>1, <1>4 DEF At, IndInv, OneMove
  <2>4. content'[fd[h]] = mem[h]
    BY <1>1, <1>2
  <2>5. content' = [content EXCEPT ![fd[h]] = content'[fd[h]]]
    BY <1>1, <2>4
  <2>6. content'[fd[h]].id \notin {0} \union GameFile!Stored
    BY <2>2, <2>4 DEF GameFile!Stored
  <2>7. content'[fd[h]] \in GameFile!Successors(GameFile!FreshGame(content'[fd[h]].id))
    BY <2>3, <2>4, SameOutcomes
  <2>8. GameFile!Begin(fd[h])
    BY <1>1, <2>5, <2>6, <2>7 DEF GameFile!Begin
  <2> QED BY <1>2, <2>8 DEF GameFile!Next
<1> QED BY <1>3, <1>4

(* Every step is an abstract one or changes no file. *)
LEMMA NextRefines == IndInv /\ [Next]_vars => [GameFile!Next]_<<path, content>>
<1> SUFFICES ASSUME IndInv, [Next]_vars
             PROVE  GameFile!Next \/ UNCHANGED <<path, content>>
  OBVIOUS
<1>1. CASE UNCHANGED vars \/ AllDone
  BY <1>1 DEF vars, AllDone
<1>2. CASE \E h \in Handlers : Recv(h) \/ Step(h) \/ Interrupt(h)
  <2>1. PICK h \in Handlers : Recv(h) \/ Step(h) \/ Interrupt(h)
    BY <1>2
  <2>2. CASE Recv(h) \/ Interrupt(h)
    BY <2>2 DEF Recv, Interrupt, End, shared, files
  <2>3. CASE Acquire(h)
    BY <2>3, CreateRefines
       DEF Acquire, AccessFile, OpenFile, StatFile, LockFile, LockFails, shared, files
  <2>4. CASE Impl(h)
    BY <2>4, RemoveRefines
       DEF Impl, StartImpl, PlayImpl, GuessImpl, TrialImpl, QuitImpl, CheckEmpty, ReportImpl,
           shared, files
  <2>5. CASE Leave(h)
    BY <2>5, SerializeRefines DEF Leave, QuitReply, Release, Abort, Exit, End, shared, files
  <2> QED BY <2>1, <2>2, <2>3, <2>4, <2>5 DEF Step
<1> QED BY <1>1, <1>2 DEF Next

(* Requests are atomic with respect to the player's files, for any number  *)
(* of handlers, with failing sends and with interrupts at any point.       *)
THEOREM Refinement == Spec => AtomicRequests
<1>1. Init => GameFile!Init
  BY InitRefines
<1>2. IndInv /\ [Next]_vars => [GameFile!Next]_<<path, content>>
  BY NextRefines
<1> QED BY <1>1, <1>2, IndInvHolds, PTL DEF Spec, AtomicRequests, GameFile!Spec
=============================================================================
