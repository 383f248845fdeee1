----------------------------- MODULE Scoreboard -----------------------------
(***************************************************************************)
(* The score table: the directory sv_data/score with one file per game that*)
(* was won.  A handler of PLG or PWG that finds the game won saves a score *)
(* (save_score), a handler of GSB shows the table (scoreboard_impl); both  *)
(* count the files and remove the lowest ones until TOP_SCORE are left.    *)
(* The handlers are processes: between two system calls on the directory   *)
(* anything may happen in the others, and SIGINT may end each of them.     *)
(*                                                                         *)
(* A file name begins with the score, so that the order of names is the    *)
(* order of scores; names are numbers here.  A removed file lives on for   *)
(* those who have it open: files maps names to inodes, and the inode of a  *)
(* file is called by the handler that created it, or by its name when it   *)
(* was there before.                                                       *)
(***************************************************************************)
EXTENDS Naturals, Sequences, FiniteSets

CONSTANTS
  Handlers,     \* the processes that save or show, one call each
  Names,        \* the file names "<score>_<plid>_<date>.txt", in alphabetic order
  OldNames,     \* bound: those of them that may be there from before
  TOP_SCORE,    \* TOP_SCORE
  None,         \* no file
  CanInterrupt  \* whether SIGINT may end a handler

ASSUME ScoreboardAssumption ==
  /\ IsFiniteSet(Handlers)
  /\ Names \subseteq Nat /\ IsFiniteSet(Names)
  /\ OldNames \subseteq Names
  /\ TOP_SCORE \in Nat \ {0}
  /\ None \notin Handlers \union Names
  /\ Handlers \intersect Names = {}   \* inodes that differ are called differently
  /\ CanInterrupt \in BOOLEAN

Inodes == Handlers \union Names

VARIABLES
  dir,        \* whether sv_data/score exists
  files,      \* its entries: the inode of each name
  written,    \* the inodes that hold a line; the others are empty
  pc,         \* where each handler is, or how it ended
  own,        \* the variables of each handler
  saved,      \* history: the names whose line was written
  created,    \* history: the names for which there ever was a file
  overlapped  \* history: whether two calls ever ran at the same time

table == <<dir, files, written>>
past  == <<saved, created>>
vars  == <<dir, files, written, pc, own, saved, created, overlapped>>

Process == [
  saves        : BOOLEAN,                \* save_score, else get_scoreboard
  name         : Names \union {None},    \* the file at work: its name
  fd           : Inodes \union {None},   \* and its inode
  total_scores : Nat,                    \* total_scores
  lowest       : Names \union {None},    \* lowest_name; None is the empty string
  list         : SUBSET Names,           \* filelist, as far as it is not read yet
  lines        : Seq(Names)]             \* scoreboard_list

Fresh == [saves |-> FALSE, name |-> None, fd |-> None, total_scores |-> 0, lowest |-> None,
          list |-> {}, lines |-> << >>]

(* What earlier calls left: whole files, also more than TOP_SCORE, when the *)
(* call that should have removed the excess was interrupted.                *)
Init ==
  /\ dir \in BOOLEAN
  /\ \E old \in SUBSET OldNames :
       /\ ~ dir => old = {}
       /\ files = [n \in old |-> n]
       /\ written = old
       /\ saved = old
       /\ created = old
  /\ pc = [h \in Handlers |-> "idle"]
  /\ own = [h \in Handlers |-> Fresh]
  /\ overlapped = FALSE

Ended == {"done", "dead", "RSB EMPTY", "RSB OK", "RSB ERR", "undefined"}
Busy  == {h \in Handlers : pc[h] \notin Ended \union {"idle"}}

Entries      == DOMAIN files
LowestOf(S)  == CHOOSE n \in S : \A m \in S : n <= m
HighestOf(S) == CHOOSE n \in S : \A m \in S : m <= n

Go(h, from, to) ==
  /\ pc[h] = from
  /\ pc' = [pc EXCEPT ![h] = to]
  /\ overlapped' = (overlapped \/ Cardinality(Busy') > 1)

(* exit: the variables are gone. *)
End(h, from, how) == Go(h, from, how) /\ own' = [own EXCEPT ![h] = Fresh]

----------------------------------------------------------------------------
(* save_score *)

(* access, and mkdir when there is no directory. *)
MakeDir(h) ==
  /\ Go(h, "idle", "create")
  /\ own' = [own EXCEPT ![h].saves = TRUE]
  /\ dir' = TRUE
  /\ UNCHANGED <<files, written, past>>

(* fopen(file_name, "w") finds the file: its contents are gone. *)
Truncate(h, n) ==
  /\ n \in Entries
  /\ own' = [own EXCEPT ![h].name = n, ![h].fd = files[n]]
  /\ written' = written \ {files[n]}
  /\ UNCHANGED files

(* It makes a new one. *)
Create(h, n) ==
  /\ n \notin Entries
  /\ own' = [own EXCEPT ![h].name = n, ![h].fd = h]
  /\ files' = [m \in Entries \union {n} |-> IF m = n THEN h ELSE files[m]]
  /\ UNCHANGED written

(* A fault: the NULL of fopen is not looked at. *)
OpenScore_Ignored(h) ==
  \/ /\ dir
     /\ Go(h, "create", "lock")
     /\ \E n \in Names : (Truncate(h, n) \/ Create(h, n)) /\ created' = created \union {n}
     /\ UNCHANGED <<dir, saved>>
  \/ ~ dir /\ Go(h, "create", "lock") /\ UNCHANGED <<table, own, past>>

OpenScore(h) ==
  \/ /\ dir
     /\ Go(h, "create", "lock")
     /\ \E n \in Names :
          /\ Truncate(h, n) \/ Create(h, n)
          /\ created' = created \union {n}
     /\ UNCHANGED <<dir, saved>>
  \/ /\ ~ dir
     /\ End(h, "create", "done")
     /\ UNCHANGED <<table, past>>

(* LOCK_EX is held from "print" to the unlock. *)
Locked(i) == \E g \in Handlers : own[g].fd = i /\ pc[g] = "print"

LockScore(h) ==
  /\ Go(h, "lock", "print")
  /\ ~ Locked(own[h].fd)
  /\ UNCHANGED <<table, own, past>>

(* fprintf, which fills the buffer of the stream, and LOCK_UN. *)
PrintScore(h) ==
  /\ Go(h, "print", "close")
  /\ UNCHANGED <<table, own, past>>

Flush(h) ==
  /\ written' = written \union {own[h].fd}
  /\ saved' = saved \union {own[h].name}

(* A fault: the stream is not closed, and the line stays in its buffer. *)
CloseScore_Unflushed(h) ==
  /\ Go(h, "close", "filter")
  /\ own' = [own EXCEPT ![h].name = None, ![h].fd = None]
  /\ UNCHANGED <<table, past>>

(* fclose writes the buffer, after the lock was given back. *)
CloseScore(h) ==
  /\ Go(h, "close", "filter")
  /\ Flush(h)
  /\ own' = [own EXCEPT ![h].name = None, ![h].fd = None]
  /\ UNCHANGED <<dir, files, created>>

----------------------------------------------------------------------------
(* filter_scoreboard *)

(* The way on after filter_scoreboard, for one who saves and one who shows. *)
Filter(h, from, total) ==
  \/ /\ total > TOP_SCORE
     /\ Go(h, from, "find")
     /\ own' = [own EXCEPT ![h].total_scores = total, ![h].lowest = None]
  \/ /\ total <= TOP_SCORE /\ own[h].saves
     /\ End(h, from, "done")
  \/ /\ total <= TOP_SCORE /\ ~ own[h].saves
     /\ Go(h, from, "scan")
     /\ own' = [own EXCEPT ![h].total_scores = total, ![h].lowest = None]

(* EXIT_FAILURE is an answer to GSB; for a score nobody looks at it. *)
FilterFails(h, from) ==
  /\ End(h, from, IF own[h].saves THEN "done" ELSE "RSB ERR")
  /\ UNCHANGED <<table, past>>

(* A fault: the entries "." and ".." are counted. *)
CountScores_Dots(h) ==
  /\ Filter(h, "filter", IF dir THEN Cardinality(Entries) + 2 ELSE 0)
  /\ UNCHANGED <<table, past>>

(* count_scores, after the access of get_scoreboard; a directory that is    *)
(* not there (any more) has no files.                                       *)
CountScores(h) ==
  \/ ~ dir /\ ~ own[h].saves /\ FilterFails(h, "filter")
  \/ Filter(h, "filter", Cardinality(Entries)) /\ UNCHANGED <<table, past>>

Find(h, n) ==
  /\ dir
  /\ Go(h, "find", "remove")
  /\ own' = [own EXCEPT ![h].lowest = n]
  /\ UNCHANGED <<table, past>>

(* A fault: the highest name is found. *)
FindLowest_Highest(h) == Find(h, IF Entries = {} THEN None ELSE HighestOf(Entries))

(* remove_lowest_alphabetic: opendir and the loop over readdir. *)
FindLowest(h) ==
  \/ Find(h, IF Entries = {} THEN None ELSE LowestOf(Entries))
  \/ ~ dir /\ FilterFails(h, "find")

(* remove(3) on what was found.  When nothing was, the path is that of the  *)
(* directory itself, which remove(3) deletes if it is (still) empty.        *)
RemoveLowest(h) ==
  LET isDir == own[h].lowest = None /\ dir /\ Entries = {} IN
    \/ /\ own[h].lowest \in Entries
       /\ files' = [n \in Entries \ {own[h].lowest} |-> files[n]]
       /\ Filter(h, "remove", own[h].total_scores - 1)
       /\ UNCHANGED <<dir, written, past>>
    \/ /\ isDir
       /\ dir' = FALSE
       /\ Filter(h, "remove", own[h].total_scores - 1)
       /\ UNCHANGED <<files, written, past>>
    \/ /\ own[h].lowest \notin Entries /\ ~ isDir
       /\ FilterFails(h, "remove")

----------------------------------------------------------------------------
(* scoreboard_impl and get_scoreboard *)

Answer(h, from, tok) == End(h, from, tok) /\ UNCHANGED <<table, past>>

CheckEmpty(h) ==
  \/ Entries = {} /\ Answer(h, "idle", "RSB EMPTY")
  \/ Entries # {} /\ Go(h, "idle", "filter") /\ UNCHANGED <<table, own, past>>

(* opendir and scandir.  Without the directory opendir fails and -1 is      *)
(* returned, which scoreboard_impl does not take for a failure; when the    *)
(* directory goes away between the two calls, scandir fails.                *)
ScanDir(h) ==
  \/ ~ dir /\ (Answer(h, "scan", "RSB OK") \/ Answer(h, "scan", "RSB ERR"))
  \/ /\ dir
     /\ Go(h, "scan", "open")
     /\ own' = [own EXCEPT ![h].list = Entries]
     /\ UNCHANGED <<table, past>>

(* fopen of one of the files that were listed. *)
Open(h, n) ==
  \/ /\ n \in Entries
     /\ Go(h, "open", "read")
     /\ own' = [own EXCEPT ![h].name = n, ![h].fd = files[n], ![h].list = @ \ {n}]
     /\ UNCHANGED <<table, past>>
  \/ n \notin Entries /\ Answer(h, "open", "RSB ERR")

(* alphasort, and the loop from the last entry down. *)
OpenNext(h) ==
  \/ own[h].list = {} /\ Answer(h, "open", "RSB OK")
  \/ own[h].list # {} /\ Open(h, HighestOf(own[h].list))

Keep(h) ==
  /\ Go(h, "read", "open")
  /\ own' = [own EXCEPT ![h].lines = Append(@, own[h].name), ![h].name = None, ![h].fd = None]
  /\ UNCHANGED <<table, past>>

(* A fault: the end of an empty file is taken for a line. *)
ReadNext_AnyLine(h) ==
  /\ ~ Locked(own[h].fd)
  /\ Len(own[h].lines) < TOP_SCORE /\ Keep(h)

(* LOCK_SH, which waits for LOCK_EX to be given back, fgets, LOCK_UN.       *)
(* scoreboard_list has TOP_SCORE elements; nothing is said of a process     *)
(* that has written behind them.                                            *)
ReadNext(h) ==
  /\ ~ Locked(own[h].fd)
  /\ \/ own[h].fd \notin written /\ Answer(h, "read", "RSB ERR")
     \/ own[h].fd \in written /\ Len(own[h].lines) < TOP_SCORE /\ Keep(h)
     \/ own[h].fd \in written /\ Len(own[h].lines) = TOP_SCORE /\ Answer(h, "read", "undefined")

----------------------------------------------------------------------------
(* SIGINT.  A handler that saves serves UDP: its exit writes what is in the *)
(* stream's buffer, and the inode that was to be written is kept as history.*)
sig_exit_subudp_impl(h) ==
  /\ own[h].saves
  /\ own' = [own EXCEPT ![h] = [Fresh EXCEPT !.fd = own[h].fd]]
  /\ IF pc[h] = "close" THEN Flush(h) ELSE UNCHANGED <<written, saved>>

(* A handler that reads the table serves TCP.                               *)
sig_exit_subtcp_impl(h) ==
  /\ ~ own[h].saves
  /\ own' = [own EXCEPT ![h] = Fresh]
  /\ UNCHANGED <<written, saved>>

Interrupt(h) ==
  /\ CanInterrupt
  /\ h \in Busy
  /\ Go(h, pc[h], "dead")
  /\ sig_exit_subudp_impl(h) \/ sig_exit_subtcp_impl(h)
  /\ UNCHANGED <<dir, files, created>>

(* Only here may nothing happen any more: every call ends. *)
AllEnded == (\A h \in Handlers : pc[h] \in Ended) /\ UNCHANGED vars

save_score(h) == MakeDir(h) \/ OpenScore(h) \/ LockScore(h) \/ PrintScore(h) \/ CloseScore(h)
filter_scoreboard(h) == CountScores(h) \/ FindLowest(h) \/ RemoveLowest(h)
get_scoreboard(h) == CheckEmpty(h) \/ ScanDir(h) \/ OpenNext(h) \/ ReadNext(h)
Work(h) == save_score(h) \/ filter_scoreboard(h) \/ get_scoreboard(h)

Next == (\E h \in Handlers : Work(h) \/ Interrupt(h)) \/ AllEnded

Spec == Init /\ [][Next]_vars

----------------------------------------------------------------------------
(* Properties *)

TypeOK ==
  /\ dir \in BOOLEAN
  /\ Entries \subseteq Names /\ \A n \in Entries : files[n] \in Inodes
  /\ ~ dir => Entries = {}
  /\ written \subseteq Inodes
  /\ pc \in [Handlers -> {"idle", "create", "lock", "print", "close", "filter", "find",
                          "remove", "scan", "open", "read"} \union Ended]
  /\ own \in [Handlers -> Process]
  /\ saved \subseteq created
  /\ created \subseteq Names
  /\ overlapped \in BOOLEAN

Undisturbed == ~ overlapped /\ \A h \in Handlers : pc[h] # "dead"

(* The TOP_SCORE highest scores that were ever saved, the best one first.   *)
Better(n) == {m \in saved : m > n}
Best == {n \in saved : Cardinality(Better(n)) < TOP_SCORE}
Ranking == [k \in 1..Cardinality(Best) |->
             CHOOSE n \in Best : Cardinality(Better(n)) = k - 1]

(* As long as no two calls overlap and none is interrupted, GSB is answered *)
(* with the best scores ever saved, all of them and in order (EMPTY when    *)
(* there are none): removing the lowest file again and again loses none,    *)
(* and as many lines are printed as were read.                              *)
AnswersAreBest ==
  [][Undisturbed' => \A h \in Handlers : pc'[h] # pc[h] /\ ~ own[h].saves /\ pc'[h] \in Ended =>
       /\ pc'[h] = IF saved = {} THEN "RSB EMPTY" ELSE "RSB OK"
       /\ pc'[h] = "RSB OK" =>
            own[h].lines = Ranking /\ own[h].total_scores = Len(own[h].lines)]_vars

(* Whatever overlaps, the lines of an answer are scores that were saved,    *)
(* the higher one first, none of them twice or in part.                     *)
LinesAreScores ==
  \A h \in Handlers : \A k \in DOMAIN own[h].lines :
    own[h].lines[k] \in saved /\ (k > 1 => own[h].lines[k - 1] > own[h].lines[k])

(* A file without its line, at which every GSB fails, is one that is being  *)
(* saved or whose save was interrupted.                                     *)
EmptyIsUnfinished ==
  \A n \in Entries : files[n] \notin written =>
    \E h \in Handlers : own[h].fd = files[n] /\ pc[h] \in {"lock", "print", "close", "dead"}

(* Overlapping calls can remove too much, but each only as many files as    *)
(* there were too many when all are counted; in particular nothing is ever  *)
(* lost from a table that has not had more than TOP_SCORE files.            *)
Filtered == {h \in Handlers : pc[h] \in Ended \union {"find", "remove", "scan", "open", "read"}}
Excess == IF Cardinality(created) > TOP_SCORE THEN Cardinality(created) - TOP_SCORE ELSE 0
LossIsBounded == Cardinality(created \ Entries) <= Cardinality(Filtered) * Excess
=============================================================================
