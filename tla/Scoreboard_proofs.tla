------------------------- MODULE Scoreboard_proofs -------------------------
(***************************************************************************)
(* Proofs about Scoreboard, for any number of handlers, any names and any  *)
(* size of the table.                                                      *)
(*                                                                         *)
(* Inv holds whatever overlaps.  Good: types, and what a handler's place   *)
(* tells of its variables.  Naming: an inode that anybody has or had open  *)
(* goes by one name only, so that the line behind a descriptor is that of  *)
(* the name it was opened under.  Lines: what was read is in descending    *)
(* order and above what is still to be read.  Budget: every file that was  *)
(* removed is charged to the one who removed it, who may remove as many as *)
(* the files were too many when it counted.                                *)
(*                                                                         *)
(* Orderly holds as long as calls follow one another: then a handler's     *)
(* count and its lowest name are true of the table, its lines are the best *)
(* of it, and a score that is gone has TOP_SCORE better ones in the table. *)
(***************************************************************************)
EXTENDS Scoreboard, FiniteSetTheorems, WellFoundedInduction, TLAPS

(* Where a handler is tells what its variables hold. *)
Saving == {"create", "lock", "print", "close"}

Places ==
  /\ Entries \subseteq created
  /\ \A h \in Handlers :
       /\ pc[h] \in Saving => own[h].saves
       /\ pc[h] \in {"lock", "print", "close"} => own[h].name \in created
       /\ pc[h] \in {"lock", "print", "close", "read"} => own[h].name \in Names /\ own[h].fd \in Inodes
       /\ pc[h] \in {"find", "remove"} => own[h].total_scores > TOP_SCORE

----------------------------------------------------------------------------
(* Sets of names *)

(* Any numbers have a least one.  The library's principles of induction    *)
(* need an operator; this one serves in their place.                       *)
Less == {ss \in Nat \X Nat : ss[1] < ss[2]}

(* Less is well-founded, and so a set of numbers has a least member. *)
LEMMA Least ==
  ASSUME NEW S, S \subseteq Nat, S # {}
  PROVE  \E n \in S : \A m \in S : n <= m
<1>1. IsWellFoundedOn(Less, Nat)
  BY NatLessThanWellFounded DEF OpToRel, Less
<1>2. PICK n \in S : \A m \in S : ~ (<<m, n>> \in Less)
  BY <1>1, WFMin
<1>3. \A m \in S : ~ (m < n)
  BY <1>2 DEF Less
<1> QED
  BY <1>3

(* A set of names that is not empty has a lowest one. *)
LEMMA Lowest ==
  ASSUME NEW S, S \subseteq Names, S # {}
  PROVE  LowestOf(S) \in S /\ \A m \in S : LowestOf(S) <= m
<1>1. S \subseteq Nat
  BY ScoreboardAssumption
<1>2. \E n \in S : \A m \in S : n <= m
  BY <1>1, Least
<1> QED
  BY <1>2 DEF LowestOf

(* Names are finitely many, so that some number is above them all. *)
LEMMA SomeBound == \E b \in Nat : \A n \in Names : n <= b
<1>1. PICK seq \in Seq(Names) : \A n \in Names : \E k \in 1..Len(seq) : seq[k] = n
  BY ScoreboardAssumption DEF IsFiniteSet
<1>2. Len(seq) \in Nat /\ \A k \in 1..Len(seq) : seq[k] \in Nat
  <2>1. Len(seq) \in Nat /\ \A k \in 1..Len(seq) : seq[k] \in Names
    OBVIOUS
  <2> QED
    BY <2>1, ScoreboardAssumption
<1> DEFINE Above(k) == \E b \in Nat : \A j \in 1..k : seq[j] <= b
           Bad == {k \in 0..Len(seq) : ~ Above(k)}
<1>3. Bad = {}
  <2> SUFFICES ASSUME Bad # {} PROVE FALSE
    OBVIOUS
  <2>1. Bad \subseteq Nat
    BY <1>2
  <2> HIDE DEF Bad
  <2>2. PICK k \in Bad : \A m \in Bad : k <= m
    BY <2>1, Least
  <2>3. k \in 0..Len(seq) /\ ~ Above(k)
    BY DEF Bad
  <2>4. k # 0
    <3>1. \A j \in 1..0 : seq[j] <= 0
      OBVIOUS
    <3>2. Above(0)
      BY <3>1
    <3> QED
      BY <2>3, <3>2
  <2>5. k - 1 \in 0..Len(seq) /\ k \in 1..Len(seq) /\ ~ (k <= k - 1)
    BY <2>3, <2>4, <1>2
  <2>6. k - 1 \notin Bad
    BY <2>2, <2>5
  <2>7. PICK b \in Nat : \A j \in 1..(k - 1) : seq[j] <= b
    BY <2>5, <2>6 DEF Bad
  <2>8. \A j \in 1..k : seq[j] <= b + seq[k]
    <3> SUFFICES ASSUME NEW j \in 1..k PROVE seq[j] <= b + seq[k]
      OBVIOUS
    <3>1. seq[j] \in Nat /\ seq[k] \in Nat
      BY <2>5, <1>2
    <3>2. j = k \/ j \in 1..(k - 1)
      BY <2>5
    <3> QED
      BY <3>1, <3>2, <2>7
  <2>9. b + seq[k] \in Nat
    BY <2>5, <1>2
  <2> QED
    BY <2>3, <2>8, <2>9
<1>4. \A k \in 0..Len(seq) : Above(k)
  BY <1>3
<1>5. Len(seq) \in 0..Len(seq)
  BY <1>2
<1>6. PICK b \in Nat : \A j \in 1..Len(seq) : seq[j] <= b
  BY <1>4, <1>5, Zenon
<1> QED
  BY <1>1, <1>6

(* And a set of names that is not empty has a highest one. *)
LEMMA Highest ==
  ASSUME NEW S, S \subseteq Names, S # {}
  PROVE  HighestOf(S) \in S /\ \A m \in S : m <= HighestOf(S)
<1>1. S \subseteq Nat
  BY ScoreboardAssumption
<1>2. PICK b \in Nat : \A n \in S : n <= b
  BY SomeBound
<1> DEFINE Rest == {b - n : n \in S}
<1>3. Rest \subseteq Nat /\ Rest # {}
  <2>1. \A n \in S : n \in Nat /\ n <= b
    BY <1>1, <1>2
  <2>2. \A n \in S : b - n \in Nat
    BY <2>1
  <2> QED
    BY <2>2
<1>4. PICK r \in Rest : \A m \in Rest : r <= m
  BY <1>3, Least
<1>5. PICK n \in S : r = b - n
  OBVIOUS
<1>6. ASSUME NEW m \in S PROVE m <= n
  <2>1. b - n <= b - m
    BY <1>4, <1>5
  <2>2. m \in Nat /\ n \in Nat
    BY <1>1
  <2> QED
    BY <2>1, <2>2
<1> QED
  BY <1>6 DEF HighestOf

----------------------------------------------------------------------------
(* Types *)

Good == TypeOK /\ Places

(* The places that Go leads to. *)
Locations == {"idle", "create", "lock", "print", "close", "filter", "find", "remove", "scan", "open", "read"}
               \union Ended

(* What a step does with the places, and with the variables of others. *)
LEMMA GoDoes ==
  ASSUME TypeOK, NEW h \in Handlers, NEW from, NEW to \in Locations, Go(h, from, to)
  PROVE  /\ pc[h] = from /\ pc'[h] = to
         /\ pc' \in [Handlers -> Locations]
         /\ \A g \in Handlers : g # h => pc'[g] = pc[g]
         /\ overlapped' \in BOOLEAN
         /\ overlapped' = (overlapped \/ Cardinality(Busy') > 1)
BY DEF Go, TypeOK, Locations

(* Variables of a handler that are not used yet, or not any more. *)
LEMMA FreshIsProcess == Fresh \in Process
BY DEF Fresh, Process

(* What End does: the handler's variables are gone. *)
LEMMA EndDoes ==
  ASSUME TypeOK, NEW h \in Handlers, NEW from, NEW to \in Ended, End(h, from, to)
  PROVE  /\ pc[h] = from /\ pc'[h] = to
         /\ pc' \in [Handlers -> Locations]
         /\ \A g \in Handlers : g # h => pc'[g] = pc[g] /\ own'[g] = own[g]
         /\ overlapped' \in BOOLEAN
         /\ own' \in [Handlers -> Process]
         /\ own'[h] = Fresh
<1>1. Go(h, from, to) /\ own' = [own EXCEPT ![h] = Fresh] /\ to \in Locations
  BY DEF End, Locations
<1>2. own \in [Handlers -> Process]
  BY DEF TypeOK
<1> QED
  BY <1>1, <1>2, GoDoes, FreshIsProcess

(* A handler that ends on its own, leaving the table as it is. *)
LEMMA EndGood ==
  ASSUME Good, NEW h \in Handlers, NEW from, NEW to \in Ended, End(h, from, to), UNCHANGED <<table, past>>
  PROVE  Good'
<1>1. /\ pc[h] = from /\ pc'[h] = to
      /\ pc' \in [Handlers -> Locations]
      /\ \A g \in Handlers : g # h => pc'[g] = pc[g] /\ own'[g] = own[g]
      /\ overlapped' \in BOOLEAN
      /\ own' \in [Handlers -> Process]
      /\ own'[h] = Fresh
  BY EndDoes DEF Good
<1>2. TypeOK'
  BY <1>1 DEF Good, TypeOK, table, past, Entries, Locations
<1>3. Places'
  BY <1>1 DEF Good, Places, table, past, Entries, Ended, Saving
<1> QED
  BY <1>2, <1>3 DEF Good

(* A handler that goes on without touching its variables or the table. *)
LEMMA MoveGood ==
  ASSUME Good, NEW h \in Handlers, NEW from, NEW to \in Locations, Go(h, from, to),
         UNCHANGED <<table, own, past>>,
         <<from, to>> \in {<<"lock", "print">>, <<"print", "close">>, <<"idle", "filter">>}
  PROVE  Good'
<1>1. /\ pc[h] = from /\ pc'[h] = to
      /\ pc' \in [Handlers -> Locations]
      /\ \A g \in Handlers : g # h => pc'[g] = pc[g]
      /\ overlapped' \in BOOLEAN
  BY GoDoes DEF Good
<1>2. TypeOK'
  BY <1>1 DEF Good, TypeOK, table, past, Entries, Locations
<1>3. Places'
  BY <1>1 DEF Good, Places, table, past, Entries, Ended, Saving
<1> QED
  BY <1>2, <1>3 DEF Good

(* A step of h changes nobody else's place or variables. *)
Frame(h, from, to) ==
  /\ pc[h] = from /\ pc'[h] = to
  /\ pc' \in [Handlers -> Locations]
  /\ \A g \in Handlers : g # h => pc'[g] = pc[g] /\ own'[g] = own[g]
  /\ overlapped' \in BOOLEAN
  /\ overlapped' = (overlapped \/ Cardinality(Busy') > 1)
  /\ own' \in [Handlers -> Process]

(* Go and an assignment to the variables of one handler make a Frame. *)
LEMMA FrameHolds ==
  ASSUME TypeOK, NEW h \in Handlers, NEW from, NEW to \in Locations, Go(h, from, to),
         NEW o \in Process, own' = [own EXCEPT ![h] = o]
  PROVE  Frame(h, from, to) /\ own'[h] = o
<1>1. own \in [Handlers -> Process]
  BY DEF TypeOK
<1> QED
  BY <1>1, GoDoes DEF Frame

(* What the steps do to the variables of the handler, field by field. *)
LEMMA MakeDirDoes ==
  ASSUME TypeOK, NEW h \in Handlers, MakeDir(h)
  PROVE  /\ Frame(h, "idle", "create")
         /\ own'[h] = [own[h] EXCEPT !.saves = TRUE]
         /\ dir' = TRUE /\ UNCHANGED <<files, written, past>>
<1> DEFINE o == [own[h] EXCEPT !.saves = TRUE]
<1>1. Go(h, "idle", "create") /\ own' = [own EXCEPT ![h] = o] /\ dir' = TRUE
      /\ UNCHANGED <<files, written, past>>
  BY DEF MakeDir
<1>2. o \in Process /\ "create" \in Locations
  BY DEF TypeOK, Process, Locations
<1> HIDE DEF o
<1>3. Frame(h, "idle", "create") /\ own'[h] = o
  BY <1>1, <1>2, FrameHolds
<1> QED
  BY <1>1, <1>3 DEF o

(* The file is opened: it is the one of its name, without its line, or one *)
(* that the handler makes.                                                 *)
LEMMA OpenScoreDoes ==
  ASSUME TypeOK, NEW h \in Handlers, Go(h, "create", "lock"), NEW n \in Names, Truncate(h, n) \/ Create(h, n)
  PROVE  /\ Frame(h, "create", "lock")
         /\ own'[h].name = n /\ own'[h].fd \in Inodes /\ files'[n] = own'[h].fd
         /\ own'[h].saves = own[h].saves /\ own'[h].list = own[h].list /\ own'[h].lines = own[h].lines
         /\ Entries' = Entries \union {n}
         /\ \A m \in Entries : files'[m] = files[m]
         /\ \/ n \in Entries /\ own'[h].fd = files[n] /\ files' = files /\ written' = written \ {own'[h].fd}
            \/ n \notin Entries /\ own'[h].fd = h /\ written' = written
<1>1. ASSUME NEW f \in Inodes, own' = [own EXCEPT ![h].name = n, ![h].fd = f]
      PROVE  /\ Frame(h, "create", "lock")
             /\ own'[h].name = n /\ own'[h].fd = f /\ own'[h].saves = own[h].saves
             /\ own'[h].list = own[h].list /\ own'[h].lines = own[h].lines
  <2> DEFINE o == [own[h] EXCEPT !.name = n, !.fd = f]
  <2>1. own' = [own EXCEPT ![h] = o]
    BY <1>1
  <2>2. o \in Process /\ "lock" \in Locations
    BY DEF TypeOK, Process, Locations
  <2>3. /\ o.name = n /\ o.fd = f /\ o.saves = own[h].saves
        /\ o.list = own[h].list /\ o.lines = own[h].lines
    BY DEF TypeOK, Process
  <2> HIDE DEF o
  <2>4. Frame(h, "create", "lock") /\ own'[h] = o
    BY <2>1, <2>2, FrameHolds
  <2> QED
    BY <2>3, <2>4
<1>2. CASE Truncate(h, n)
  <2>1. n \in Entries /\ files[n] \in Inodes /\ own' = [own EXCEPT ![h].name = n, ![h].fd = files[n]]
        /\ written' = written \ {files[n]} /\ files' = files
    BY <1>2 DEF Truncate, TypeOK
  <2>2. Entries' = Entries \union {n}
    BY <2>1 DEF Entries
  <2>3. /\ Frame(h, "create", "lock")
        /\ own'[h].name = n /\ own'[h].fd = files[n] /\ own'[h].saves = own[h].saves
        /\ own'[h].list = own[h].list /\ own'[h].lines = own[h].lines
    BY <2>1, <1>1
  <2> QED
    BY <2>1, <2>2, <2>3
<1>3. CASE Create(h, n)
  <2>1. n \notin Entries /\ h \in Inodes /\ own' = [own EXCEPT ![h].name = n, ![h].fd = h]
        /\ written' = written /\ files' = [m \in Entries \union {n} |-> IF m = n THEN h ELSE files[m]]
    BY <1>3 DEF Create, Inodes
  <2>2. Entries' = Entries \union {n} /\ files'[n] = h /\ \A m \in Entries : files'[m] = files[m]
    BY <2>1 DEF Entries
  <2>3. /\ Frame(h, "create", "lock")
        /\ own'[h].name = n /\ own'[h].fd = h /\ own'[h].saves = own[h].saves
        /\ own'[h].list = own[h].list /\ own'[h].lines = own[h].lines
    BY <2>1, <1>1
  <2> QED
    BY <2>1, <2>2, <2>3
<1> QED
  BY <1>2, <1>3

(* The line is written, and the handler goes on to filter. *)
LEMMA CloseScoreDoes ==
  ASSUME TypeOK, NEW h \in Handlers, CloseScore(h)
  PROVE  /\ Frame(h, "close", "filter") /\ Flush(h)
         /\ own'[h].name = None /\ own'[h].fd = None /\ own'[h].saves = own[h].saves
         /\ own'[h].list = own[h].list /\ own'[h].lines = own[h].lines
         /\ UNCHANGED <<dir, files, created>>
<1> DEFINE o == [own[h] EXCEPT !.name = None, !.fd = None]
<1>1. /\ Go(h, "close", "filter") /\ own' = [own EXCEPT ![h] = o]
      /\ Flush(h) /\ UNCHANGED <<dir, files, created>>
  BY DEF CloseScore
<1>2. o \in Process /\ "filter" \in Locations
  BY DEF TypeOK, Process, Locations
<1>3. o.name = None /\ o.fd = None /\ o.saves = own[h].saves /\ o.list = own[h].list /\ o.lines = own[h].lines
  BY DEF TypeOK, Process
<1> HIDE DEF o
<1>4. Frame(h, "close", "filter") /\ own'[h] = o
  BY <1>1, <1>2, FrameHolds
<1> QED
  BY <1>1, <1>3, <1>4

(* After filter_scoreboard: on to the next lowest, to the end or to the list. *)
LEMMA FilterDoes ==
  ASSUME TypeOK, NEW h \in Handlers, NEW from, NEW total \in Nat, Filter(h, from, total)
  PROVE  \/ /\ total > TOP_SCORE /\ Frame(h, from, "find") /\ own'[h].total_scores = total
            /\ own'[h].name = own[h].name /\ own'[h].fd = own[h].fd /\ own'[h].lines = own[h].lines
            /\ own'[h].saves = own[h].saves
         \/ /\ total <= TOP_SCORE /\ ~ own[h].saves /\ Frame(h, from, "scan") /\ own'[h].total_scores = total
            /\ own'[h].name = own[h].name /\ own'[h].fd = own[h].fd /\ own'[h].lines = own[h].lines
            /\ own'[h].saves = own[h].saves
         \/ total <= TOP_SCORE /\ own[h].saves /\ Frame(h, from, "done") /\ own'[h] = Fresh
<1> DEFINE o == [own[h] EXCEPT !.total_scores = total, !.lowest = None]
<1>1. o \in Process /\ "find" \in Locations /\ "scan" \in Locations
  BY DEF TypeOK, Process, Locations
<1>2. /\ o.total_scores = total
      /\ o.name = own[h].name /\ o.fd = own[h].fd /\ o.lines = own[h].lines /\ o.saves = own[h].saves
  BY DEF TypeOK, Process
<1>3. \/ total > TOP_SCORE /\ Go(h, from, "find") /\ own' = [own EXCEPT ![h] = o]
      \/ total <= TOP_SCORE /\ own[h].saves /\ End(h, from, "done")
      \/ total <= TOP_SCORE /\ ~ own[h].saves /\ Go(h, from, "scan") /\ own' = [own EXCEPT ![h] = o]
  BY DEF Filter
<1> HIDE DEF o
<1>4. CASE total > TOP_SCORE /\ Go(h, from, "find") /\ own' = [own EXCEPT ![h] = o]
  <2>1. Frame(h, from, "find") /\ own'[h] = o
    BY <1>1, <1>4, FrameHolds
  <2> QED
    BY <2>1, <1>2, <1>4
<1>5. CASE total <= TOP_SCORE /\ ~ own[h].saves /\ Go(h, from, "scan") /\ own' = [own EXCEPT ![h] = o]
  <2>1. Frame(h, from, "scan") /\ own'[h] = o
    BY <1>1, <1>5, FrameHolds
  <2> QED
    BY <2>1, <1>2, <1>5
<1>6. CASE total <= TOP_SCORE /\ own[h].saves /\ End(h, from, "done")
  <2>1. Frame(h, from, "done") /\ own'[h] = Fresh
    BY <1>6, FrameHolds, FreshIsProcess DEF End, Locations, Ended
  <2> QED
    BY <2>1, <1>6
<1> QED
  BY <1>3, <1>4, <1>5, <1>6

(* remove_lowest_alphabetic keeps the name it has found. *)
LEMMA FindDoes ==
  ASSUME TypeOK, NEW h \in Handlers, NEW n \in Names \union {None}, Find(h, n)
  PROVE  /\ Frame(h, "find", "remove") /\ UNCHANGED <<table, past>>
         /\ own'[h].total_scores = own[h].total_scores /\ own'[h].lowest = n
         /\ own'[h].name = own[h].name /\ own'[h].fd = own[h].fd /\ own'[h].lines = own[h].lines
         /\ own'[h].saves = own[h].saves
<1> DEFINE o == [own[h] EXCEPT !.lowest = n]
<1>1. Go(h, "find", "remove") /\ own' = [own EXCEPT ![h] = o] /\ UNCHANGED <<table, past>>
  BY DEF Find
<1>2. o \in Process /\ "remove" \in Locations
  BY DEF TypeOK, Process, Locations
<1>3. /\ o.total_scores = own[h].total_scores /\ o.lowest = n
      /\ o.name = own[h].name /\ o.fd = own[h].fd /\ o.lines = own[h].lines /\ o.saves = own[h].saves
  BY DEF TypeOK, Process
<1> HIDE DEF o
<1>4. Frame(h, "find", "remove") /\ own'[h] = o
  BY <1>1, <1>2, FrameHolds
<1> QED
  BY <1>1, <1>3, <1>4

(* The loop of GSB: the list is made, a file of it is opened, its line kept. *)
LEMMA ListDoes ==
  ASSUME TypeOK, NEW h \in Handlers, Go(h, "scan", "open"), own' = [own EXCEPT ![h].list = Entries]
  PROVE  /\ Frame(h, "scan", "open") /\ own'[h].list = Entries
         /\ own'[h].name = own[h].name /\ own'[h].fd = own[h].fd /\ own'[h].lines = own[h].lines
         /\ own'[h].saves = own[h].saves /\ own'[h].total_scores = own[h].total_scores
<1> DEFINE o == [own[h] EXCEPT !.list = Entries]
<1>1. o \in Process /\ "open" \in Locations
  BY DEF TypeOK, Process, Locations
<1>2. /\ o.list = Entries
      /\ o.name = own[h].name /\ o.fd = own[h].fd /\ o.lines = own[h].lines
      /\ o.saves = own[h].saves /\ o.total_scores = own[h].total_scores
  BY DEF TypeOK, Process
<1>3. own' = [own EXCEPT ![h] = o]
  OBVIOUS
<1> HIDE DEF o
<1>4. Frame(h, "scan", "open") /\ own'[h] = o
  BY <1>1, <1>3, FrameHolds
<1> QED
  BY <1>2, <1>4

(* The file is opened under its name, and leaves the list. *)
LEMMA OpenDoes ==
  ASSUME TypeOK, NEW h \in Handlers, NEW n \in Entries, Open(h, n)
  PROVE  /\ Frame(h, "open", "read") /\ UNCHANGED <<table, past>>
         /\ own'[h].list = own[h].list \ {n} /\ own'[h].name = n /\ own'[h].fd = files[n]
         /\ own'[h].lines = own[h].lines
         /\ own'[h].saves = own[h].saves /\ own'[h].total_scores = own[h].total_scores
<1> DEFINE o == [own[h] EXCEPT !.name = n, !.fd = files[n], !.list = @ \ {n}]
<1>1. /\ Go(h, "open", "read") /\ UNCHANGED <<table, past>>
      /\ own' = [own EXCEPT ![h].name = n, ![h].fd = files[n], ![h].list = @ \ {n}]
  BY DEF Open
<1>2. own' = [own EXCEPT ![h] = o]
  BY <1>1
<1>3. o \in Process /\ "read" \in Locations
  <2>1. n \in Names /\ files[n] \in Inodes /\ own[h].list \ {n} \subseteq Names
    BY DEF TypeOK, Process
  <2> QED
    BY <2>1 DEF TypeOK, Process, Locations
<1>4. /\ o.list = own[h].list \ {n} /\ o.name = n /\ o.fd = files[n]
      /\ o.lines = own[h].lines
      /\ o.saves = own[h].saves /\ o.total_scores = own[h].total_scores
  BY DEF TypeOK, Process
<1> HIDE DEF o
<1>5. Frame(h, "open", "read") /\ own'[h] = o
  BY <1>1, <1>2, <1>3, FrameHolds
<1> QED
  BY <1>1, <1>4, <1>5

(* The line that was read is kept behind the others. *)
LEMMA KeepDoes ==
  ASSUME TypeOK, NEW h \in Handlers, own[h].name \in Names, Keep(h)
  PROVE  /\ Frame(h, "read", "open") /\ UNCHANGED <<table, past>>
         /\ own'[h].list = own[h].list /\ own'[h].name = None /\ own'[h].fd = None
         /\ own'[h].lines = Append(own[h].lines, own[h].name)
         /\ own'[h].saves = own[h].saves /\ own'[h].total_scores = own[h].total_scores
<1> DEFINE o == [own[h] EXCEPT !.lines = Append(@, own[h].name), !.name = None, !.fd = None]
<1>1. /\ Go(h, "read", "open") /\ UNCHANGED <<table, past>>
      /\ own' = [own EXCEPT ![h].lines = Append(@, own[h].name), ![h].name = None, ![h].fd = None]
  BY DEF Keep
<1>2. own' = [own EXCEPT ![h] = o]
  BY <1>1
<1>3. o \in Process /\ "open" \in Locations
  <2>1. Append(own[h].lines, own[h].name) \in Seq(Names)
    BY DEF TypeOK, Process
  <2> QED
    BY <2>1 DEF TypeOK, Process, Locations
<1>4. /\ o.list = own[h].list /\ o.name = None /\ o.fd = None
      /\ o.lines = Append(own[h].lines, own[h].name)
      /\ o.saves = own[h].saves /\ o.total_scores = own[h].total_scores
  BY DEF TypeOK, Process
<1> HIDE DEF o
<1>5. Frame(h, "read", "open") /\ own'[h] = o
  BY <1>1, <1>2, <1>3, FrameHolds
<1> QED
  BY <1>1, <1>4, <1>5

(* A handler that dies: its variables are gone, and what it had in the      *)
(* buffer is written when it was about to.                                  *)
LEMMA InterruptDoes ==
  ASSUME Good, NEW h \in Handlers, Interrupt(h)
  PROVE  /\ h \in Busy /\ Frame(h, pc[h], "dead")
         /\ own'[h].name = None /\ own'[h].lines = << >>
         /\ own'[h].fd = IF own[h].saves THEN own[h].fd ELSE None
         /\ IF pc[h] = "close" THEN Flush(h) ELSE UNCHANGED <<written, saved>>
         /\ UNCHANGED <<dir, files, created>>
<1> DEFINE o == IF own[h].saves THEN [Fresh EXCEPT !.fd = own[h].fd] ELSE Fresh
<1>0. TypeOK /\ (pc[h] = "close" => own[h].saves)
  BY DEF Good, Places, Saving
<1>1. /\ h \in Busy /\ Go(h, pc[h], "dead") /\ own' = [own EXCEPT ![h] = o]
      /\ IF pc[h] = "close" THEN Flush(h) ELSE UNCHANGED <<written, saved>>
      /\ UNCHANGED <<dir, files, created>>
  BY <1>0 DEF Interrupt, sig_exit_subudp_impl, sig_exit_subtcp_impl
<1>2. o \in Process /\ "dead" \in Locations
  BY <1>0, FreshIsProcess DEF TypeOK, Process, Locations, Ended
<1>3. o.name = None /\ o.lines = << >> /\ o.fd = IF own[h].saves THEN own[h].fd ELSE None
  BY DEF Fresh
<1> HIDE DEF o
<1>4. Frame(h, pc[h], "dead") /\ own'[h] = o
  BY <1>0, <1>1, <1>2, FrameHolds
<1> QED
  BY <1>1, <1>3, <1>4

(* Types and places are kept when the table and h's variables are right. *)
LEMMA GoodFrame ==
  ASSUME Good, NEW h \in Handlers, NEW from, NEW to, Frame(h, from, to),
         dir' \in BOOLEAN, Entries' \subseteq created', \A n \in Entries' : files'[n] \in Inodes,
         ~ dir' => Entries' = {}, written' \subseteq Inodes,
         saved' \subseteq created', created \subseteq created', created' \subseteq Names,
         to \in Saving => own'[h].saves,
         to \in {"lock", "print", "close"} => own'[h].name \in created',
         to \in {"lock", "print", "close", "read"} => own'[h].name \in Names /\ own'[h].fd \in Inodes,
         to \in {"find", "remove"} => own'[h].total_scores > TOP_SCORE
  PROVE  Good'
<1>1. TypeOK'
  <2>1. Entries' \subseteq Names
    OBVIOUS
  <2> QED
    BY <2>1 DEF Frame, TypeOK, Locations
<1>2. Places'
  <2> SUFFICES ASSUME NEW g \in Handlers
               PROVE  /\ pc'[g] \in Saving => own'[g].saves
                      /\ pc'[g] \in {"lock", "print", "close"} => own'[g].name \in created'
                      /\ pc'[g] \in {"lock", "print", "close", "read"} => own'[g].name \in Names /\ own'[g].fd \in Inodes
                      /\ pc'[g] \in {"find", "remove"} => own'[g].total_scores > TOP_SCORE
    BY DEF Places, Saving
  <2>1. CASE g = h
    BY <2>1 DEF Frame
  <2>2. CASE g # h
    <3>1. pc'[g] = pc[g] /\ own'[g] = own[g]
      BY <2>2 DEF Frame
    <3> QED
      BY <3>1 DEF Good, Places
  <2> QED
    BY <2>1, <2>2
<1> QED
  BY <1>1, <1>2 DEF Good

(* Steps that leave the table alone. *)
LEMMA GoodFrameOnly ==
  ASSUME Good, NEW h \in Handlers, NEW from, NEW to, Frame(h, from, to), UNCHANGED <<table, past>>,
         to \in Saving => own'[h].saves,
         to \in {"lock", "print", "close"} => own'[h].name \in created,
         to \in {"lock", "print", "close", "read"} => own'[h].name \in Names /\ own'[h].fd \in Inodes,
         to \in {"find", "remove"} => own'[h].total_scores > TOP_SCORE
  PROVE  Good'
<1>1. dir' = dir /\ files' = files /\ Entries' = Entries /\ written' = written /\ saved' = saved /\ created' = created
  BY DEF table, past, Entries
<1> QED
  BY <1>1, GoodFrame DEF Good, TypeOK, Places

(* Why a call ends without going on: only two of the reasons are not that  *)
(* another handler, or an interrupt, got in between.                       *)
EndReason(h, from, to) ==
  \/ from = "idle" /\ to = "RSB EMPTY" /\ Entries = {}
  \/ from = "open" /\ to = "RSB OK" /\ own[h].list = {}
  \/ own[h].saves
  \/ from \in {"filter", "find", "scan"} /\ ~ dir
  \/ from = "remove" /\ own[h].lowest \notin Entries /\ Entries # {}
  \/ from = "remove" /\ own[h].lowest # None /\ Entries = {}
  \/ from = "remove" /\ ~ dir
  \/ from = "open" /\ own[h].list # {} /\ HighestOf(own[h].list) \notin Entries
  \/ from = "read" /\ (own[h].fd \notin written \/ Len(own[h].lines) = TOP_SCORE)

(* RemoveLowest, when it finds what it was to remove. *)
LEMMA RemoveDoes ==
  ASSUME Good, NEW h \in Handlers, RemoveLowest(h)
  PROVE  \/ /\ Filter(h, "remove", own[h].total_scores - 1) /\ UNCHANGED <<written, past>>
            /\ own[h].total_scores - 1 \in Nat
            /\ dir' \in BOOLEAN /\ (~ dir' => Entries' = {})
            /\ Entries' \subseteq Entries /\ Entries \subseteq Entries' \union {own[h].lowest} /\ own[h].lowest \notin Entries'
            /\ \A n \in Entries' : files'[n] = files[n]
         \/ FilterFails(h, "remove") /\ \A to : EndReason(h, "remove", to)
<1>1. pc[h] = "remove" => own[h].total_scores \in Nat /\ own[h].total_scores > TOP_SCORE /\ TOP_SCORE \in Nat
  BY ScoreboardAssumption DEF Good, Places, TypeOK, Process
<1>2. CASE /\ own[h].lowest \in Entries
           /\ files' = [n \in Entries \ {own[h].lowest} |-> files[n]]
           /\ Filter(h, "remove", own[h].total_scores - 1)
           /\ UNCHANGED <<dir, written, past>>
  <2>1. pc[h] = "remove"
    BY <1>2 DEF Filter, Go, End
  <2>2. Entries' = Entries \ {own[h].lowest} /\ \A n \in Entries' : files'[n] = files[n]
    BY <1>2 DEF Entries
  <2>3. own[h].total_scores - 1 \in Nat
    BY <1>1, <2>1
  <2>4. dir' = dir /\ dir \in BOOLEAN /\ (~ dir => Entries = {})
    BY <1>2 DEF Good, TypeOK
  <2>5. own[h].lowest \notin Entries'
    BY <2>2
  <2> QED
    BY <1>2, <2>2, <2>3, <2>4, <2>5
<1>3. CASE /\ dir' = FALSE /\ Entries = {} /\ UNCHANGED <<files, written, past>>
           /\ Filter(h, "remove", own[h].total_scores - 1)
  <2>1. pc[h] = "remove"
    BY <1>3 DEF Filter, Go, End
  <2>2. own[h].total_scores - 1 \in Nat
    BY <1>1, <2>1
  <2>3. Entries' = Entries
    BY <1>3 DEF Entries
  <2> QED
    BY <1>3, <2>2, <2>3
<1>4. CASE FilterFails(h, "remove") /\ own[h].lowest \notin Entries /\ ~ (own[h].lowest = None /\ dir /\ Entries = {})
  <2>1. \A to : EndReason(h, "remove", to)
    BY <1>4 DEF EndReason
  <2> QED
    BY <1>4, <2>1
<1> QED
  BY <1>2, <1>3, <1>4 DEF RemoveLowest

(* A filter_scoreboard that failed ends the call. *)
LEMMA FailsDoes ==
  ASSUME TypeOK, NEW h \in Handlers, NEW from, FilterFails(h, from)
  PROVE  /\ \E to \in {"done", "RSB ERR"} : Frame(h, from, to)
         /\ own'[h] = Fresh /\ UNCHANGED <<table, past>>
<1>1. /\ UNCHANGED <<table, past>>
      /\ End(h, from, "done") \/ End(h, from, "RSB ERR")
  BY DEF FilterFails
<1>2. ASSUME NEW to \in {"done", "RSB ERR"}, End(h, from, to) PROVE Frame(h, from, to) /\ own'[h] = Fresh
  BY <1>2, FrameHolds, FreshIsProcess DEF End, Locations, Ended
<1> QED
  BY <1>1, <1>2

(* An answer ends the call. *)
LEMMA AnswerDoes ==
  ASSUME TypeOK, NEW h \in Handlers, NEW from, NEW tok \in Ended, Answer(h, from, tok)
  PROVE  Frame(h, from, tok) /\ own'[h] = Fresh /\ UNCHANGED <<table, past>>
BY FrameHolds, FreshIsProcess DEF Answer, End, Locations, Ended

(* Every step of one handler is one of these. *)
LEMMA ShowDoes ==
  ASSUME Good, NEW h \in Handlers, get_scoreboard(h)
  PROVE  \/ \E from \in {"idle", "scan", "open", "read"}, tok \in Ended : Answer(h, from, tok) /\ EndReason(h, from, tok)
         \/ Entries # {} /\ Go(h, "idle", "filter") /\ UNCHANGED <<table, own, past>>
         \/ dir /\ Go(h, "scan", "open") /\ own' = [own EXCEPT ![h].list = Entries] /\ UNCHANGED <<table, past>>
         \/ own[h].list # {} /\ HighestOf(own[h].list) \in Entries /\ Open(h, HighestOf(own[h].list))
         \/ pc[h] = "read" /\ own[h].fd \in written /\ own[h].name \in Names /\ Keep(h)
<1>1. CASE CheckEmpty(h)
  BY <1>1 DEF CheckEmpty, Ended, EndReason
<1>2. CASE ScanDir(h)
  BY <1>2 DEF ScanDir, Ended, EndReason
<1>3. CASE OpenNext(h)
  BY <1>3 DEF OpenNext, Open, Ended, EndReason
<1>4. CASE ReadNext(h)
  <2>1. pc[h] = "read" => own[h].name \in Names
    BY DEF Good, Places
  <2>2. Keep(h) => pc[h] = "read"
    BY DEF Keep, Go
  <2> QED
    BY <1>4, <2>1, <2>2 DEF ReadNext, Ended, EndReason
<1> QED
  BY <1>1, <1>2, <1>3, <1>4 DEF get_scoreboard

(* A handler that only goes on keeps its variables. *)
LEMMA GoDoesNot ==
  ASSUME TypeOK, NEW h \in Handlers, NEW from, NEW to \in Locations, Go(h, from, to), UNCHANGED own
  PROVE  Frame(h, from, to) /\ own'[h] = own[h]
BY GoDoes DEF Frame, TypeOK

(* Every step keeps types and places. *)
LEMMA GoodStep ==
  ASSUME Good, [Next]_vars
  PROVE  Good'
<1> USE DEF Locations, Ended
<1>1. ASSUME NEW h \in Handlers, MakeDir(h) PROVE Good'
  <2>1. Frame(h, "idle", "create") /\ own'[h] = [own[h] EXCEPT !.saves = TRUE]
        /\ dir' = TRUE /\ UNCHANGED <<files, written, past>>
    BY <1>1, MakeDirDoes DEF Good
  <2>2. own'[h].saves
    BY <2>1 DEF Good, TypeOK, Process
  <2>3. Entries' = Entries
    BY <2>1 DEF Entries
  <2> QED
    BY <2>1, <2>2, <2>3, GoodFrame DEF Good, TypeOK, Places, past
<1>2. ASSUME NEW h \in Handlers, OpenScore(h) PROVE Good'
  <2>1. CASE Go(h, "create", "lock") /\ dir
    <3>1. UNCHANGED <<dir, saved>>
      BY <1>2, <2>1 DEF OpenScore, End, Go, TypeOK, Good
    <3> PICK n \in Names : (Truncate(h, n) \/ Create(h, n)) /\ created' = created \union {n}
      BY <1>2, <2>1 DEF OpenScore
    <3>2. /\ Frame(h, "create", "lock")
          /\ own'[h].name = n /\ own'[h].fd \in Inodes /\ files'[n] = own'[h].fd
          /\ own'[h].saves = own[h].saves
          /\ Entries' = Entries \union {n} /\ \A m \in Entries : files'[m] = files[m]
          /\ written' \subseteq written
      BY <2>1, OpenScoreDoes DEF Good
    <3>3. own[h].saves
      BY <2>1 DEF Go, Good, Places, Saving
    <3> QED
      BY <2>1, <3>1, <3>2, <3>3, GoodFrame DEF Good, TypeOK, Places
  <2>2. CASE End(h, "create", "done") /\ UNCHANGED <<table, past>>
    BY <2>2, EndGood
  <2> QED
    BY <1>2, <2>1, <2>2 DEF OpenScore
<1>3. ASSUME NEW h \in Handlers, LockScore(h) \/ PrintScore(h) PROVE Good'
  <2>1. PICK from \in {"lock", "print"}, to \in {"print", "close"} :
          Frame(h, from, to) /\ own'[h] = own[h] /\ UNCHANGED <<table, past>>
    BY <1>3, GoDoesNot DEF LockScore, PrintScore, Good
  <2>2. pc[h] = from
    BY <2>1 DEF Frame
  <2> QED
    BY <2>1, <2>2, GoodFrameOnly DEF Good, Places, Saving
<1>4. ASSUME NEW h \in Handlers, CloseScore(h) PROVE Good'
  <2>1. Frame(h, "close", "filter") /\ Flush(h) /\ UNCHANGED <<dir, files, created>>
    BY <1>4, CloseScoreDoes DEF Good
  <2>2. pc[h] = "close" /\ own[h].fd \in Inodes /\ own[h].name \in created /\ Entries' = Entries
    BY <2>1 DEF Frame, Good, Places, Entries
  <2>3. written' \subseteq Inodes /\ saved' \subseteq created'
    BY <2>1, <2>2 DEF Flush, Good, TypeOK
  <2> QED
    BY <2>1, <2>2, <2>3, GoodFrame DEF Good, TypeOK, Places, Saving
<1>5. ASSUME NEW h \in Handlers, NEW from, FilterFails(h, from) PROVE Good'
  BY <1>5, FailsDoes, GoodFrameOnly DEF Good, Saving
<1>6. ASSUME NEW h \in Handlers, NEW from, NEW total \in Nat, Filter(h, from, total),
             UNCHANGED <<written, past>>, dir' \in BOOLEAN, ~ dir' => Entries' = {},
             Entries' \subseteq Entries, \A n \in Entries' : files'[n] = files[n]
      PROVE  Good'
  <2>1. \/ total > TOP_SCORE /\ Frame(h, from, "find") /\ own'[h].total_scores = total
        \/ Frame(h, from, "scan")
        \/ Frame(h, from, "done")
    BY <1>6, FilterDoes DEF Good
  <2> QED
    BY <1>6, <2>1, GoodFrame DEF Good, TypeOK, Places, Saving, past
<1>7. ASSUME NEW h \in Handlers, CountScores(h) PROVE Good'
  <2>1. Cardinality(Entries) \in Nat
    BY FS_Subset, FS_CardinalityType, ScoreboardAssumption DEF Good, TypeOK
  <2>2. UNCHANGED table => Entries' = Entries
    BY DEF table, Entries
  <2> QED
    BY <1>5, <1>6, <1>7, <2>1, <2>2 DEF CountScores, table, Good, TypeOK
<1>8. ASSUME NEW h \in Handlers, FindLowest(h) PROVE Good'
  <2>1. CASE FilterFails(h, "find")
    BY <2>1, <1>5
  <2>2. ASSUME NEW n \in Names \union {None}, Find(h, n) PROVE Good'
    <3>1. Frame(h, "find", "remove") /\ own'[h].total_scores = own[h].total_scores /\ UNCHANGED <<table, past>>
      BY <2>2, FindDoes DEF Good
    <3> QED
      BY <3>1, GoodFrameOnly DEF Frame, Good, Places, Saving
  <2>3. Entries # {} => LowestOf(Entries) \in Names
    BY Lowest DEF Good, TypeOK
  <2>4. (IF Entries = {} THEN None ELSE LowestOf(Entries)) \in Names \union {None}
    BY <2>3
  <2> QED
    BY <1>8, <2>1, <2>2, <2>4 DEF FindLowest
<1>9. ASSUME NEW h \in Handlers, RemoveLowest(h) PROVE Good'
  BY <1>9, <1>5, <1>6, RemoveDoes
<1>10. ASSUME NEW h \in Handlers, get_scoreboard(h) PROVE Good'
  <2>1. CASE \E from \in {"idle", "scan", "open", "read"}, tok \in Ended : Answer(h, from, tok)
    BY <2>1, EndGood DEF Answer
  <2>2. CASE Go(h, "idle", "filter") /\ UNCHANGED <<table, own, past>>
    BY <2>2, MoveGood
  <2>3. CASE Go(h, "scan", "open") /\ own' = [own EXCEPT ![h].list = Entries] /\ UNCHANGED <<table, past>>
    <3>1. Frame(h, "scan", "open")
      BY <2>3, ListDoes DEF Good
    <3> QED
      BY <2>3, <3>1, GoodFrameOnly DEF Saving
  <2>4. ASSUME NEW n \in Entries, Open(h, n) PROVE Good'
    <3>1. Frame(h, "open", "read") /\ UNCHANGED <<table, past>> /\ own'[h].name = n /\ own'[h].fd = files[n]
      BY <2>4, OpenDoes DEF Good
    <3>2. n \in Names /\ files[n] \in Inodes
      BY DEF Good, TypeOK
    <3> QED
      BY <3>1, <3>2, GoodFrameOnly DEF Saving
  <2>5. CASE own[h].name \in Names /\ Keep(h)
    <3>1. Frame(h, "read", "open") /\ UNCHANGED <<table, past>>
      BY <2>5, KeepDoes DEF Good
    <3> QED
      BY <3>1, GoodFrameOnly DEF Saving
  <2> QED
    BY <1>10, <2>1, <2>2, <2>3, <2>4, <2>5, ShowDoes
<1>11. ASSUME NEW h \in Handlers, Interrupt(h) PROVE Good'
  <2>1. /\ Frame(h, pc[h], "dead") /\ UNCHANGED <<dir, files, created>>
        /\ IF pc[h] = "close" THEN Flush(h) ELSE UNCHANGED <<written, saved>>
    BY <1>11, InterruptDoes
  <2>2. pc[h] = "close" => own[h].fd \in Inodes /\ own[h].name \in created
    BY DEF Good, Places
  <2>3. written' \subseteq Inodes /\ saved' \subseteq created' /\ Entries' = Entries
    BY <2>1, <2>2 DEF Flush, Good, TypeOK, Entries
  <2> QED
    BY <2>1, <2>3, GoodFrame DEF Good, TypeOK, Places, Saving
<1>12. CASE UNCHANGED vars
  BY <1>12 DEF vars, Good, TypeOK, Places, Entries, Saving
<1> QED
  BY <1>1, <1>2, <1>3, <1>4, <1>7, <1>8, <1>9, <1>10, <1>11, <1>12
     DEF Next, AllEnded, Work, save_score, filter_scoreboard
----------------------------------------------------------------------------
(* The steps of the calls once more, by what they do to the table and to   *)
(* the place and variables of the handler.                                 *)
(* The handler has the same file at work, and the same lines. *)
SameWork(h) ==
  own'[h].name = own[h].name /\ own'[h].fd = own[h].fd /\ own'[h].lines = own[h].lines

Starts(h) == Frame(h, "idle", "create") /\ SameWork(h) /\ own'[h].saves
             /\ UNCHANGED <<files, written, past>>

OpensScore(h, n) ==
  /\ Frame(h, "create", "lock") /\ own'[h].lines = own[h].lines
  /\ own'[h].saves = own[h].saves
  /\ own'[h].name = n /\ own'[h].fd = files'[n] /\ created' = created \union {n} /\ saved' = saved
  /\ Entries' = Entries \union {n} /\ \A m \in Entries : files'[m] = files[m]
  /\ \/ n \in Entries /\ written' = written \ {files[n]}
     \/ n \notin Entries /\ files'[n] = h /\ written' = written

Moves(h, from, to) ==
  /\ <<from, to>> \in {<<"lock", "print">>, <<"print", "close">>, <<"idle", "filter">>}
  /\ Frame(h, from, to) /\ (from = "idle" => Entries # {}) /\ own'[h] = own[h] /\ UNCHANGED <<table, past>>

Closes(h) ==
  /\ Frame(h, "close", "filter") /\ Flush(h) /\ own'[h].name = None /\ own'[h].lines = own[h].lines
  /\ own'[h].saves = own[h].saves
  /\ UNCHANGED <<files, created>>

Ends(h, from, to) ==
  /\ from \in {"idle", "create", "filter", "find", "remove", "scan", "open", "read"} /\ to \in Ended
  /\ Frame(h, from, to) /\ EndReason(h, from, to) /\ own'[h] = Fresh /\ UNCHANGED <<table, past>>

Counts(h, to) ==
  /\ Frame(h, "filter", to) /\ SameWork(h) /\ UNCHANGED <<table, past>>
  /\ own'[h].saves = own[h].saves /\ own'[h].total_scores = Cardinality(Entries)
  /\ \/ to = "find" /\ Cardinality(Entries) > TOP_SCORE
     \/ to = "scan" /\ ~ own[h].saves /\ Cardinality(Entries) <= TOP_SCORE

Finds(h) ==
  /\ Frame(h, "find", "remove") /\ UNCHANGED <<table, past>> /\ SameWork(h)
  /\ own'[h].total_scores = own[h].total_scores /\ own'[h].saves = own[h].saves
  /\ Entries # {} => own'[h].lowest = LowestOf(Entries)

Removes(h, to) ==
  /\ Frame(h, "remove", to) /\ UNCHANGED <<written, past>>
  /\ Entries' \subseteq Entries /\ Entries \subseteq Entries' \union {own[h].lowest} /\ own[h].lowest \notin Entries'
  /\ \A n \in Entries' : files'[n] = files[n]
  /\ \/ /\ to = "find" /\ SameWork(h) /\ own'[h].saves = own[h].saves
        /\ own'[h].total_scores = own[h].total_scores - 1 /\ own[h].total_scores - 1 > TOP_SCORE
     \/ /\ to = "scan" /\ SameWork(h) /\ ~ own[h].saves /\ own'[h].saves = own[h].saves
        /\ own'[h].total_scores = own[h].total_scores - 1 /\ own[h].total_scores - 1 <= TOP_SCORE
     \/ to = "done" /\ own[h].saves /\ own'[h] = Fresh

Lists(h) ==
  /\ own'[h].saves = own[h].saves /\ own'[h].total_scores = own[h].total_scores
  /\ Frame(h, "scan", "open") /\ own'[h].list = Entries /\ SameWork(h) /\ UNCHANGED <<table, past>>

Opens(h, n) ==
  /\ own[h].list # {} /\ n = HighestOf(own[h].list) /\ n \in Entries
  /\ Frame(h, "open", "read") /\ UNCHANGED <<table, past>>
  /\ own'[h].list = own[h].list \ {n} /\ own'[h].name = n /\ own'[h].fd = files[n]
  /\ own'[h].lines = own[h].lines
  /\ own'[h].saves = own[h].saves /\ own'[h].total_scores = own[h].total_scores

Keeps(h) ==
  /\ Frame(h, "read", "open") /\ own[h].fd \in written /\ own[h].name \in Names /\ UNCHANGED <<table, past>>
  /\ own'[h].saves = own[h].saves /\ own'[h].total_scores = own[h].total_scores
  /\ own'[h].list = own[h].list /\ own'[h].name = None /\ own'[h].lines = Append(own[h].lines, own[h].name)

Dies(h) ==
  /\ h \in Busy /\ Frame(h, pc[h], "dead") /\ own'[h].name = None /\ own'[h].lines = << >>
  /\ own'[h].fd = IF own[h].saves THEN own[h].fd ELSE None
  /\ IF pc[h] = "close" THEN Flush(h) ELSE UNCHANGED <<written, saved>>
  /\ UNCHANGED <<files, created>>

StepOf(h) ==
  \/ Starts(h) \/ (\E n \in Names : OpensScore(h, n)) \/ (\E from, to : Moves(h, from, to)) \/ Closes(h)
  \/ \E from, to : Ends(h, from, to)
  \/ (\E to : Counts(h, to)) \/ Finds(h) \/ \E to : Removes(h, to)
  \/ Lists(h) \/ (\E n : Opens(h, n)) \/ Keeps(h) \/ Dies(h)

(* Every step of the specification has one of the forms. *)
LEMMA StepForms ==
  ASSUME Good, [Next]_vars
  PROVE  UNCHANGED vars \/ \E h \in Handlers : StepOf(h)
<1> USE DEF StepOf, SameWork
<1>1. ASSUME NEW h \in Handlers, MakeDir(h) PROVE StepOf(h)
  <2>1. Frame(h, "idle", "create") /\ own'[h] = [own[h] EXCEPT !.saves = TRUE] /\ UNCHANGED <<files, written, past>>
    BY <1>1, MakeDirDoes DEF Good
  <2>2. SameWork(h)
    BY <2>1 DEF Good, TypeOK, Process
  <2> QED
    BY <2>1, <2>2 DEF Starts
<1>2. ASSUME NEW h \in Handlers, OpenScore(h) PROVE StepOf(h)
  <2>1. ASSUME NEW n \in Names, Go(h, "create", "lock"), Truncate(h, n) \/ Create(h, n),
               created' = created \union {n}, UNCHANGED <<dir, saved>>
        PROVE  OpensScore(h, n)
    BY <2>1, OpenScoreDoes DEF OpensScore, Good
  <2>2. CASE End(h, "create", "done") /\ UNCHANGED <<table, past>>
    <3>1. Frame(h, "create", "done") /\ own'[h] = Fresh
      BY <2>2, AnswerDoes DEF Answer, Good, Ended
    <3>2. EndReason(h, "create", "done")
      BY <3>1 DEF Frame, Good, Places, Saving, EndReason
    <3> QED
      BY <2>2, <3>1, <3>2 DEF Ends, Ended
  <2> QED
    BY <1>2, <2>1, <2>2 DEF OpenScore
<1>3. ASSUME NEW h \in Handlers, LockScore(h) \/ PrintScore(h) PROVE StepOf(h)
  <2>1. CASE LockScore(h)
    BY <2>1, GoDoesNot DEF LockScore, Good, Locations, Moves
  <2>2. CASE PrintScore(h)
    BY <2>2, GoDoesNot DEF PrintScore, Good, Locations, Moves
  <2> QED
    BY <1>3, <2>1, <2>2
<1>4. ASSUME NEW h \in Handlers, CloseScore(h) PROVE StepOf(h)
  BY <1>4, CloseScoreDoes DEF Closes, Good
<1>5. ASSUME NEW h \in Handlers, NEW from \in {"filter", "find", "remove"}, FilterFails(h, from),
             \A to : EndReason(h, from, to)
      PROVE  StepOf(h)
  <2>1. PICK to \in {"done", "RSB ERR"} : Frame(h, from, to)
    BY <1>5, FailsDoes DEF Good
  <2>2. own'[h] = Fresh /\ UNCHANGED <<table, past>>
    BY <1>5, FailsDoes DEF Good
  <2>3. EndReason(h, from, to)
    BY <1>5
  <2> QED
    BY <2>1, <2>2, <2>3 DEF Ends, Ended
<1>6. ASSUME NEW h \in Handlers, Filter(h, "filter", Cardinality(Entries)), UNCHANGED <<table, past>>
      PROVE  StepOf(h)
  <2>1. Cardinality(Entries) \in Nat
    BY FS_Subset, FS_CardinalityType, ScoreboardAssumption DEF Good, TypeOK
  <2>2. \/ Counts(h, "find")
        \/ Counts(h, "scan")
        \/ Frame(h, "filter", "done") /\ own'[h] = Fresh /\ EndReason(h, "filter", "done")
    BY <1>6, <2>1, FilterDoes DEF Good, Counts, EndReason
  <2> QED
    BY <1>6, <2>2 DEF Ends, Ended
<1>7. ASSUME NEW h \in Handlers, RemoveLowest(h) PROVE StepOf(h)
  <2>1. CASE FilterFails(h, "remove") /\ \A to : EndReason(h, "remove", to)
    BY <2>1, <1>5
  <2>2. CASE /\ Filter(h, "remove", own[h].total_scores - 1) /\ UNCHANGED <<written, past>>
             /\ own[h].total_scores - 1 \in Nat
             /\ Entries' \subseteq Entries /\ Entries \subseteq Entries' \union {own[h].lowest}
             /\ own[h].lowest \notin Entries'
             /\ \A n \in Entries' : files'[n] = files[n]
    <3>1. \E to : Removes(h, to)
      BY <2>2, FilterDoes DEF Removes, Good
    <3> QED
      BY <3>1
  <2> QED
    BY <1>7, <2>1, <2>2, RemoveDoes
<1>8. ASSUME NEW h \in Handlers, FindLowest(h) PROVE StepOf(h)
  <2>1. Entries # {} => LowestOf(Entries) \in Names
    BY Lowest DEF Good, TypeOK
  <2>2. (IF Entries = {} THEN None ELSE LowestOf(Entries)) \in Names \union {None}
    BY <2>1
  <2>3. ASSUME NEW n \in Names \union {None}, Find(h, n), Entries # {} => n = LowestOf(Entries)
        PROVE  Finds(h)
    BY <2>3, FindDoes DEF Finds, Good
  <2>4. CASE Find(h, IF Entries = {} THEN None ELSE LowestOf(Entries))
    BY <2>2, <2>3, <2>4
  <2>5. CASE ~ dir /\ FilterFails(h, "find")
    BY <2>5, <1>5 DEF EndReason
  <2> QED
    BY <1>8, <2>4, <2>5 DEF FindLowest
<1>9. ASSUME NEW h \in Handlers, get_scoreboard(h) PROVE StepOf(h)
  <2>1. ASSUME NEW from \in {"idle", "scan", "open", "read"}, NEW tok \in Ended, Answer(h, from, tok), EndReason(h, from, tok)
        PROVE  StepOf(h)
    BY <2>1, AnswerDoes DEF Good, Ends
  <2>2. CASE Entries # {} /\ Go(h, "idle", "filter") /\ UNCHANGED <<table, own, past>>
    BY <2>2, GoDoesNot DEF Good, Locations, Moves
  <2>3. CASE dir /\ Go(h, "scan", "open") /\ own' = [own EXCEPT ![h].list = Entries] /\ UNCHANGED <<table, past>>
    BY <2>3, ListDoes DEF Good, Lists
  <2>4. CASE own[h].list # {} /\ HighestOf(own[h].list) \in Entries /\ Open(h, HighestOf(own[h].list))
    BY <2>4, OpenDoes DEF Good, Opens
  <2>5. CASE own[h].fd \in written /\ own[h].name \in Names /\ Keep(h)
    BY <2>5, KeepDoes DEF Good, Keeps
  <2> QED
    BY <1>9, <2>1, <2>2, <2>3, <2>4, <2>5, ShowDoes
<1>10. ASSUME NEW h \in Handlers, Interrupt(h) PROVE StepOf(h)
  BY <1>10, InterruptDoes DEF Dies
<1>11. ASSUME NEW h \in Handlers, ~ dir, FilterFails(h, "filter") PROVE StepOf(h)
  BY <1>11, <1>5 DEF EndReason
<1> HIDE DEF StepOf, SameWork
<1> QED
  BY <1>1, <1>2, <1>3, <1>4, <1>6, <1>7, <1>8, <1>9, <1>10, <1>11
     DEF Next, AllEnded, Work, save_score, filter_scoreboard, CountScores
----------------------------------------------------------------------------
(* The names of inodes.  A handler that reads from an inode, or writes to  *)
(* it, got it under some name, which is the only one that it ever has: the *)
(* line that it reads is that of the name it keeps.                        *)
Holds(i, n) ==
  \/ n \in Entries /\ files[n] = i
  \/ \E h \in Handlers : own[h].name = n /\ own[h].fd = i

OneName == \A i \in Inodes : \A m, n \in Names : Holds(i, m) /\ Holds(i, n) => m = n
NewInode ==
  \A h \in Handlers : pc[h] \in {"idle", "create"} => h \notin written /\ \A n \in Names : ~ Holds(h, n)
WrittenIsSaved == \A i \in written : \A n \in Names : Holds(i, n) => n \in saved

Naming == OneName /\ NewInode /\ WrittenIsSaved

(* What is held after a step of h. *)
LEMMA HoldsAfter ==
  ASSUME NEW h \in Handlers, NEW from, NEW to, Frame(h, from, to), NEW i, NEW n, Holds(i, n)'
  PROVE  \/ n \in Entries' /\ files'[n] = i
         \/ own'[h].name = n /\ own'[h].fd = i
         \/ \E g \in Handlers : g # h /\ own[g].name = n /\ own[g].fd = i
BY DEF Holds, Frame

(* A step that makes no inode and writes nothing that was not written. *)
LEMMA NamingFrame ==
  ASSUME Naming, TypeOK, NEW h \in Handlers, NEW from, NEW to, Frame(h, from, to),
         to \in {"idle", "create"} => from \in {"idle", "create"},
         \A n \in Entries' : n \in Entries /\ files'[n] = files[n],
         \/ own'[h].name \notin Names
         \/ own'[h].name = own[h].name /\ own'[h].fd = own[h].fd
         \/ own'[h].name \in Entries /\ own'[h].fd = files[own'[h].name],
         written' \subseteq written, saved' = saved
  PROVE  Naming'
<1>1. ASSUME NEW i, NEW n \in Names, Holds(i, n)' PROVE Holds(i, n)
  <2>1. \/ n \in Entries' /\ files'[n] = i
        \/ own'[h].name = n /\ own'[h].fd = i
        \/ \E g \in Handlers : g # h /\ own[g].name = n /\ own[g].fd = i
    BY <1>1, HoldsAfter
  <2> QED
    BY <2>1 DEF Holds
<1>2. OneName'
  BY <1>1 DEF Naming, OneName
<1>3. NewInode'
  <2> SUFFICES ASSUME NEW g \in Handlers, pc'[g] \in {"idle", "create"}
               PROVE  g \notin written' /\ \A n \in Names : ~ Holds(g, n)'
    BY DEF NewInode
  <2>1. pc[g] \in {"idle", "create"}
    BY DEF Frame
  <2> QED
    BY <2>1, <1>1 DEF Naming, NewInode
<1>4. WrittenIsSaved'
  BY <1>1 DEF Naming, WrittenIsSaved
<1> QED
  BY <1>2, <1>3, <1>4 DEF Naming

(* fopen(file_name, "w"), on a file that is there and on one that is not. *)
LEMMA NamingOpen ==
  ASSUME Naming, TypeOK, NEW h \in Handlers, NEW n \in Names, OpensScore(h, n)
  PROVE  Naming'
<1>1. /\ Frame(h, "create", "lock")
      /\ own'[h].name = n /\ own'[h].fd = files'[n] /\ saved' = saved
      /\ Entries' = Entries \union {n} /\ \A m \in Entries : files'[m] = files[m]
      /\ \/ n \in Entries /\ written' = written \ {files[n]}
         \/ n \notin Entries /\ files'[n] = h /\ written' = written
  BY DEF OpensScore
<1>2. CASE n \in Entries /\ written' = written \ {files[n]}
  <2>1. own'[h].name \in Entries /\ own'[h].fd = files[own'[h].name] /\ written' \subseteq written
    BY <1>1, <1>2
  <2> QED
    BY <1>1, <2>1, NamingFrame
<1>3. CASE n \notin Entries /\ files'[n] = h /\ written' = written
  <2>1. pc[h] = "create" /\ pc'[h] = "lock" /\ h \notin written /\ \A m \in Names : ~ Holds(h, m)
    BY <1>1 DEF Frame, Naming, NewInode
  <2>2. ASSUME NEW i, NEW m \in Names, Holds(i, m)' PROVE Holds(i, m) \/ (i = h /\ m = n)
    <3>1. \/ m \in Entries' /\ files'[m] = i
          \/ own'[h].name = m /\ own'[h].fd = i
          \/ \E g \in Handlers : g # h /\ own[g].name = m /\ own[g].fd = i
      BY <2>2, <1>1, HoldsAfter
    <3> QED
      BY <3>1, <1>1, <1>3 DEF Holds
  <2>3. OneName'
    BY <2>1, <2>2 DEF Naming, OneName
  <2>4. NewInode'
    <3> SUFFICES ASSUME NEW g \in Handlers, pc'[g] \in {"idle", "create"}
                 PROVE  g \notin written' /\ \A m \in Names : ~ Holds(g, m)'
      BY DEF NewInode
    <3>1. g # h /\ pc[g] = pc'[g]
      BY <2>1, <1>1 DEF Frame
    <3> QED
      BY <3>1, <2>2, <1>3 DEF Naming, NewInode
  <2>5. WrittenIsSaved'
    <3> SUFFICES ASSUME NEW i \in written, NEW m \in Names, Holds(i, m)' PROVE m \in saved
      BY <1>1, <1>3 DEF WrittenIsSaved
    <3>1. Holds(i, m)
      BY <2>1, <2>2
    <3> QED
      BY <3>1 DEF Naming, WrittenIsSaved
  <2> QED
    BY <2>3, <2>4, <2>5 DEF Naming
<1> QED
  BY <1>1, <1>2, <1>3

(* The buffer is written: under the name that the inode has. *)
LEMMA NamingFlush ==
  ASSUME Naming, Good, NEW h \in Handlers, NEW to \in {"filter", "dead"}, Frame(h, "close", to), Flush(h),
         own'[h].name = None, UNCHANGED files
  PROVE  Naming'
<1>1. pc[h] = "close" /\ own[h].name \in Names /\ own[h].fd \in Inodes /\ Entries' = Entries
  BY DEF Frame, Good, Places, Entries
<1>2. Holds(own[h].fd, own[h].name)
  BY DEF Holds
<1>3. None \notin Names
  BY ScoreboardAssumption
<1>4. ASSUME NEW i, NEW n \in Names, Holds(i, n)' PROVE Holds(i, n)
  BY <1>1, <1>3, <1>4, HoldsAfter DEF Holds
<1>5. OneName'
  BY <1>4 DEF Naming, OneName
<1>6. NewInode'
  <2> SUFFICES ASSUME NEW g \in Handlers, pc'[g] \in {"idle", "create"}
               PROVE  g \notin written' /\ \A n \in Names : ~ Holds(g, n)'
    BY DEF NewInode
  <2>1. pc[g] = pc'[g]
    BY DEF Frame
  <2>2. g # own[h].fd
    BY <2>1, <1>1, <1>2 DEF Naming, NewInode
  <2> QED
    BY <2>1, <2>2, <1>4 DEF Naming, NewInode, Flush
<1>7. WrittenIsSaved'
  <2> SUFFICES ASSUME NEW i \in written', NEW n \in Names, Holds(i, n)' PROVE n \in saved'
    BY DEF WrittenIsSaved
  <2>1. Holds(i, n)
    BY <1>4
  <2>2. CASE i = own[h].fd
    BY <2>1, <2>2, <1>1, <1>2 DEF Naming, OneName, Flush
  <2>3. CASE i # own[h].fd
    BY <2>1, <2>3 DEF Naming, WrittenIsSaved, Flush
  <2> QED
    BY <2>2, <2>3
<1> QED
  BY <1>5, <1>6, <1>7 DEF Naming
(* Steps after which h holds nothing, or what it held. *)
LEMMA NamingOnly ==
  ASSUME Naming, TypeOK, NEW h \in Handlers, NEW from, NEW to, Frame(h, from, to),
         to \in {"idle", "create"} => from \in {"idle", "create"},
         UNCHANGED <<files, written, saved>>,
         \/ own'[h].name = None
         \/ own'[h].name = own[h].name /\ own'[h].fd = own[h].fd
         \/ own'[h].name \in Entries /\ own'[h].fd = files[own'[h].name]
  PROVE  Naming'
<1>1. Entries' = Entries /\ None \notin Names
  BY ScoreboardAssumption DEF Entries
<1> QED
  BY <1>1, NamingFrame

(* Every step keeps Naming. *)
LEMMA NamingStep ==
  ASSUME Naming, Good, [Next]_vars
  PROVE  Naming'
<1> USE DEF Ended
<1>1. (UNCHANGED <<table, past>> => UNCHANGED <<files, written, saved>>) /\ Fresh.name = None
  BY DEF table, past, Fresh
<1>2. ASSUME NEW h \in Handlers, Starts(h) \/ (\E to : Counts(h, to)) \/ Finds(h) \/ Lists(h) PROVE Naming'
  <2>1. \/ Frame(h, "idle", "create")
        \/ \E to \in {"find", "scan"} : Frame(h, "filter", to)
        \/ Frame(h, "find", "remove")
        \/ Frame(h, "scan", "open")
    BY <1>2 DEF Starts, Counts, Finds, Lists
  <2>2. own'[h].name = own[h].name /\ own'[h].fd = own[h].fd /\ UNCHANGED <<files, written, saved>>
    BY <1>1, <1>2 DEF Starts, Counts, Finds, Lists, SameWork, past
  <2> QED
    BY <2>1, <2>2, NamingOnly DEF Good
<1>3. ASSUME NEW h \in Handlers, NEW from, NEW to, Moves(h, from, to) PROVE Naming'
  BY <1>1, <1>3, NamingOnly DEF Moves, Good
<1>4. ASSUME NEW h \in Handlers, NEW n \in Names, OpensScore(h, n) PROVE Naming'
  BY <1>4, NamingOpen DEF Good
<1>5. ASSUME NEW h \in Handlers, Closes(h) PROVE Naming'
  BY <1>5, NamingFlush DEF Closes
<1>6. ASSUME NEW h \in Handlers, NEW from, NEW to, Ends(h, from, to) PROVE Naming'
  BY <1>1, <1>6, NamingOnly DEF Ends, Good
<1>7. ASSUME NEW h \in Handlers, NEW to, Removes(h, to) PROVE Naming'
  <2>1. own'[h].name \notin Names \/ (own'[h].name = own[h].name /\ own'[h].fd = own[h].fd)
    BY <1>1, <1>7, ScoreboardAssumption DEF Removes, SameWork
  <2> QED
    BY <1>7, <2>1, NamingFrame DEF Removes, Good, past
<1>8. ASSUME NEW h \in Handlers, NEW n, Opens(h, n) PROVE Naming'
  BY <1>1, <1>8, NamingOnly DEF Opens, Good
<1>9. ASSUME NEW h \in Handlers, Keeps(h) PROVE Naming'
  BY <1>1, <1>9, NamingOnly DEF Keeps, Good
<1>10. ASSUME NEW h \in Handlers, Dies(h) PROVE Naming'
  <2>1. CASE pc[h] = "close"
    BY <1>10, <2>1, NamingFlush DEF Dies
  <2>2. CASE pc[h] # "close"
    BY <1>10, <2>2, NamingOnly DEF Dies, Good
  <2> QED
    BY <2>1, <2>2
<1>11. CASE UNCHANGED vars
  BY <1>11 DEF vars, table, past, Naming, OneName, NewInode, WrittenIsSaved, Holds, Entries
<1> QED
  BY <1>2, <1>3, <1>4, <1>5, <1>6, <1>7, <1>8, <1>9, <1>10, <1>11, StepForms DEF StepOf

----------------------------------------------------------------------------
(* The lines of an answer.  What is still to be read is below what was     *)
(* read: the list is gone through from its highest name down.              *)
Descending(h) ==
  /\ \A k \in DOMAIN own[h].lines :
       own[h].lines[k] \in saved /\ (k > 1 => own[h].lines[k - 1] > own[h].lines[k])
  /\ pc[h] \notin {"open", "read"} => own[h].lines = << >>
  /\ pc[h] = "open" =>
       \A m \in own[h].list : own[h].lines # << >> => own[h].lines[Len(own[h].lines)] > m
  /\ pc[h] = "read" =>
       /\ \A m \in own[h].list : own[h].name > m
       /\ own[h].lines # << >> => own[h].lines[Len(own[h].lines)] > own[h].name

Lines == \A h \in Handlers : Descending(h)

(* No score is forgotten, and so the lines of the others stay. *)
LEMMA LinesFrame ==
  ASSUME Lines, NEW h \in Handlers, NEW from, NEW to, Frame(h, from, to), saved \subseteq saved', Descending(h)'
  PROVE  Lines'
<1>1. ASSUME NEW g \in Handlers, g # h PROVE Descending(g)'
  <2>1. pc'[g] = pc[g] /\ own'[g] = own[g] /\ Descending(g)
    BY <1>1 DEF Frame, Lines
  <2> QED
    BY <2>1 DEF Descending
<1> QED
  BY <1>1 DEF Lines

(* Every step keeps Lines. *)
LEMMA LinesStep ==
  ASSUME Lines, Naming, Good, [Next]_vars
  PROVE  Lines'
<1> USE DEF Ended
<1>1. UNCHANGED <<table, past>> => saved' = saved /\ Entries' = Entries
  BY DEF table, past, Entries
<1>2. \A h \in Handlers : own[h].lines \in Seq(Names) /\ own[h].list \subseteq Names
  BY DEF Good, TypeOK, Process
<1>3. ASSUME NEW h \in Handlers, NEW from, NEW to, Frame(h, from, to), to \notin {"open", "read"},
             own'[h].lines = << >>, saved \subseteq saved'
      PROVE  Lines'
  <2>1. Descending(h)'
    BY <1>3 DEF Frame, Descending
  <2> QED
    BY <1>3, <2>1, LinesFrame
<1>4. ASSUME NEW h \in Handlers, NEW from, NEW to, Frame(h, from, to), to \notin {"open", "read"},
             from \notin {"open", "read"}, own'[h].lines = own[h].lines, saved \subseteq saved'
      PROVE  Lines'
  <2>1. own[h].lines = << >>
    BY <1>4 DEF Frame, Lines, Descending
  <2> QED
    BY <1>3, <1>4, <2>1
<1>5. ASSUME NEW h \in Handlers, Starts(h) \/ (\E n \in Names : OpensScore(h, n)) \/ (\E from, to : Moves(h, from, to))
                                 \/ Closes(h) \/ (\E to : Counts(h, to)) \/ Finds(h)
      PROVE  Lines'
  <2>1. /\ saved \subseteq saved' /\ own'[h].lines = own[h].lines
        /\ \/ Frame(h, "idle", "create") \/ Frame(h, "create", "lock")
           \/ Frame(h, "lock", "print") \/ Frame(h, "print", "close") \/ Frame(h, "idle", "filter")
           \/ Frame(h, "close", "filter") \/ Frame(h, "filter", "find") \/ Frame(h, "filter", "scan")
           \/ Frame(h, "find", "remove")
    BY <1>1, <1>5 DEF Starts, OpensScore, Moves, Closes, Counts, Finds, SameWork, Flush, past
  <2> QED
    BY <2>1, <1>4
<1>6. ASSUME NEW h \in Handlers, NEW from, NEW to, Ends(h, from, to) PROVE Lines'
  <2>1. Frame(h, from, to) /\ own'[h] = Fresh /\ saved' = saved /\ to \in Ended
    BY <1>1, <1>6 DEF Ends
  <2>2. Fresh.lines = << >>
    BY DEF Fresh
  <2> QED
    BY <1>3, <2>1, <2>2
<1>7. ASSUME NEW h \in Handlers, NEW to, Removes(h, to) PROVE Lines'
  <2>1. CASE to = "done" /\ own'[h] = Fresh
    BY <1>3, <1>7, <2>1 DEF Removes, Fresh, past
  <2>2. CASE to \in {"find", "scan"} /\ own'[h].lines = own[h].lines
    BY <1>4, <1>7, <2>2 DEF Removes, past
  <2> QED
    BY <1>7, <2>1, <2>2 DEF Removes, SameWork
<1>8. ASSUME NEW h \in Handlers, Lists(h) PROVE Lines'
  <2>1. Frame(h, "scan", "open") /\ own'[h].lines = own[h].lines /\ saved' = saved
    BY <1>1, <1>8 DEF Lists, SameWork
  <2>2. own'[h].lines = << >> /\ pc'[h] = "open"
    BY <2>1 DEF Frame, Lines, Descending
  <2>3. Descending(h)'
    BY <2>2 DEF Descending
  <2> QED
    BY <2>1, <2>3, LinesFrame
<1>9. ASSUME NEW h \in Handlers, NEW n, Opens(h, n) PROVE Lines'
  <2>1. /\ Frame(h, "open", "read") /\ own'[h].lines = own[h].lines /\ saved' = saved
        /\ own'[h].list = own[h].list \ {n} /\ own'[h].name = n /\ n = HighestOf(own[h].list)
        /\ own[h].list # {}
    BY <1>1, <1>9 DEF Opens
  <2>2. n \in own[h].list /\ \A m \in own[h].list : m <= n
    BY <2>1, <1>2, Highest
  <2>3. \A m \in own'[h].list : n > m
    <3> SUFFICES ASSUME NEW m \in own[h].list, m # n PROVE n > m
      BY <2>1
    <3>1. m \in Nat /\ n \in Nat /\ m <= n
      BY <2>2, <1>2, ScoreboardAssumption
    <3> QED
      BY <3>1
  <2>4. Descending(h) /\ pc[h] = "open" /\ pc'[h] = "read"
    BY <2>1 DEF Frame, Lines
  <2>5. Descending(h)'
    BY <2>1, <2>2, <2>3, <2>4 DEF Descending
  <2> QED
    BY <2>1, <2>5, LinesFrame
<1>10. ASSUME NEW h \in Handlers, Keeps(h) PROVE Lines'
  <2> DEFINE old == own[h].lines
             new == Append(old, own[h].name)
  <2>1. /\ Frame(h, "read", "open") /\ own'[h].lines = new /\ own'[h].list = own[h].list
        /\ own[h].fd \in written /\ own[h].name \in Names /\ saved' = saved
    BY <1>1, <1>10 DEF Keeps
  <2>2. own[h].name \in saved
    <3>1. Holds(own[h].fd, own[h].name)
      BY DEF Holds
    <3> QED
      BY <3>1, <2>1 DEF Naming, WrittenIsSaved
  <2>3. Descending(h) /\ pc[h] = "read" /\ pc'[h] = "open"
    BY <2>1 DEF Frame, Lines
  <2>4. /\ Len(new) = Len(old) + 1 /\ Len(old) \in Nat /\ DOMAIN new = 1..Len(new) /\ DOMAIN old = 1..Len(old)
        /\ new[Len(new)] = own[h].name /\ \A k \in DOMAIN old : new[k] = old[k]
    BY <2>1, <1>2
  <2>5. old # << >> => Len(old) \in DOMAIN old /\ old[Len(old)] > own[h].name
    BY <2>3, <1>2 DEF Descending
  <2>6. ASSUME NEW k \in DOMAIN new PROVE new[k] \in saved /\ (k > 1 => new[k - 1] > new[k])
    <3>1. CASE k = Len(new)
      <4>1. k > 1 => k - 1 = Len(old) /\ old # << >>
        BY <2>4, <3>1
      <4> QED
        BY <2>2, <2>4, <2>5, <3>1, <4>1
    <3>2. CASE k # Len(new)
      <4>1. k \in DOMAIN old /\ (k > 1 => k - 1 \in DOMAIN old)
        BY <2>4, <3>2
      <4> QED
        BY <4>1, <2>3, <2>4 DEF Descending
    <3> QED
      BY <3>1, <3>2
  <2>7. \A m \in own[h].list : new[Len(new)] > m
    BY <2>3, <2>4 DEF Descending
  <2> HIDE DEF new, old
  <2>8. Descending(h)'
    BY <2>1, <2>3, <2>6, <2>7 DEF Descending
  <2> QED
    BY <2>1, <2>8, LinesFrame
<1>11. ASSUME NEW h \in Handlers, Dies(h) PROVE Lines'
  <2>1. saved \subseteq saved'
    BY <1>11 DEF Dies, Flush
  <2> QED
    BY <1>3, <1>11, <2>1 DEF Dies
<1>12. CASE UNCHANGED vars
  <2>1. pc' = pc /\ own' = own /\ saved' = saved
    BY <1>12 DEF vars, past
  <2> QED
    BY <2>1 DEF Lines, Descending
<1> QED
  BY <1>5, <1>6, <1>7, <1>8, <1>9, <1>10, <1>11, <1>12, StepForms DEF StepOf
----------------------------------------------------------------------------
(* Files without a line.  Who leaves the places between fopen and fclose   *)
(* has written the line, or died.                                          *)
Unfinished == {"lock", "print", "close", "dead"}

(* A step that makes no file and no file empty, and whose handler had      *)
(* nothing to write, keeps the inode that it is to write, or has written   *)
(* it, leaves no stray empty file.                                         *)
LEMMA EmptyFrame ==
  ASSUME EmptyIsUnfinished, NEW h \in Handlers, NEW from, NEW to, Frame(h, from, to),
         \A n \in Entries' : n \in Entries /\ files'[n] = files[n],
         written \subseteq written',
         \/ from \notin Unfinished
         \/ to \in Unfinished /\ own'[h].fd = own[h].fd
         \/ own[h].fd \in written'
  PROVE  EmptyIsUnfinished'
<1> SUFFICES ASSUME NEW n \in Entries', files'[n] \notin written'
             PROVE  \E g \in Handlers : own'[g].fd = files'[n] /\ pc'[g] \in Unfinished
  BY DEF EmptyIsUnfinished, Unfinished
<1>1. PICK g \in Handlers : own[g].fd = files[n] /\ pc[g] \in Unfinished
  BY DEF EmptyIsUnfinished, Unfinished
<1>2. CASE g = h
  BY <1>1, <1>2 DEF Frame
<1>3. CASE g # h
  BY <1>1, <1>3 DEF Frame
<1> QED
  BY <1>2, <1>3

(* Every step keeps EmptyIsUnfinished. *)
LEMMA EmptyStep ==
  ASSUME EmptyIsUnfinished, Good, [Next]_vars
  PROVE  EmptyIsUnfinished'
<1>1. UNCHANGED <<table, past>> => Entries' = Entries /\ files' = files /\ written' = written
  BY DEF table, past, Entries
<1>2. ASSUME NEW h \in Handlers, Starts(h) \/ (\E to : Counts(h, to)) \/ Finds(h) \/ Lists(h)
                                 \/ (\E n : Opens(h, n)) \/ Keeps(h) \/ Moves(h, "idle", "filter")
      PROVE  EmptyIsUnfinished'
  <2>1. Entries' = Entries /\ files' = files /\ written' = written
    BY <1>1, <1>2 DEF Starts, Counts, Finds, Lists, Opens, Keeps, Moves, Entries
  <2>2. \E from \in {"idle", "filter", "find", "scan", "open", "read"} : \E to : Frame(h, from, to)
    BY <1>2 DEF Starts, Counts, Finds, Lists, Opens, Keeps, Moves
  <2> QED
    BY <2>1, <2>2, EmptyFrame DEF Unfinished
<1>3. ASSUME NEW h \in Handlers, NEW from, NEW to, Ends(h, from, to) PROVE EmptyIsUnfinished'
  BY <1>1, <1>3, EmptyFrame DEF Ends, Unfinished
<1>4. ASSUME NEW h \in Handlers, NEW from, NEW to, Moves(h, from, to), from # "idle" PROVE EmptyIsUnfinished'
  BY <1>1, <1>4, EmptyFrame DEF Moves, Unfinished
<1>5. ASSUME NEW h \in Handlers, NEW n \in Names, OpensScore(h, n) PROVE EmptyIsUnfinished'
  <2> SUFFICES ASSUME NEW m \in Entries', files'[m] \notin written'
               PROVE  \E g \in Handlers : own'[g].fd = files'[m] /\ pc'[g] \in Unfinished
    BY DEF EmptyIsUnfinished, Unfinished
  <2>1. /\ Frame(h, "create", "lock") /\ own'[h].fd = files'[n]
        /\ Entries' = Entries \union {n} /\ \A k \in Entries : files'[k] = files[k]
        /\ \/ n \in Entries /\ written' = written \ {files[n]}
           \/ written' = written
    BY <1>5 DEF OpensScore
  <2>2. CASE files'[m] = files'[n]
    BY <2>1, <2>2 DEF Frame, Unfinished
  <2>3. CASE files'[m] # files'[n]
    <3>1. m \in Entries /\ files[m] = files'[m] /\ files[m] \notin written
      BY <2>1, <2>3
    <3>2. PICK g \in Handlers : own[g].fd = files[m] /\ pc[g] \in Unfinished
      BY <3>1 DEF EmptyIsUnfinished, Unfinished
    <3>3. g # h
      BY <2>1, <3>2 DEF Frame, Unfinished
    <3> QED
      BY <2>1, <3>1, <3>2, <3>3 DEF Frame
  <2> QED
    BY <2>2, <2>3
<1>6. ASSUME NEW h \in Handlers, Closes(h) PROVE EmptyIsUnfinished'
  <2>1. Frame(h, "close", "filter") /\ own[h].fd \in written' /\ written \subseteq written' /\ files' = files
    BY <1>6 DEF Closes, Flush
  <2>2. Entries' = Entries
    BY <2>1 DEF Entries
  <2> QED
    BY <2>1, <2>2, EmptyFrame
<1>7. ASSUME NEW h \in Handlers, NEW to, Removes(h, to) PROVE EmptyIsUnfinished'
  BY <1>7, EmptyFrame DEF Removes, Unfinished
<1>8. ASSUME NEW h \in Handlers, Dies(h) PROVE EmptyIsUnfinished'
  <2>1. Frame(h, pc[h], "dead") /\ files' = files /\ written \subseteq written' /\ h \in Busy
    BY <1>8 DEF Dies, Flush
  <2>2. Entries' = Entries
    BY <2>1 DEF Entries
  <2>3. CASE pc[h] = "close"
    <3>1. own[h].fd \in written'
      BY <1>8, <2>3 DEF Dies, Flush
    <3> QED
      BY <2>1, <2>2, <3>1, EmptyFrame
  <2>4. CASE pc[h] \in {"lock", "print"}
    <3>1. own'[h].fd = own[h].fd
      BY <1>8, <2>4 DEF Dies, Good, Places, Saving
    <3> QED
      BY <2>1, <2>2, <3>1, EmptyFrame DEF Unfinished
  <2>5. CASE pc[h] \notin Unfinished
    BY <2>1, <2>2, <2>5, EmptyFrame
  <2>6. pc[h] # "dead"
    BY <2>1 DEF Busy, Ended
  <2> QED
    BY <2>3, <2>4, <2>5, <2>6 DEF Unfinished
<1>9. CASE UNCHANGED vars
  <2>1. pc' = pc /\ own' = own /\ files' = files /\ written' = written
    BY <1>9 DEF vars, table
  <2> QED
    BY <2>1 DEF EmptyIsUnfinished, Entries
<1>10. ASSUME NEW h \in Handlers, NEW from, NEW to, Moves(h, from, to) PROVE EmptyIsUnfinished'
  <2>1. from = "idle" => to = "filter"
    BY <1>10 DEF Moves
  <2> QED
    BY <1>2, <1>4, <1>10, <2>1
<1> QED
  BY <1>2, <1>3, <1>5, <1>6, <1>7, <1>8, <1>9, <1>10, StepForms DEF StepOf
----------------------------------------------------------------------------
(* What is lost.  A handler that removes files has a budget of those that  *)
(* it counted above TOP_SCORE, which are at most Excess; Spent is the part *)
(* of all budgets that is used, or will not be used any more.              *)
Lost == created \ Entries
Removing == {"find", "remove"}
Left(h) == IF pc[h] \in Removing THEN own[h].total_scores - TOP_SCORE ELSE 0
Spent == {hk \in Filtered \X (1..Excess) : hk[2] > Left(hk[1])}

Budget ==
  /\ Cardinality(Lost) <= Cardinality(Spent)
  /\ \A h \in Handlers : pc[h] \in Removing => own[h].total_scores - TOP_SCORE <= Excess

(* The excess is a number. *)
LEMMA ExcessIsNat == TypeOK => Excess \in Nat
<1> SUFFICES ASSUME TypeOK PROVE Excess \in Nat
  OBVIOUS
<1>1. Cardinality(created) \in Nat
  BY FS_Subset, FS_CardinalityType, ScoreboardAssumption DEF TypeOK
<1> QED
  BY <1>1, ScoreboardAssumption DEF Excess

(* No file is ever taken from those that were created, so the excess does  *)
(* not shrink.                                                             *)
LEMMA ExcessGrows ==
  ASSUME TypeOK, TypeOK', created \subseteq created'
  PROVE  Excess <= Excess'
<1>1. IsFiniteSet(created') /\ IsFiniteSet(created)
  BY FS_Subset, ScoreboardAssumption DEF TypeOK
<1>2. Cardinality(created) <= Cardinality(created')
  BY <1>1, FS_Subset
<1>3. Cardinality(created) \in Nat /\ Cardinality(created') \in Nat /\ TOP_SCORE \in Nat
  BY <1>1, FS_CardinalityType, ScoreboardAssumption
<1> QED
  BY <1>2, <1>3 DEF Excess

(* The same about a step. *)
LEMMA ExcessThen ==
  ASSUME TypeOK, TypeOK', created \subseteq created'
  PROVE  Excess \in Nat /\ Excess' \in Nat /\ Excess <= Excess'
<1>1. TypeOK' => (Excess \in Nat)'
  BY ExcessIsNat, PTL
<1> QED
  BY <1>1, ExcessIsNat, ExcessGrows

(* Both sets are finite, and so the larger one has more members. *)
LEMMA SpentIsFinite ==
  TypeOK => /\ IsFiniteSet(Spent) /\ Cardinality(Spent) \in Nat
            /\ Cardinality(Spent) <= Cardinality(Filtered) * Excess
<1> SUFFICES ASSUME TypeOK
             PROVE  /\ IsFiniteSet(Spent) /\ Cardinality(Spent) \in Nat
                    /\ Cardinality(Spent) <= Cardinality(Filtered) * Excess
  OBVIOUS
<1>1. Excess \in Nat
  BY ExcessIsNat
<1>2. IsFiniteSet(1..Excess) /\ Cardinality(1..Excess) = Excess
  <2>1. IsFiniteSet(1..Excess) /\ Cardinality(1..Excess) = IF 1 > Excess THEN 0 ELSE Excess - 1 + 1
    BY <1>1, FS_Interval
  <2> QED
    BY <1>1, <2>1
<1>3. IsFiniteSet(Filtered)
  BY FS_Subset, ScoreboardAssumption DEF Filtered
<1>4. /\ IsFiniteSet(Filtered \X (1..Excess))
      /\ Cardinality(Filtered \X (1..Excess)) = Cardinality(Filtered) * Excess
  BY <1>2, <1>3, FS_Product
<1>5. Spent \subseteq Filtered \X (1..Excess)
  BY DEF Spent
<1> QED
  BY <1>4, <1>5, FS_Subset, FS_CardinalityType

(* The names that were lost are finitely many. *)
LEMMA LostIsFinite == TypeOK => IsFiniteSet(Lost) /\ Cardinality(Lost) \in Nat
BY FS_Subset, FS_CardinalityType, ScoreboardAssumption DEF TypeOK, Lost

(* Before and after a step both sides of the budget are finite. *)
LEMMA FiniteThen ==
  ASSUME TypeOK, TypeOK'
  PROVE  /\ IsFiniteSet(Lost) /\ Cardinality(Lost) \in Nat
         /\ IsFiniteSet(Lost') /\ Cardinality(Lost') \in Nat
         /\ IsFiniteSet(Spent) /\ Cardinality(Spent) \in Nat
         /\ IsFiniteSet(Spent') /\ Cardinality(Spent') \in Nat
<1>1. TypeOK' => IsFiniteSet(Lost)' /\ (Cardinality(Lost) \in Nat)'
  BY LostIsFinite, PTL
<1>2. TypeOK' => /\ IsFiniteSet(Spent)' /\ (Cardinality(Spent) \in Nat)'
                 /\ (Cardinality(Spent) <= Cardinality(Filtered) * Excess)'
  BY SpentIsFinite, PTL
<1> QED
  BY <1>1, <1>2, LostIsFinite, SpentIsFinite

(* What was spent stays spent, unless the handler that did begins anew. *)
LEMMA SpentStays ==
  ASSUME TypeOK, TypeOK', NEW h \in Handlers, NEW from, NEW to, Frame(h, from, to), created \subseteq created',
         from \in Ended \union {"find", "remove", "scan", "open", "read"} =>
           to \in Ended \union {"find", "remove", "scan", "open", "read"},
         h \in Filtered => Left(h)' <= Left(h)
  PROVE  Spent \subseteq Spent'
<1>1. Filtered \subseteq Filtered'
  BY DEF Frame, Filtered
<1>2. 1..Excess \subseteq 1..Excess'
  <2>1. Excess \in Nat /\ Excess' \in Nat /\ Excess <= Excess'
    BY ExcessThen
  <2> QED
    BY <2>1
<1>3. ASSUME NEW hk \in Spent PROVE hk[2] > Left(hk[1])'
  <2>1. hk \in Filtered \X (1..Excess) /\ hk[2] > Left(hk[1])
    BY DEF Spent
  <2> DEFINE g == hk[1]
             k == hk[2]
  <2>2. g \in Handlers /\ k \in Nat
    BY <2>1, ExcessIsNat DEF Filtered
  <2>3. CASE g = h
    <3>1. Left(h)' <= Left(h) /\ k > Left(h)
      BY <2>1, <2>3
    <3>2. Left(h) \in Int /\ Left(h)' \in Int
      BY ScoreboardAssumption DEF Left, TypeOK, Process
    <3> QED
      BY <2>2, <2>3, <3>1, <3>2
  <2>4. CASE g # h
    BY <2>1, <2>2, <2>4 DEF Frame, Left
  <2> QED
    BY <2>3, <2>4
<1> QED
  BY <1>1, <1>2, <1>3 DEF Spent

(* A step that loses nothing. *)
LEMMA BudgetFrame ==
  ASSUME Budget, TypeOK, TypeOK', NEW h \in Handlers, NEW from, NEW to, Frame(h, from, to),
         created \subseteq created', Lost' \subseteq Lost,
         from \in Ended \union {"find", "remove", "scan", "open", "read"} =>
           to \in Ended \union {"find", "remove", "scan", "open", "read"},
         h \in Filtered => Left(h)' <= Left(h),
         to \in Removing => own'[h].total_scores - TOP_SCORE <= Excess
  PROVE  Budget'
<1>1. Spent \subseteq Spent'
  BY SpentStays
<1>2. Cardinality(Lost') <= Cardinality(Lost) /\ Cardinality(Spent) <= Cardinality(Spent')
  BY <1>1, FiniteThen, FS_Subset
<1>3. /\ Cardinality(Lost) \in Nat /\ Cardinality(Lost') \in Nat
      /\ Cardinality(Spent) \in Nat /\ Cardinality(Spent') \in Nat
  BY FiniteThen
<1>4. Cardinality(Lost') <= Cardinality(Spent')
  BY <1>2, <1>3 DEF Budget
<1>5. ASSUME NEW g \in Handlers, pc'[g] \in Removing PROVE own'[g].total_scores - TOP_SCORE <= Excess'
  <2>1. own'[g].total_scores - TOP_SCORE <= Excess
    BY <1>5 DEF Frame, Budget
  <2>2. Excess \in Nat /\ Excess' \in Nat /\ Excess <= Excess'
    BY ExcessThen
  <2>3. own'[g].total_scores \in Nat /\ TOP_SCORE \in Nat
    BY ScoreboardAssumption DEF TypeOK, Process
  <2> QED
    BY <2>1, <2>2, <2>3
<1> QED
  BY <1>4, <1>5 DEF Budget
(* The removal of one file: it takes one off the budget of the handler. *)
LEMMA BudgetRemove ==
  ASSUME Budget, Good, Good', NEW h \in Handlers, NEW to, Removes(h, to)
  PROVE  Budget'
<1> DEFINE k == own[h].total_scores - TOP_SCORE
           new == <<h, k>>
<1>1. /\ Frame(h, "remove", to) /\ created' = created /\ to \in {"find", "scan", "done"}
      /\ Entries \subseteq Entries' \union {own[h].lowest}
      /\ to = "find" => own'[h].total_scores = own[h].total_scores - 1
  BY DEF Removes, past
<1>2. pc[h] = "remove" /\ pc'[h] = to
  BY <1>1 DEF Frame
<1>3. own[h].total_scores \in Nat /\ TOP_SCORE \in Nat /\ own[h].total_scores > TOP_SCORE /\ k <= Excess
  BY <1>2, ScoreboardAssumption DEF Good, TypeOK, Process, Places, Budget, Removing
<1>4. Excess \in Nat /\ Excess' = Excess /\ k \in 1..Excess
  BY <1>1, <1>3, ExcessIsNat DEF Excess, Good
<1>5. Left(h) = k /\ Left(h)' <= k - 1
  BY <1>1, <1>2, <1>3 DEF Left, Removing
<1>6. h \in Filtered /\ Filtered \subseteq Filtered'
  BY <1>1, <1>2 DEF Filtered, Frame, Ended
<1>7. new \notin Spent
  <2>1. ~ (k > k)
    BY <1>3
  <2> QED
    BY <1>5, <2>1 DEF Spent
<1>8. Spent \subseteq Spent'
  <2>1. Left(h)' \in Int
    BY ScoreboardAssumption DEF Left, Good, TypeOK, Process
  <2>2. Left(h)' <= Left(h)
    BY <1>3, <1>5, <2>1
  <2> QED
    BY <1>1, <2>2, SpentStays DEF Good, Ended
<1>9. new \in Spent'
  <2>1. Left(h)' \in Int
    BY ScoreboardAssumption DEF Left, Good, TypeOK, Process
  <2>2. k > Left(h)'
    BY <1>3, <1>5, <2>1
  <2>3. new \in Filtered' \X (1..Excess')
    BY <1>4, <1>6
  <2>4. new[1] = h /\ new[2] = k
    OBVIOUS
  <2> HIDE DEF new, k
  <2> QED
    BY <2>2, <2>3, <2>4 DEF Spent
<1>10. Lost' \subseteq Lost \union {own[h].lowest}
  BY <1>1 DEF Lost
<1> HIDE DEF new, k
<1>11. /\ IsFiniteSet(Lost) /\ Cardinality(Lost) \in Nat
       /\ IsFiniteSet(Lost') /\ Cardinality(Lost') \in Nat
       /\ IsFiniteSet(Spent) /\ Cardinality(Spent) \in Nat
       /\ IsFiniteSet(Spent') /\ Cardinality(Spent') \in Nat
  BY FiniteThen DEF Good
<1>12. Cardinality(Lost') <= Cardinality(Lost) + 1
  <2>1. /\ IsFiniteSet(Lost \union {own[h].lowest})
        /\ Cardinality(Lost \union {own[h].lowest}) =
             IF own[h].lowest \in Lost THEN Cardinality(Lost) ELSE Cardinality(Lost) + 1
    BY <1>11, FS_AddElement
  <2>2. Cardinality(Lost') <= Cardinality(Lost \union {own[h].lowest})
    BY <1>10, <2>1, FS_Subset
  <2> QED
    BY <1>11, <2>1, <2>2
<1>13. Cardinality(Spent) + 1 <= Cardinality(Spent')
  <2>1. Cardinality(Spent \union {new}) = Cardinality(Spent) + 1
    BY <1>7, <1>11, FS_AddElement
  <2>2. Cardinality(Spent \union {new}) <= Cardinality(Spent')
    BY <1>8, <1>9, <1>11, FS_Subset
  <2> QED
    BY <2>1, <2>2
<1>14. Cardinality(Lost') <= Cardinality(Spent')
  BY <1>11, <1>12, <1>13 DEF Budget
<1>15. ASSUME NEW g \in Handlers, pc'[g] \in Removing PROVE own'[g].total_scores - TOP_SCORE <= Excess'
  <2>1. CASE g = h
    BY <1>1, <1>2, <1>3, <1>4, <1>15, <2>1 DEF Removing, k
  <2>2. CASE g # h
    BY <1>1, <1>4, <1>15, <2>2 DEF Frame, Budget
  <2> QED
    BY <2>1, <2>2
<1> QED
  BY <1>14, <1>15 DEF Budget

(* Every step keeps Budget. *)
LEMMA BudgetStep ==
  ASSUME Budget, Good, Good', [Next]_vars
  PROVE  Budget'
<1>1. UNCHANGED <<files, created>> => Lost' \subseteq Lost /\ created' = created
  BY DEF Lost, Entries
<1>2. UNCHANGED <<table, past>> => UNCHANGED <<files, created>>
  BY DEF table, past
<1>3. ASSUME NEW h \in Handlers, NEW from, NEW to, Frame(h, from, to), UNCHANGED <<files, created>>,
             to \notin Removing,
             from \in Ended \union {"find", "remove", "scan", "open", "read"} =>
               to \in Ended \union {"find", "remove", "scan", "open", "read"}
      PROVE  Budget'
  <2>1. Left(h)' = 0
    BY <1>3 DEF Frame, Left
  <2>2. h \in Filtered => Left(h) \in Nat
    <3>1. own[h].total_scores \in Nat /\ TOP_SCORE \in Nat /\ (pc[h] \in Removing => own[h].total_scores > TOP_SCORE)
      BY ScoreboardAssumption DEF Good, TypeOK, Process, Places, Removing
    <3> QED
      BY <3>1 DEF Left
  <2> QED
    BY <1>1, <1>3, <2>1, <2>2, BudgetFrame DEF Good
<1>4. ASSUME NEW h \in Handlers, Starts(h) \/ Closes(h) \/ Lists(h) \/ (\E n : Opens(h, n)) \/ Keeps(h)
                                 \/ (\E from, to : Moves(h, from, to)) \/ Counts(h, "scan") \/ Dies(h)
      PROVE  Budget'
  <2>1. UNCHANGED <<files, created>>
    BY <1>2, <1>4 DEF Starts, Closes, Lists, Opens, Keeps, Moves, Counts, Dies, past
  <2>2. \/ Frame(h, "idle", "create") \/ Frame(h, "close", "filter") \/ Frame(h, "scan", "open")
        \/ Frame(h, "open", "read") \/ Frame(h, "read", "open") \/ Frame(h, "lock", "print")
        \/ Frame(h, "print", "close") \/ Frame(h, "idle", "filter") \/ Frame(h, "filter", "scan")
        \/ Frame(h, pc[h], "dead")
    BY <1>4 DEF Starts, Closes, Lists, Opens, Keeps, Moves, Counts, Dies
  <2>3. PICK from, to :
          /\ Frame(h, from, to)
          /\ \/ to \in {"create", "filter", "print", "close"} /\ from \in {"idle", "close", "lock", "print"}
             \/ to \in {"open", "read", "scan", "dead"}
    BY <2>2
  <2> QED
    BY <1>3, <2>1, <2>3 DEF Ended, Removing
<1>5. ASSUME NEW h \in Handlers, NEW from, NEW to, Ends(h, from, to) PROVE Budget'
  <2>1. Frame(h, from, to) /\ to \in Ended /\ UNCHANGED <<files, created>>
    BY <1>2, <1>5 DEF Ends
  <2> QED
    BY <1>3, <2>1 DEF Ended, Removing
<1>6. ASSUME NEW h \in Handlers, NEW n \in Names, OpensScore(h, n) PROVE Budget'
  <2>1. Frame(h, "create", "lock") /\ created' = created \union {n} /\ Entries' = Entries \union {n}
    BY <1>6 DEF OpensScore
  <2>2. Lost' \subseteq Lost
    BY <2>1 DEF Lost
  <2>3. h \notin Filtered
    BY <2>1 DEF Frame, Filtered, Ended
  <2> QED
    BY <2>1, <2>2, <2>3, BudgetFrame DEF Good, Ended, Removing
<1>7. ASSUME NEW h \in Handlers, Counts(h, "find") PROVE Budget'
  <2>1. /\ Frame(h, "filter", "find") /\ UNCHANGED <<files, created>>
        /\ own'[h].total_scores = Cardinality(Entries) /\ Cardinality(Entries) > TOP_SCORE
    BY <1>2, <1>7 DEF Counts
  <2>2. h \notin Filtered
    BY <2>1 DEF Frame, Filtered, Ended
  <2>3. Cardinality(Entries) - TOP_SCORE <= Excess
    <3>1. IsFiniteSet(created) /\ Entries \subseteq created
      BY FS_Subset, ScoreboardAssumption DEF Good, TypeOK, Places
    <3>2. Cardinality(Entries) <= Cardinality(created)
      BY <3>1, FS_Subset
    <3>3. Cardinality(Entries) \in Nat /\ Cardinality(created) \in Nat /\ TOP_SCORE \in Nat
      BY <3>1, FS_Subset, FS_CardinalityType, ScoreboardAssumption
    <3> QED
      BY <2>1, <3>2, <3>3 DEF Excess
  <2> QED
    BY <1>1, <2>1, <2>2, <2>3, BudgetFrame DEF Good, Ended
<1>8. ASSUME NEW h \in Handlers, Finds(h) PROVE Budget'
  <2>1. /\ Frame(h, "find", "remove") /\ UNCHANGED <<files, created>>
        /\ own'[h].total_scores = own[h].total_scores
    BY <1>2, <1>8 DEF Finds
  <2>2. own[h].total_scores - TOP_SCORE <= Excess /\ Left(h)' = Left(h)
    BY <2>1 DEF Frame, Left, Removing, Budget
  <2>3. Left(h) \in Int
    BY ScoreboardAssumption DEF Left, Good, TypeOK, Process
  <2> QED
    BY <1>1, <2>1, <2>2, <2>3, BudgetFrame DEF Good
<1>9. CASE UNCHANGED vars
  <2>1. pc' = pc /\ own' = own /\ files' = files /\ created' = created
    BY <1>9 DEF vars, table, past
  <2> QED
    BY <2>1 DEF Budget, Lost, Spent, Filtered, Excess, Left, Entries, Removing
<1>10. ASSUME NEW h \in Handlers, NEW to, Counts(h, to) PROVE to \in {"find", "scan"}
  BY <1>10 DEF Counts
<1> QED
  BY <1>4, <1>5, <1>6, <1>7, <1>8, <1>9, <1>10, BudgetRemove, StepForms DEF StepOf
----------------------------------------------------------------------------
(* The inductive invariant *)
Inv == Good /\ Naming /\ Lines /\ EmptyIsUnfinished /\ Budget

(* The invariant holds for any table that earlier calls left. *)
LEMMA InvInit ==
  ASSUME Init
  PROVE  Inv
<1> PICK old \in SUBSET OldNames :
      (~ dir => old = {}) /\ files = [n \in old |-> n] /\ written = old /\ saved = old /\ created = old
  BY DEF Init
<1>1. /\ pc = [h \in Handlers |-> "idle"] /\ own = [h \in Handlers |-> Fresh]
      /\ dir \in BOOLEAN /\ overlapped = FALSE
  BY DEF Init
<1>2. old \subseteq Names /\ Entries = old /\ None \notin Names /\ Handlers \intersect Names = {}
  BY ScoreboardAssumption DEF Entries
<1>3. TypeOK
  BY <1>1, <1>2, FreshIsProcess DEF TypeOK, Inodes
<1>4. Places
  BY <1>1, <1>2 DEF Places, Saving
<1>5. ASSUME NEW i, NEW n \in Names, Holds(i, n) PROVE n \in old /\ i = n
  BY <1>1, <1>2, <1>5 DEF Holds, Fresh
<1>6. Naming
  BY <1>2, <1>5 DEF Naming, OneName, NewInode, WrittenIsSaved
<1>7. Lines
  BY <1>1 DEF Lines, Descending, Fresh
<1>8. EmptyIsUnfinished
  BY <1>2 DEF EmptyIsUnfinished
<1>9. Budget
  <2>1. Lost = {} /\ Cardinality(Lost) = 0
    BY <1>2, FS_EmptySet DEF Lost
  <2>2. Cardinality(Spent) \in Nat
    BY <1>3, SpentIsFinite
  <2> QED
    BY <1>1, <2>1, <2>2 DEF Budget, Removing
<1> QED
  BY <1>3, <1>4, <1>6, <1>7, <1>8, <1>9 DEF Inv, Good

(* Inv holds always: what a handler knows of its files, the names of       *)
(* inodes, the lines of answers, unfinished files, and the budget of       *)
(* removals.                                                               *)
THEOREM InvHolds == Spec => []Inv
<1>1. Init => Inv
  BY InvInit
<1>2. Inv /\ [Next]_vars => Inv'
  <2> SUFFICES ASSUME Inv, [Next]_vars PROVE Inv'
    OBVIOUS
  <2>1. Good'
    BY GoodStep DEF Inv
  <2> QED
    BY <2>1, NamingStep, LinesStep, EmptyStep, BudgetStep DEF Inv
<1> QED
  BY <1>1, <1>2, PTL DEF Spec

(* TypeOK: the variables keep their types, and a table that was removed is *)
(* empty.                                                                  *)
THEOREM TypeCorrect == Spec => []TypeOK
<1>1. Inv => TypeOK
  BY DEF Inv, Good
<1> QED
  BY <1>1, InvHolds, PTL

(* LinesAreScores: whatever overlaps or dies, an answer to GSB is made of  *)
(* scores that were saved, the highest first and each once: readdir,       *)
(* fopen and fgets may each see another state of the directory.            *)
THEOREM AnswersAreScores == Spec => []LinesAreScores
<1>1. Inv => LinesAreScores
  BY DEF Inv, Lines, Descending, LinesAreScores
<1> QED
  BY <1>1, InvHolds, PTL

(* EmptyIsUnfinished: a file without a line is one whose writer is between *)
(* fopen and fclose, or died.                                              *)
THEOREM NoStrayEmptyFile == Spec => []EmptyIsUnfinished
<1>1. Inv => EmptyIsUnfinished
  BY DEF Inv
<1> QED
  BY <1>1, InvHolds, PTL

(* LossIsBounded: handlers that prune the table at the same time remove no *)
(* more than the excess each, however remove_lowest_alphabetic interleaves.*)
THEOREM PruningIsBounded == Spec => []LossIsBounded
<1>1. Inv => LossIsBounded
  <2> SUFFICES ASSUME Inv PROVE LossIsBounded
    OBVIOUS
  <2>1. /\ Cardinality(Lost) <= Cardinality(Spent)
        /\ Cardinality(Spent) <= Cardinality(Filtered) * Excess
    BY SpentIsFinite DEF Inv, Good, Budget
  <2>2. Cardinality(Lost) \in Nat /\ Cardinality(Spent) \in Nat /\ Cardinality(Filtered) * Excess \in Nat
    <3>1. Cardinality(Filtered) \in Nat
      BY FS_Subset, FS_CardinalityType, ScoreboardAssumption DEF Filtered
    <3>2. Excess \in Nat
      BY ExcessIsNat DEF Inv, Good
    <3> QED
      BY <3>1, <3>2, LostIsFinite, SpentIsFinite DEF Inv, Good
  <2>3. \A a, b, c \in Nat : a <= b /\ b <= c => a <= c
    OBVIOUS
  <2>4. Cardinality(Lost) <= Cardinality(Filtered) * Excess
    BY <2>1, <2>2, <2>3
  <2> QED
    BY <2>4 DEF Lost, LossIsBounded
<1> QED
  BY <1>1, InvHolds, PTL

----------------------------------------------------------------------------
(* Calls that do not overlap.  What is said here is only said while no two *)
(* handlers have ever been at work at the same time and none has died.     *)

(* The members of S above n. *)
Above(S, n) == {m \in S : m > n}

(* What the handler that is at work alone knows of the table.  In its loop *)
(* the files that it has listed and not read yet are the lowest ones, and  *)
(* its lines are the others, from the highest down.                        *)
Unread(h) == IF pc[h] = "read" THEN own[h].list \union {own[h].name} ELSE own[h].list

Ranked(h) ==
  /\ Unread(h) \subseteq Entries
  /\ \A n \in Entries \ Unread(h), m \in Unread(h) : n > m
  /\ Cardinality(Entries) = Len(own[h].lines) + Cardinality(Unread(h))
  /\ \A k \in DOMAIN own[h].lines :
       own[h].lines[k] \in Entries /\ Cardinality(Above(Entries, own[h].lines[k])) = k - 1

Knows(h) ==
  /\ pc[h] \in {"lock", "print", "close"} => own[h].name \in Entries
  /\ pc[h] = "filter" /\ ~ own[h].saves => Entries # {}
  /\ pc[h] \in {"find", "remove"} => own[h].total_scores = Cardinality(Entries)
  /\ pc[h] = "remove" => own[h].lowest = LowestOf(Entries)
  /\ pc[h] \in {"scan", "open", "read"} =>
       /\ ~ own[h].saves /\ Entries # {}
       /\ own[h].total_scores = Cardinality(Entries) /\ Cardinality(Entries) <= TOP_SCORE
  /\ pc[h] = "read" =>
       own[h].fd = files[own[h].name] /\ own[h].name \notin own[h].list
       /\ \A m \in own[h].list : m < own[h].name
  /\ pc[h] \in {"open", "read"} => Ranked(h)

(* A score is only gone from the table when there are enough better ones. *)
Outranked == \A n \in saved \ Entries : Cardinality(Above(Entries, n)) >= TOP_SCORE

OneAtWork == \A g, h \in Busy : g = h

Orderly == Undisturbed => OneAtWork /\ Outranked /\ \A h \in Handlers : Knows(h)

(* Two different members make a set larger than one. *)
LEMMA AtMostOne ==
  ASSUME NEW S, IsFiniteSet(S), ~ (Cardinality(S) > 1)
  PROVE  \A a, b \in S : a = b
<1> SUFFICES ASSUME NEW a \in S, NEW b \in S, a # b PROVE FALSE
  OBVIOUS
<1>1. IsFiniteSet({a}) /\ Cardinality({a}) = 1
  BY FS_Singleton
<1>2. IsFiniteSet({a} \union {b}) /\ Cardinality({a} \union {b}) = Cardinality({a}) + 1
  BY <1>1, FS_AddElement
<1>3. Cardinality({a} \union {b}) <= Cardinality(S) /\ Cardinality(S) \in Nat
  BY FS_Subset, FS_CardinalityType
<1> QED
  BY <1>1, <1>2, <1>3

(* What is above n is finite, and there is more of it in a larger table. *)
LEMMA AboveGrows ==
  ASSUME NEW S, NEW T, IsFiniteSet(T), S \subseteq T, NEW n
  PROVE  /\ Cardinality(Above(S, n)) \in Nat /\ Cardinality(Above(T, n)) \in Nat
         /\ Cardinality(Above(S, n)) <= Cardinality(Above(T, n))
<1>1. Above(S, n) \subseteq Above(T, n) /\ Above(T, n) \subseteq T
  BY DEF Above
<1>2. IsFiniteSet(Above(T, n)) /\ IsFiniteSet(Above(S, n))
  BY <1>1, FS_Subset
<1> QED
  BY <1>1, <1>2, FS_Subset, FS_CardinalityType

(* The table is a finite set of numbers. *)
LEMMA EntriesFinite ==
  TypeOK => /\ Entries \subseteq Nat /\ IsFiniteSet(Entries) /\ Cardinality(Entries) \in Nat
            /\ (Cardinality(Entries) = 0 <=> Entries = {})
BY FS_Subset, FS_CardinalityType, FS_EmptySet, ScoreboardAssumption DEF TypeOK

(* A step starts where a call has not ended, and is calm when it follows   *)
(* calm: overlapped is never taken back, and the dead stay dead.           *)
LEMMA StepFrame ==
  ASSUME NEW h \in Handlers, StepOf(h)
  PROVE  Frame(h, pc[h], pc'[h]) /\ pc[h] \notin Ended
<1> USE DEF Frame
<1>1. CASE Starts(h) \/ Closes(h) \/ Finds(h) \/ Lists(h) \/ Keeps(h)
  BY <1>1 DEF Starts, Closes, Finds, Lists, Keeps, Ended
<1>2. ASSUME NEW n, OpensScore(h, n) \/ Opens(h, n) PROVE Frame(h, pc[h], pc'[h]) /\ pc[h] \notin Ended
  BY <1>2 DEF OpensScore, Opens, Ended
<1>3. ASSUME NEW to, Counts(h, to) \/ Removes(h, to) PROVE Frame(h, pc[h], pc'[h]) /\ pc[h] \notin Ended
  BY <1>3 DEF Counts, Removes, Ended
<1>4. ASSUME NEW from, NEW to, Moves(h, from, to) \/ Ends(h, from, to)
      PROVE  Frame(h, pc[h], pc'[h]) /\ pc[h] \notin Ended
  BY <1>4 DEF Moves, Ends, Ended
<1>5. CASE Dies(h)
  BY <1>5 DEF Dies, Busy
<1> HIDE DEF Frame
<1> QED
  BY <1>1, <1>2, <1>3, <1>4, <1>5 DEF StepOf

(* When calls still follow one another after a step, they did before it. *)
LEMMA CalmBefore ==
  ASSUME NEW h \in Handlers, StepOf(h), Undisturbed'
  PROVE  Undisturbed /\ \A f, g \in Busy' : f = g
<1>1. Frame(h, pc[h], pc'[h]) /\ pc[h] \notin Ended
  BY StepFrame
<1>2. ~ overlapped /\ ~ (Cardinality(Busy') > 1)
  BY <1>1 DEF Frame, Undisturbed
<1>3. \A g \in Handlers : pc[g] # "dead"
  BY <1>1 DEF Frame, Undisturbed, Ended
<1>4. IsFiniteSet(Busy')
  BY FS_Subset, ScoreboardAssumption DEF Busy
<1> QED
  BY <1>2, <1>3, <1>4, AtMostOne DEF Undisturbed

(* While h makes a step nobody else is at work, or h only looks and ends. *)
LEMMA OthersRest ==
  ASSUME NEW h \in Handlers, StepOf(h), Undisturbed', OneAtWork, NEW g \in Handlers, g # h, g \in Busy
  PROVE  UNCHANGED <<table, past>>
<1>1. h \notin Busy
  BY DEF OneAtWork
<1>2. \A f, e \in Busy' : f = e
  BY CalmBefore
<1>3. ASSUME NEW to, Frame(h, "idle", to), to \notin Ended \union {"idle"} PROVE FALSE
  <2>1. h \in Busy' /\ g \in Busy'
    BY <1>3 DEF Frame, Busy
  <2> QED
    BY <2>1, <1>2
<1>4. ~ Starts(h)
  BY <1>3 DEF Starts, Ended
<1>5. \A from, to : ~ Moves(h, from, to)
  <2> SUFFICES ASSUME NEW from, NEW to, Moves(h, from, to) PROVE FALSE
    OBVIOUS
  <2>1. CASE from = "idle" /\ to = "filter"
    BY <2>1, <1>3 DEF Moves, Ended
  <2>2. CASE <<from, to>> \in {<<"lock", "print">>, <<"print", "close">>}
    BY <2>2, <1>1 DEF Moves, Frame, Busy, Ended
  <2> QED
    BY <2>1, <2>2 DEF Moves
<1>6. \A from, to : Ends(h, from, to) => UNCHANGED <<table, past>>
  BY DEF Ends
<1>7. ASSUME NEW from \in {"create", "close", "filter", "remove"}, NEW to, Frame(h, from, to) PROVE FALSE
  BY <1>7, <1>1 DEF Frame, Busy, Ended
<1>8. (\A n : ~ OpensScore(h, n)) /\ ~ Closes(h) /\ (\A to : ~ Counts(h, to)) /\ \A to : ~ Removes(h, to)
  BY <1>7 DEF OpensScore, Closes, Counts, Removes
<1>9. (Finds(h) \/ Lists(h) \/ Keeps(h) \/ \E n : Opens(h, n)) => UNCHANGED <<table, past>>
  BY DEF Finds, Lists, Keeps, Opens
<1>10. ~ Dies(h)
  BY <1>1 DEF Dies
<1> QED
  BY <1>4, <1>5, <1>6, <1>8, <1>9, <1>10 DEF StepOf

(* What the others know stays true. *)
LEMMA KnowsFrame ==
  ASSUME NEW h \in Handlers, StepOf(h), Undisturbed', OneAtWork, NEW g \in Handlers, g # h, Knows(g)
  PROVE  Knows(g)'
<1>1. pc'[g] = pc[g] /\ own'[g] = own[g]
  BY StepFrame DEF Frame
<1>2. CASE g \notin Busy
  <2>1. pc'[g] \in Ended \union {"idle"}
    BY <1>1, <1>2 DEF Busy
  <2> QED
    BY <2>1 DEF Knows, Ended
<1>3. CASE g \in Busy
  <2>1. UNCHANGED <<table, past>>
    BY <1>3, OthersRest
  <2>2. files' = files /\ Entries' = Entries
    BY <2>1 DEF table, Entries
  <2>3. Ranked(g) <=> Ranked(g)'
    BY <1>1, <2>2 DEF Ranked, Unread
  <2> QED
    BY <1>1, <2>2, <2>3 DEF Knows
<1> QED
  BY <1>2, <1>3

(* Every file that a handler which only looks can find has its line. *)
LEMMA EntriesAreSaved ==
  ASSUME Inv, Undisturbed, OneAtWork, NEW h \in Busy, pc[h] \notin {"lock", "print", "close"}
  PROVE  \A n \in Entries : files[n] \in written /\ n \in saved
<1> SUFFICES ASSUME NEW n \in Entries PROVE files[n] \in written /\ n \in saved
  OBVIOUS
<1>1. files[n] \in written
  <2> SUFFICES ASSUME files[n] \notin written PROVE FALSE
    OBVIOUS
  <2>1. PICK g \in Handlers : pc[g] \in {"lock", "print", "close", "dead"}
    BY DEF Inv, EmptyIsUnfinished
  <2>2. g \in Busy
    BY <2>1 DEF Undisturbed, Busy, Ended
  <2> QED
    BY <2>1, <2>2 DEF OneAtWork, Undisturbed
<1>2. n \in Names /\ Holds(files[n], n)
  BY DEF Inv, Good, TypeOK, Holds
<1> QED
  BY <1>1, <1>2 DEF Inv, Naming, WrittenIsSaved

(* When an entry was opened for writing or saved, nothing is gone that was *)
(* there, and what is saved is in the table.                               *)
LEMMA OutrankedKept ==
  ASSUME TypeOK', Outranked, Entries \subseteq Entries', saved' \subseteq saved \union Entries'
  PROVE  Outranked'
<1> SUFFICES ASSUME NEW n \in saved' \ Entries' PROVE Cardinality(Above(Entries', n)) >= TOP_SCORE
  BY DEF Outranked, Above
<1>1. TypeOK' => IsFiniteSet(Entries)'
  BY EntriesFinite, PTL
<1>2. /\ Cardinality(Above(Entries, n)) \in Nat /\ Cardinality(Above(Entries', n)) \in Nat
      /\ Cardinality(Above(Entries, n)) <= Cardinality(Above(Entries', n))
  BY <1>1, AboveGrows
<1>3. Cardinality(Above(Entries, n)) >= TOP_SCORE /\ TOP_SCORE \in Nat
  BY ScoreboardAssumption DEF Outranked
<1> QED
  BY <1>2, <1>3

(* When the lowest of more than TOP_SCORE files is removed, TOP_SCORE      *)
(* better ones stay.                                                       *)
LEMMA OutrankedRemove ==
  ASSUME TypeOK, Outranked, saved' = saved, saved \subseteq Nat, Cardinality(Entries) > TOP_SCORE,
         Entries' = Entries \ {LowestOf(Entries)}
  PROVE  Outranked'
<1> DEFINE low == LowestOf(Entries)
<1>1. Entries \subseteq Nat /\ IsFiniteSet(Entries) /\ Cardinality(Entries) \in Nat /\ TOP_SCORE \in Nat
  BY EntriesFinite, ScoreboardAssumption
<1>2. low \in Entries /\ \A m \in Entries : low <= m
  <2>1. Entries # {}
    BY <1>1, FS_EmptySet, ScoreboardAssumption
  <2> QED
    BY <2>1, Lowest DEF TypeOK
<1> HIDE DEF low
<1>3. Entries' = Entries \ {low} /\ Cardinality(Entries') = Cardinality(Entries) - 1
  BY <1>1, <1>2, FS_RemoveElement DEF low
<1> SUFFICES ASSUME NEW n \in saved \ Entries' PROVE Cardinality(Above(Entries', n)) >= TOP_SCORE
  BY DEF Outranked, Above
<1>4. CASE n <= low
  <2>1. \A m \in Entries' : m > n
    BY <1>1, <1>2, <1>3, <1>4
  <2>2. Above(Entries', n) = Entries'
    BY <2>1 DEF Above
  <2> QED
    BY <2>2, <1>1, <1>3
<1>5. CASE n > low
  <2>1. n \notin Entries
    BY <1>3, <1>5, <1>1, <1>2
  <2>2. Above(Entries', n) = Above(Entries, n)
    BY <1>1, <1>2, <1>3, <1>5 DEF Above
  <2> QED
    BY <2>1, <2>2 DEF Outranked
<1> QED
  BY <1>1, <1>2, <1>4, <1>5

(* A step that leaves the table and the handler's lines as they are. *)
LEMMA KnowsList ==
  ASSUME Inv, NEW h \in Handlers, Knows(h), Lists(h)
  PROVE  Knows(h)'
<1>1. /\ pc[h] = "scan" /\ pc'[h] = "open" /\ own'[h].list = Entries /\ own'[h].lines = own[h].lines
      /\ own'[h].saves = own[h].saves /\ own'[h].total_scores = own[h].total_scores
      /\ Entries' = Entries
  BY DEF Lists, Frame, SameWork, table, Entries
<1>2. ~ own[h].saves /\ Entries # {} /\ own[h].total_scores = Cardinality(Entries) /\ Cardinality(Entries) <= TOP_SCORE
  BY <1>1 DEF Knows
<1>3. own[h].lines = << >>
  BY <1>1 DEF Inv, Lines, Descending
<1>4. Cardinality(Entries) \in Nat
  BY EntriesFinite DEF Inv, Good
<1>5. Ranked(h)'
  BY <1>1, <1>3, <1>4 DEF Ranked, Unread
<1> QED
  BY <1>1, <1>2, <1>5 DEF Knows

(* The file that is opened is the highest of the list; it is still unread. *)
LEMMA KnowsOpen ==
  ASSUME Inv, NEW h \in Handlers, Knows(h), NEW n, Opens(h, n)
  PROVE  Knows(h)'
<1>1. /\ pc[h] = "open" /\ pc'[h] = "read" /\ own[h].list # {} /\ n = HighestOf(own[h].list)
      /\ own'[h].list = own[h].list \ {n} /\ own'[h].name = n /\ own'[h].fd = files[n]
      /\ own'[h].lines = own[h].lines
      /\ own'[h].saves = own[h].saves /\ own'[h].total_scores = own[h].total_scores
      /\ Entries' = Entries /\ files' = files
  BY DEF Opens, Frame, table, Entries
<1>2. /\ ~ own[h].saves /\ Entries # {} /\ own[h].total_scores = Cardinality(Entries)
      /\ Cardinality(Entries) <= TOP_SCORE /\ Ranked(h)
  BY <1>1 DEF Knows
<1>3. own[h].list \subseteq Names /\ Names \subseteq Nat
  BY ScoreboardAssumption DEF Inv, Good, TypeOK, Process
<1>4. n \in own[h].list /\ \A m \in own[h].list : m <= n
  BY <1>1, <1>3, Highest
<1>5. \A m \in own'[h].list : m < n
  <2> SUFFICES ASSUME NEW m \in own'[h].list PROVE m < n
    OBVIOUS
  <2>1. m \in own[h].list /\ m # n
    BY <1>1
  <2>2. m \in Nat /\ n \in Nat /\ m <= n
    BY <2>1, <1>3, <1>4
  <2> QED
    BY <2>1, <2>2
<1>6. Unread(h)' = Unread(h)
  BY <1>1, <1>4 DEF Unread
<1>7. Ranked(h)'
  BY <1>1, <1>2, <1>6 DEF Ranked
<1> QED
  BY <1>1, <1>2, <1>5, <1>7 DEF Knows

(* The line that is kept is the next one in the ranking: above it are the   *)
(* files that were read before.                                            *)
LEMMA KnowsKeep ==
  ASSUME Inv, NEW h \in Handlers, Knows(h), Keeps(h)
  PROVE  Knows(h)'
<1> DEFINE n == own[h].name
           list == own[h].list
           lines == own[h].lines
<1>1. /\ pc[h] = "read" /\ pc'[h] = "open"
      /\ own'[h].list = list /\ own'[h].lines = Append(lines, n)
      /\ own'[h].saves = own[h].saves /\ own'[h].total_scores = own[h].total_scores
      /\ Entries' = Entries
  BY DEF Keeps, Frame, table, Entries
<1>2. /\ ~ own[h].saves /\ Entries # {} /\ own[h].total_scores = Cardinality(Entries)
      /\ Cardinality(Entries) <= TOP_SCORE /\ n \notin list /\ (\A m \in list : m < n)
  BY <1>1 DEF Knows
<1>3. /\ list \union {n} \subseteq Entries
      /\ \A e \in Entries \ (list \union {n}), m \in list \union {n} : e > m
      /\ Cardinality(Entries) = Len(lines) + Cardinality(list \union {n})
      /\ \A k \in DOMAIN lines : lines[k] \in Entries /\ Cardinality(Above(Entries, lines[k])) = k - 1
  BY <1>1 DEF Knows, Ranked, Unread
<1>4. Entries \subseteq Nat /\ IsFiniteSet(Entries) /\ Cardinality(Entries) \in Nat
  BY EntriesFinite DEF Inv, Good
<1>5. lines \in Seq(Names)
  BY DEF Inv, Good, TypeOK, Process
<1> HIDE DEF n, list, lines
<1>6. IsFiniteSet(list \union {n}) /\ IsFiniteSet(list)
  BY <1>3, <1>4, FS_Subset
<1>7. Cardinality(list \union {n}) = Cardinality(list) + 1 /\ Cardinality(list) \in Nat
  BY <1>2, <1>6, FS_AddElement, FS_CardinalityType
<1>8. Above(Entries, n) = Entries \ (list \union {n})
  <2>1. n \in Nat /\ list \subseteq Nat
    <3>1. list \union {n} \subseteq Nat
      BY <1>3, <1>4
    <3> QED
      BY <3>1
  <2>2. ~ (n > n) /\ \A m \in list : ~ (m > n)
    <3>1. \A m \in list : m < n
      BY <1>2
    <3> QED
      BY <2>1, <3>1
  <2> QED
    BY <1>3, <2>1, <2>2 DEF Above
<1>9. Cardinality(Above(Entries, n)) = Len(lines)
  <2>1. Cardinality(Entries \ (list \union {n})) = Cardinality(Entries) - Cardinality(Entries \intersect (list \union {n}))
    BY <1>4, FS_Difference
  <2>2. Entries \intersect (list \union {n}) = list \union {n}
    BY <1>3
  <2>3. Len(lines) \in Nat /\ Cardinality(list \union {n}) \in Nat
    BY <1>5, <1>7
  <2>4. \A a, b, c \in Nat : a = b + c => a - c = b
    OBVIOUS
  <2>5. Cardinality(Entries) = Len(lines) + Cardinality(list \union {n})
    BY <1>3
  <2>6. Cardinality(Entries) - Cardinality(list \union {n}) = Len(lines)
    BY <1>4, <2>3, <2>4, <2>5
  <2> QED
    BY <1>8, <2>1, <2>2, <2>6
<1>10. Cardinality(Entries) = Len(Append(lines, n)) + Cardinality(list)
  <2>1. Len(Append(lines, n)) = Len(lines) + 1 /\ Len(lines) \in Nat
    BY <1>5
  <2>2. \A a, b \in Nat : a + (b + 1) = (a + 1) + b
    OBVIOUS
  <2> QED
    BY <1>3, <1>7, <2>1, <2>2
<1>11. \A k \in DOMAIN Append(lines, n) :
         Append(lines, n)[k] \in Entries /\ Cardinality(Above(Entries, Append(lines, n)[k])) = k - 1
  <2>1. Len(lines) \in Nat /\ DOMAIN lines = 1..Len(lines) /\ DOMAIN Append(lines, n) = 1..(Len(lines) + 1)
    BY <1>5
  <2>2. ASSUME NEW k \in 1..Len(lines) PROVE Append(lines, n)[k] = lines[k]
    BY <1>5, <2>2
  <2>3. Append(lines, n)[Len(lines) + 1] = n
    BY <1>5
  <2>4. Cardinality(Above(Entries, n)) = (Len(lines) + 1) - 1
    BY <1>9, <2>1
  <2>5. \A k \in 1..(Len(lines) + 1) : k \in 1..Len(lines) \/ k = Len(lines) + 1
    BY <2>1
  <2> QED
    BY <1>3, <2>1, <2>2, <2>3, <2>4, <2>5
<1>12. \A e \in Entries \ list, m \in list : e > m
  BY <1>2, <1>3, <1>4
<1>13. Ranked(h)'
  <2>1. Unread(h)' = list
    BY <1>1 DEF Unread
  <2> QED
    BY <1>1, <1>3, <1>10, <1>11, <1>12, <2>1 DEF Ranked
<1> QED
  BY <1>1, <1>2, <1>13 DEF Knows

(* The count is true for the one who is at work, and so is the lowest name. *)
LEMMA KnowsFilter ==
  ASSUME Inv, NEW h \in Handlers, Knows(h), (\E to : Counts(h, to)) \/ Finds(h)
  PROVE  Knows(h)'
<1>1. TOP_SCORE \in Nat /\ TOP_SCORE > 0 /\ Cardinality(Entries) \in Nat /\ (Entries = {} => Cardinality(Entries) = 0)
  BY EntriesFinite, ScoreboardAssumption DEF Inv, Good
<1>2. CASE Finds(h)
  <2>1. /\ pc[h] = "find" /\ pc'[h] = "remove" /\ own'[h].total_scores = own[h].total_scores
        /\ (Entries # {} => own'[h].lowest = LowestOf(Entries)) /\ Entries' = Entries
    BY <1>2 DEF Finds, Frame, table, Entries
  <2>2. own[h].total_scores = Cardinality(Entries) /\ own[h].total_scores > TOP_SCORE
    BY <2>1 DEF Knows, Inv, Good, Places
  <2>3. Entries # {}
    BY <1>1, <2>2
  <2> QED
    BY <2>1, <2>2, <2>3 DEF Knows
<1>3. ASSUME NEW to, Counts(h, to) PROVE Knows(h)'
  <2>1. /\ pc[h] = "filter" /\ pc'[h] = to /\ Entries' = Entries
        /\ own'[h].saves = own[h].saves /\ own'[h].total_scores = Cardinality(Entries)
        /\ \/ to = "find"
           \/ to = "scan" /\ ~ own[h].saves /\ Cardinality(Entries) <= TOP_SCORE
    BY <1>3 DEF Counts, Frame, table, Entries
  <2>2. ~ own[h].saves => Entries # {}
    BY <2>1 DEF Knows
  <2> QED
    BY <2>1, <2>2 DEF Knows
<1> QED
  BY <1>2, <1>3

(* What the one at work counted and found is still there when it removes. *)
LEMMA RemovesLowest ==
  ASSUME Inv, NEW h \in Handlers, Knows(h), NEW to, Removes(h, to)
  PROVE  /\ Entries' = Entries \ {LowestOf(Entries)} /\ Cardinality(Entries) > TOP_SCORE
         /\ Cardinality(Entries') = Cardinality(Entries) - 1
         /\ own[h].total_scores = Cardinality(Entries)
<1>1. TOP_SCORE \in Nat /\ TOP_SCORE > 0 /\ IsFiniteSet(Entries) /\ Cardinality(Entries) \in Nat
      /\ (Entries = {} => Cardinality(Entries) = 0)
  BY EntriesFinite, ScoreboardAssumption DEF Inv, Good
<1>2. /\ pc[h] = "remove" /\ Entries' \subseteq Entries
      /\ Entries \subseteq Entries' \union {own[h].lowest} /\ own[h].lowest \notin Entries'
  BY DEF Removes, Frame
<1>3. /\ own[h].total_scores = Cardinality(Entries) /\ own[h].total_scores > TOP_SCORE
      /\ own[h].lowest = LowestOf(Entries)
  BY <1>2 DEF Knows, Inv, Good, Places
<1>4. LowestOf(Entries) \in Entries
  <2>1. Entries # {} /\ Entries \subseteq Names
    BY <1>1, <1>3 DEF Inv, Good, TypeOK
  <2> QED
    BY <2>1, Lowest
<1>5. Entries' = Entries \ {LowestOf(Entries)}
  BY <1>2, <1>3
<1>6. Cardinality(Entries \ {LowestOf(Entries)}) = Cardinality(Entries) - 1
  BY <1>1, <1>4, FS_RemoveElement
<1> QED
  BY <1>3, <1>5, <1>6

(* The count stays true when the lowest file is removed. *)
LEMMA KnowsRemove ==
  ASSUME Inv, NEW h \in Handlers, Knows(h), NEW to, Removes(h, to)
  PROVE  Knows(h)'
<1>1. /\ Cardinality(Entries) > TOP_SCORE /\ Cardinality(Entries') = Cardinality(Entries) - 1
      /\ own[h].total_scores = Cardinality(Entries)
  BY RemovesLowest
<1>2. /\ pc'[h] = to
      /\ \/ to = "find" /\ own'[h].total_scores = own[h].total_scores - 1
         \/ /\ to = "scan" /\ ~ own[h].saves /\ own'[h].saves = own[h].saves
            /\ own'[h].total_scores = own[h].total_scores - 1 /\ own[h].total_scores - 1 <= TOP_SCORE
         \/ to = "done"
  BY DEF Removes, Frame
<1>3. TOP_SCORE \in Nat /\ TOP_SCORE > 0 /\ Cardinality(Entries) \in Nat
  BY EntriesFinite, ScoreboardAssumption DEF Inv, Good
<1>4. Entries' # {}
  <2>1. Cardinality(Entries') # 0
    BY <1>1, <1>3
  <2>2. Cardinality({}) = 0
    BY FS_EmptySet
  <2> QED
    BY <2>1, <2>2
<1> QED
  BY <1>1, <1>2, <1>4 DEF Knows

(* The one at work knows the table after its step, too. *)
LEMMA KnowsStep ==
  ASSUME Inv, NEW h \in Handlers, StepOf(h), Undisturbed', Knows(h)
  PROVE  Knows(h)'
<1>1. CASE Starts(h)
  BY <1>1 DEF Starts, Frame, Knows
<1>2. ASSUME NEW n \in Names, OpensScore(h, n) PROVE Knows(h)'
  <2>1. pc'[h] = "lock" /\ own'[h].name \in Entries'
    BY <1>2 DEF OpensScore, Frame
  <2> QED
    BY <2>1 DEF Knows
<1>3. ASSUME NEW from, NEW to, Moves(h, from, to) PROVE Knows(h)'
  <2>1. /\ pc[h] = from /\ pc'[h] = to /\ (from = "idle" => Entries # {}) /\ own'[h] = own[h] /\ Entries' = Entries
        /\ <<from, to>> \in {<<"lock", "print">>, <<"print", "close">>, <<"idle", "filter">>}
    BY <1>3 DEF Moves, Frame, table, Entries
  <2>2. CASE from = "idle" /\ to = "filter"
    BY <2>1, <2>2 DEF Knows
  <2>3. CASE from \in {"lock", "print"} /\ to \in {"print", "close"}
    BY <2>1, <2>3 DEF Knows
  <2> QED
    BY <2>1, <2>2, <2>3
<1>4. CASE Closes(h)
  <2>1. pc'[h] = "filter" /\ own'[h].saves
    BY <1>4 DEF Closes, Frame, Inv, Good, Places, Saving
  <2> QED
    BY <2>1 DEF Knows
<1>5. ASSUME NEW from, NEW to, Ends(h, from, to) PROVE Knows(h)'
  <2>1. pc'[h] \in Ended
    BY <1>5 DEF Ends, Frame
  <2> QED
    BY <2>1 DEF Knows, Ended
<1>6. ~ Dies(h)
  BY DEF Dies, Frame, Undisturbed
<1> QED
  BY <1>1, <1>2, <1>3, <1>4, <1>5, <1>6, KnowsFilter, KnowsRemove, KnowsList, KnowsOpen, KnowsKeep DEF StepOf

(* No step of the one at work loses a score that is among the best. *)
LEMMA OutrankedStep ==
  ASSUME Inv, Inv', NEW h \in Handlers, StepOf(h), Undisturbed', Knows(h), Outranked
  PROVE  Outranked'
<1> DEFINE Kept == Entries \subseteq Entries' /\ saved' \subseteq saved \union Entries'
<1>1. Kept => Outranked'
  BY OutrankedKept DEF Inv, Good
<1>2. UNCHANGED <<table, past>> => Kept
  BY DEF table, past, Entries
<1>3. Starts(h) => Kept
  BY DEF Starts, past, Entries
<1>4. ASSUME NEW n \in Names, OpensScore(h, n) PROVE Kept
  BY <1>4 DEF OpensScore
<1>5. Closes(h) => Kept
  <2> SUFFICES ASSUME Closes(h) PROVE Kept
    OBVIOUS
  <2>1. own[h].name \in Entries
    BY DEF Closes, Frame, Knows
  <2> QED
    BY <2>1 DEF Closes, Flush, Entries
<1> HIDE DEF Kept
<1>6. ASSUME NEW to, Removes(h, to) PROVE Outranked'
  <2>1. saved' = saved /\ saved \subseteq Nat
    BY <1>6, ScoreboardAssumption DEF Removes, past, Inv, Good, TypeOK
  <2>2. Entries' = Entries \ {LowestOf(Entries)} /\ Cardinality(Entries) > TOP_SCORE
    BY <1>6, RemovesLowest
  <2> QED
    BY <2>1, <2>2, OutrankedRemove DEF Inv, Good
<1>7. (\E from, to : Moves(h, from, to)) \/ (\E from, to : Ends(h, from, to)) => UNCHANGED <<table, past>>
  BY DEF Moves, Ends
<1>8. (\E to : Counts(h, to)) \/ Finds(h) \/ Lists(h) \/ (\E n : Opens(h, n)) \/ Keeps(h) => UNCHANGED <<table, past>>
  BY DEF Counts, Finds, Lists, Opens, Keeps
<1>9. ~ Dies(h)
  BY DEF Dies, Frame, Undisturbed
<1> QED
  BY <1>1, <1>2, <1>3, <1>4, <1>5, <1>6, <1>7, <1>8, <1>9 DEF StepOf

(* Every step keeps Orderly. *)
LEMMA OrderlyStep ==
  ASSUME Inv, Inv', Orderly, [Next]_vars
  PROVE  Orderly'
<1>1. CASE UNCHANGED vars
  <2>1. /\ pc' = pc /\ own' = own /\ saved' = saved /\ overlapped' = overlapped
        /\ files' = files /\ Entries' = Entries /\ Busy' = Busy
    BY <1>1 DEF vars, Entries, Busy
  <2>2. (Undisturbed' <=> Undisturbed) /\ (OneAtWork' <=> OneAtWork) /\ (Outranked' <=> Outranked)
    BY <2>1 DEF Undisturbed, OneAtWork, Outranked
  <2>3. ASSUME NEW h \in Handlers PROVE Knows(h)' <=> Knows(h)
    <3>1. Ranked(h)' <=> Ranked(h)
      BY <2>1 DEF Ranked, Unread
    <3> QED
      BY <2>1, <3>1 DEF Knows
  <2> QED
    BY <2>2, <2>3 DEF Orderly
<1>2. ASSUME NEW h \in Handlers, StepOf(h), Undisturbed' PROVE (OneAtWork /\ Outranked /\ \A g \in Handlers : Knows(g))'
  <2>1. Undisturbed /\ \A f, g \in Busy' : f = g
    BY <1>2, CalmBefore
  <2>2. OneAtWork /\ Outranked /\ \A g \in Handlers : Knows(g)
    BY <2>1 DEF Orderly
  <2>3. Outranked'
    BY <1>2, <2>2, OutrankedStep
  <2>4. ASSUME NEW g \in Handlers PROVE Knows(g)'
    <3>1. CASE g = h
      BY <1>2, <2>2, <3>1, KnowsStep
    <3>2. CASE g # h
      BY <1>2, <2>2, <3>2, KnowsFrame
    <3> QED
      BY <3>1, <3>2
  <2> QED
    BY <2>1, <2>3, <2>4 DEF OneAtWork
<1> QED
  BY <1>1, <1>2, StepForms DEF Orderly, Inv

(* The table at the start has everything that was saved. *)
LEMMA OrderlyInit == Init => Orderly
<1> SUFFICES ASSUME Init PROVE Orderly
  OBVIOUS
<1>1. pc = [h \in Handlers |-> "idle"] /\ saved = Entries
  BY DEF Init, Entries
<1>2. Busy = {} /\ saved \ Entries = {}
  BY <1>1 DEF Busy
<1>3. \A h \in Handlers : Knows(h)
  BY <1>1 DEF Knows
<1> QED
  BY <1>2, <1>3 DEF Orderly, OneAtWork, Outranked

(* As long as calls follow one another, the handler at work knows the table*)
(* and no score is gone that belongs to the best.                          *)
THEOREM OrderlyHolds == Spec => []Orderly
<1>1. Inv /\ Inv' /\ Orderly /\ [Next]_vars => Orderly'
  BY OrderlyStep
<1> QED
  BY <1>1, OrderlyInit, InvHolds, PTL DEF Spec

----------------------------------------------------------------------------
(* The answer *)

(* A table that is not too long, and from which nothing better is missing, *)
(* is the table of the best scores.                                        *)
LEMMA TableIsBest ==
  ASSUME TypeOK, Outranked, Entries \subseteq saved, Cardinality(Entries) <= TOP_SCORE
  PROVE  Best = Entries /\ \A n \in Entries : Better(n) = Above(Entries, n)
<1>1. saved \subseteq Nat /\ IsFiniteSet(saved) /\ TOP_SCORE \in Nat
  BY FS_Subset, ScoreboardAssumption DEF TypeOK
<1>2. Entries \subseteq Nat /\ IsFiniteSet(Entries) /\ Cardinality(Entries) \in Nat
  BY EntriesFinite
<1>3. ASSUME NEW m \in saved \ Entries, NEW e \in Entries PROVE e > m
  <2>1. Above(Entries, m) \subseteq Entries
    BY DEF Above
  <2>2. Cardinality(Above(Entries, m)) >= TOP_SCORE
    BY DEF Outranked
  <2>3. Cardinality(Above(Entries, m)) \in Nat /\ Cardinality(Above(Entries, m)) <= Cardinality(Entries)
    BY <1>2, <2>1, FS_Subset, FS_CardinalityType
  <2>4. Cardinality(Above(Entries, m)) = Cardinality(Entries)
    BY <1>1, <1>2, <2>2, <2>3
  <2>5. Above(Entries, m) = Entries
    BY <1>2, <2>1, <2>4, FS_Subset
  <2> QED
    BY <2>5 DEF Above
<1>4. ASSUME NEW n \in Entries PROVE Better(n) = Above(Entries, n)
  <2>1. ASSUME NEW m \in saved, m > n PROVE m \in Entries
    <3> SUFFICES ASSUME m \notin Entries PROVE FALSE
      OBVIOUS
    <3>1. n > m
      BY <1>3
    <3>2. m \in Nat /\ n \in Nat
      BY <1>1, <1>2
    <3> QED
      BY <2>1, <3>1, <3>2
  <2> QED
    BY <2>1 DEF Better, Above
<1>5. ASSUME NEW n \in Entries PROVE n \in Best
  <2>1. Above(Entries, n) \subseteq Entries /\ n \notin Above(Entries, n)
    BY <1>2 DEF Above
  <2>2. Cardinality(Above(Entries, n)) < Cardinality(Entries)
    BY <1>2, <2>1, FS_Subset, FS_CardinalityType
  <2>3. Cardinality(Above(Entries, n)) \in Nat
    BY <1>2, AboveGrows
  <2>4. Cardinality(Above(Entries, n)) < TOP_SCORE
    BY <1>1, <1>2, <2>2, <2>3
  <2> QED
    BY <1>4, <2>4 DEF Best
<1>6. ASSUME NEW n \in Best PROVE n \in Entries
  <2> SUFFICES ASSUME n \notin Entries PROVE FALSE
    OBVIOUS
  <2>1. n \in saved /\ Cardinality(Better(n)) < TOP_SCORE
    BY DEF Best
  <2>2. Cardinality(Above(Entries, n)) >= TOP_SCORE
    BY <2>1 DEF Outranked
  <2>3. Better(n) = Above(saved, n)
    BY DEF Better, Above
  <2>4. /\ Cardinality(Above(Entries, n)) \in Nat /\ Cardinality(Above(saved, n)) \in Nat
        /\ Cardinality(Above(Entries, n)) <= Cardinality(Above(saved, n))
    BY <1>1, AboveGrows
  <2> QED
    BY <1>1, <2>1, <2>2, <2>3, <2>4
<1> QED
  BY <1>4, <1>5, <1>6

(* No two scores have the same rank. *)
LEMMA RankIsOne ==
  ASSUME NEW S, IsFiniteSet(S), S \subseteq Nat, NEW a \in S, NEW b \in S, a < b
  PROVE  Cardinality(Above(S, b)) < Cardinality(Above(S, a))
<1>1. a \in Nat /\ b \in Nat
  OBVIOUS
<1>2. b \in Above(S, a) /\ b \notin Above(S, b)
  BY <1>1 DEF Above
<1>3. \A m \in Nat : m > b => m > a
  BY <1>1
<1>4. Above(S, b) \subseteq Above(S, a)
  BY <1>3 DEF Above
<1>5. IsFiniteSet(Above(S, a)) /\ Above(S, a) \subseteq S
  BY FS_Subset DEF Above
<1>6. /\ Cardinality(Above(S, b)) <= Cardinality(Above(S, a))
      /\ Cardinality(Above(S, b)) = Cardinality(Above(S, a)) => Above(S, b) = Above(S, a)
      /\ Cardinality(Above(S, a)) \in Nat /\ Cardinality(Above(S, b)) \in Nat
  BY <1>4, <1>5, FS_Subset, FS_CardinalityType
<1> QED
  BY <1>2, <1>6

(* A list of the whole table in which each line has its rank is Ranking. *)
LEMMA LinesAreRanking ==
  ASSUME TypeOK, Best = Entries, \A n \in Entries : Better(n) = Above(Entries, n),
         NEW lines \in Seq(Names), Len(lines) = Cardinality(Entries),
         \A k \in DOMAIN lines : lines[k] \in Entries /\ Cardinality(Above(Entries, lines[k])) = k - 1
  PROVE  lines = Ranking
<1>1. Entries \subseteq Nat /\ IsFiniteSet(Entries)
  BY EntriesFinite
<1>2. DOMAIN lines = 1..Cardinality(Best) /\ lines = [k \in 1..Cardinality(Best) |-> lines[k]]
  OBVIOUS
<1>3. ASSUME NEW k \in 1..Cardinality(Best)
      PROVE  lines[k] = CHOOSE n \in Best : Cardinality(Better(n)) = k - 1
  <2>1. lines[k] \in Best /\ Cardinality(Better(lines[k])) = k - 1
    BY <1>2
  <2>2. ASSUME NEW n \in Best, Cardinality(Better(n)) = k - 1 PROVE n = lines[k]
    <3>1. Cardinality(Above(Entries, n)) = Cardinality(Above(Entries, lines[k]))
      BY <2>1, <2>2
    <3>2. n \in Nat /\ lines[k] \in Nat /\ n \in Entries /\ lines[k] \in Entries
      BY <1>1, <2>1
    <3>3. ~ (n < lines[k]) /\ ~ (lines[k] < n)
      <4>1. ASSUME n < lines[k] PROVE FALSE
        <5>1. Cardinality(Above(Entries, lines[k])) < Cardinality(Above(Entries, n))
          BY <1>1, <3>2, <4>1, RankIsOne
        <5> QED
          BY <3>1, <5>1, <1>1, AboveGrows
      <4>2. ASSUME lines[k] < n PROVE FALSE
        <5>1. Cardinality(Above(Entries, n)) < Cardinality(Above(Entries, lines[k]))
          BY <1>1, <3>2, <4>2, RankIsOne
        <5> QED
          BY <3>1, <5>1, <1>1, AboveGrows
      <4> QED
        BY <4>1, <4>2
    <3> QED
      BY <3>2, <3>3
  <2> QED
    BY <2>1, <2>2
<1>4. Ranking = [k \in 1..Cardinality(Best) |-> lines[k]]
  BY <1>3 DEF Ranking
<1> QED
  BY <1>2, <1>4

(* When a call that shows the table ends by itself, and calls followed one *)
(* another, it ends at an empty table or at the end of its list.           *)
LEMMA EndsWell ==
  ASSUME Inv, Undisturbed, OneAtWork, Outranked, NEW h \in Handlers, Knows(h),
         NEW from, NEW to, Ends(h, from, to), ~ own[h].saves
  PROVE  \/ from = "idle" /\ to = "RSB EMPTY" /\ Entries = {}
         \/ from = "open" /\ to = "RSB OK" /\ own[h].list = {}
<1>1. /\ pc[h] = from /\ EndReason(h, from, to)
      /\ from \in {"idle", "create", "filter", "find", "remove", "scan", "open", "read"}
  BY DEF Ends, Frame
<1>2. TOP_SCORE \in Nat /\ TOP_SCORE > 0 /\ Cardinality(Entries) \in Nat /\ (Entries = {} => Cardinality(Entries) = 0)
  BY EntriesFinite, ScoreboardAssumption DEF Inv, Good
<1>3. from \in {"find", "remove"} => Entries # {}
  <2>1. from \in {"find", "remove"} => own[h].total_scores > TOP_SCORE /\ own[h].total_scores = Cardinality(Entries)
    BY <1>1 DEF Knows, Inv, Good, Places
  <2> QED
    BY <1>2, <2>1
<1>4. from \in {"filter", "scan"} => Entries # {}
  BY <1>1 DEF Knows
<1>5. from \in {"filter", "find", "scan", "remove"} => dir
  BY <1>3, <1>4 DEF Inv, Good, TypeOK
<1>6. from = "remove" => own[h].lowest \in Entries
  <2>1. from = "remove" => own[h].lowest = LowestOf(Entries)
    BY <1>1 DEF Knows
  <2>2. Entries # {} => LowestOf(Entries) \in Entries
    BY Lowest DEF Inv, Good, TypeOK
  <2> QED
    BY <1>3, <2>1, <2>2
<1>7. from = "open" /\ own[h].list # {} => HighestOf(own[h].list) \in Entries
  <2>1. from = "open" => own[h].list \subseteq Entries
    BY <1>1 DEF Knows, Ranked, Unread
  <2>2. own[h].list # {} => HighestOf(own[h].list) \in own[h].list
    BY Highest DEF Inv, Good, TypeOK, Process
  <2> QED
    BY <2>1, <2>2
<1>8. from = "read" => own[h].fd \in written /\ Len(own[h].lines) # TOP_SCORE
  <2> SUFFICES ASSUME from = "read" PROVE own[h].fd \in written /\ Len(own[h].lines) # TOP_SCORE
    OBVIOUS
  <2>1. /\ own[h].fd = files[own[h].name] /\ Cardinality(Entries) <= TOP_SCORE
        /\ own[h].list \union {own[h].name} \subseteq Entries
        /\ Cardinality(Entries) = Len(own[h].lines) + Cardinality(own[h].list \union {own[h].name})
    BY <1>1 DEF Knows, Ranked, Unread
  <2>2. h \in Busy
    BY <1>1 DEF Busy, Ended
  <2>3. own[h].fd \in written
    BY <1>1, <2>1, <2>2, EntriesAreSaved
  <2>4. IsFiniteSet(own[h].list \union {own[h].name})
    BY <2>1, FS_Subset, EntriesFinite DEF Inv, Good
  <2>5. Cardinality(own[h].list \union {own[h].name}) \in Nat /\ Cardinality(own[h].list \union {own[h].name}) # 0
    BY <2>4, FS_CardinalityType, FS_EmptySet
  <2>6. Len(own[h].lines) \in Nat
    BY DEF Inv, Good, TypeOK, Process
  <2>7. \A a, b, c, d \in Nat : a <= d /\ a = b + c /\ c # 0 => b # d
    OBVIOUS
  <2> QED
    BY <1>2, <2>1, <2>3, <2>5, <2>6, <2>7
<1> QED
  BY <1>1, <1>3, <1>5, <1>6, <1>7, <1>8 DEF EndReason

(* A handler that has gone through its list has the ranking. *)
LEMMA ListIsRanking ==
  ASSUME Inv, Undisturbed, OneAtWork, Outranked, NEW h \in Handlers, Knows(h), pc[h] = "open", own[h].list = {}
  PROVE  /\ saved # {} /\ own[h].lines = Ranking /\ own[h].total_scores = Len(own[h].lines)
<1>1. /\ Entries # {} /\ own[h].total_scores = Cardinality(Entries) /\ Cardinality(Entries) <= TOP_SCORE
      /\ Cardinality(Entries) = Len(own[h].lines) + Cardinality({})
      /\ \A k \in DOMAIN own[h].lines :
           own[h].lines[k] \in Entries /\ Cardinality(Above(Entries, own[h].lines[k])) = k - 1
  BY DEF Knows, Ranked, Unread
<1>2. own[h].lines \in Seq(Names)
  BY DEF Inv, Good, TypeOK, Process
<1>3. Cardinality(Entries) = Len(own[h].lines)
  <2>1. Cardinality({}) = 0 /\ Len(own[h].lines) \in Nat
    BY <1>2, FS_EmptySet
  <2> QED
    BY <1>1, <2>1
<1>4. h \in Busy
  BY DEF Busy, Ended
<1>5. Entries \subseteq saved
  BY <1>4, EntriesAreSaved
<1>6. Best = Entries /\ \A n \in Entries : Better(n) = Above(Entries, n)
  BY <1>1, <1>5, TableIsBest DEF Inv, Good
<1>7. own[h].lines = Ranking
  BY <1>1, <1>2, <1>3, <1>6, LinesAreRanking DEF Inv, Good
<1> QED
  BY <1>1, <1>3, <1>5, <1>7

(* Nothing was saved when the table is empty. *)
LEMMA EmptyIsNew ==
  ASSUME Outranked, Entries = {}
  PROVE  saved = {}
<1> SUFFICES ASSUME NEW n \in saved PROVE FALSE
  OBVIOUS
<1>1. Above(Entries, n) = {} /\ Cardinality({}) = 0
  BY FS_EmptySet DEF Above
<1> QED
  BY <1>1, ScoreboardAssumption DEF Outranked

(* AnswersAreBest: as long as handlers follow one another and none is      *)
(* interrupted, GSB is answered with the ranking of all scores ever saved: *)
(* removing the lowest file whenever there are too many loses none of the  *)
(* best, the list is gone through in their order, and no answer fails.     *)
THEOREM AnswersAreTheBest == Spec => AnswersAreBest
<1> DEFINE Right(h) ==
      /\ pc'[h] = IF saved = {} THEN "RSB EMPTY" ELSE "RSB OK"
      /\ pc'[h] = "RSB OK" => own[h].lines = Ranking /\ own[h].total_scores = Len(own[h].lines)
<1>1. ASSUME Inv, Orderly, NEW h \in Handlers, StepOf(h), Undisturbed', NEW g \in Handlers,
             pc'[g] # pc[g], ~ own[g].saves, pc'[g] \in Ended
      PROVE  Right(g)
  <2>1. g = h
    BY <1>1, StepFrame DEF Frame
  <2>2. Undisturbed /\ OneAtWork /\ Outranked /\ Knows(h)
    BY <1>1, CalmBefore DEF Orderly
  <2>3. ASSUME NEW from, NEW to, Ends(h, from, to) PROVE Right(h)
    <3>1. pc[h] = from /\ pc'[h] = to
      BY <2>3 DEF Ends, Frame
    <3>2. CASE from = "idle" /\ to = "RSB EMPTY" /\ Entries = {}
      BY <3>1, <3>2, <2>2, EmptyIsNew
    <3>3. CASE from = "open" /\ to = "RSB OK" /\ own[h].list = {}
      BY <1>1, <3>1, <3>3, <2>2, ListIsRanking
    <3> HIDE DEF Right
    <3>4. ~ own[h].saves
      BY <1>1, <2>1
    <3>5. \/ from = "idle" /\ to = "RSB EMPTY" /\ Entries = {}
          \/ from = "open" /\ to = "RSB OK" /\ own[h].list = {}
      BY <1>1, <2>2, <2>3, <3>4, EndsWell
    <3> QED
      BY <3>2, <3>3, <3>5
  <2> HIDE DEF Right
  <2>4. ~ Starts(h) /\ ~ Closes(h) /\ ~ Finds(h) /\ ~ Lists(h) /\ ~ Keeps(h)
    BY <1>1, <2>1 DEF Starts, Closes, Finds, Lists, Keeps, Frame, Ended
  <2>5. (\A n : ~ OpensScore(h, n)) /\ \A n : ~ Opens(h, n)
    BY <1>1, <2>1 DEF OpensScore, Opens, Frame, Ended
  <2>6. \A from, to : ~ Moves(h, from, to)
    BY <1>1, <2>1 DEF Moves, Frame, Ended
  <2>7. (\A to : ~ Counts(h, to)) /\ \A to : ~ Removes(h, to)
    BY <1>1, <2>1 DEF Counts, Removes, Frame, Ended
  <2>8. ~ Dies(h)
    BY <1>1 DEF Dies, Frame, Undisturbed
  <2> QED
    BY <1>1, <2>1, <2>3, <2>4, <2>5, <2>6, <2>7, <2>8 DEF StepOf
<1>2. ASSUME Inv, Orderly, [Next]_vars, Undisturbed', NEW g \in Handlers,
             pc'[g] # pc[g], ~ own[g].saves, pc'[g] \in Ended
      PROVE  Right(g)
  <2>1. ~ UNCHANGED vars
    BY <1>2 DEF vars
  <2> HIDE DEF Right
  <2> QED
    BY <1>1, <1>2, <2>1, StepForms DEF Inv
<1>3. Inv /\ Orderly /\ [Next]_vars =>
        [Undisturbed' => \A h \in Handlers : pc'[h] # pc[h] /\ ~ own[h].saves /\ pc'[h] \in Ended =>
           /\ pc'[h] = IF saved = {} THEN "RSB EMPTY" ELSE "RSB OK"
           /\ pc'[h] = "RSB OK" =>
                own[h].lines = Ranking /\ own[h].total_scores = Len(own[h].lines)]_vars
  BY <1>2
<1> QED
  BY <1>3, InvHolds, OrderlyHolds, PTL DEF Spec, AnswersAreBest
============================================================================
