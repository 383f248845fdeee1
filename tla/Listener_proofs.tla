-------------------------- MODULE Listener_proofs --------------------------
(***************************************************************************)
(* Proofs about Listener, for any number of processes and datagrams: the   *)
(* words that overlapping start commands take from the shared counter.     *)
(*                                                                         *)
(* NeverAhead is not inductive: what a handler stores was loaded earlier,  *)
(* by itself or with its first read.  What bounds both is the number of the*)
(* handlers that are past their own store, or died (Past): a handler that  *)
(* is about to store is not yet one of them, and makes room for itself when*)
(* it stores.  InTurn rests on the relation of the counter to the one      *)
(* handler that is at work.                                                *)
(***************************************************************************)
EXTENDS Listener, FiniteSetTheorems, TLAPS

(* The handlers that will not store any more. *)
Past   == {p \in Procs : pc[p] \in {"unlock", "done", "dead"}}
AtWork == {p \in Procs : pc[p] \notin W!Ended}

(* The part of the state that the choice of words is about. *)
PickTypes ==
  /\ counter \in Nat
  /\ locked \in BOOLEAN
  /\ pc \in [Procs -> {"idle", "read", "load", "store", "unlock", "done", "dead"}]
  /\ cur_id \in [Procs -> Nat]
  /\ loaded \in [Procs -> Nat]
  /\ overlapped \in BOOLEAN

(* Nobody took a number that the handlers past their store did not make. *)
Bounded ==
  /\ counter <= Cardinality(Past)
  /\ \A p \in Procs : cur_id[p] <= Cardinality(Past \ {p})
  /\ \A p \in Procs : pc[p] = "store" => loaded[p] <= Cardinality(Past)

(* While calls do not overlap the one at work has the counter to itself. *)
Alone ==
  ~ overlapped =>
    /\ \A p, q \in AtWork : p = q
    /\ \A q \in Procs : pc[q] = "done" => cur_id[q] < counter
    /\ \A p \in Procs : pc[p] \in {"load", "store"} => cur_id[p] = counter
    /\ \A p \in Procs : pc[p] = "store" => loaded[p] = counter
    /\ \A p \in Procs : pc[p] = "unlock" =>
         /\ cur_id[p] < counter
         /\ \A q \in Procs : pc[q] = "done" => cur_id[q] < cur_id[p]

Inv == PickTypes /\ Bounded /\ Alone

----------------------------------------------------------------------------
(* Counting handlers *)

(* WordPicker counts as this module does. *)
LEMMA SameCount ==
  ASSUME NEW S
  PROVE  W!Cardinality(S) = Cardinality(S)
BY DEF W!Cardinality, Cardinality, W!IsFiniteSet, IsFiniteSet

(* All sets of handlers are finite. *)
LEMMA Counted ==
  ASSUME NEW S, S \subseteq Procs
  PROVE  IsFiniteSet(S) /\ Cardinality(S) \in Nat
BY FS_Subset, FS_CardinalityType, ListenerAssumption

(* A set that has no two members has at most one. *)
LEMMA AtMostOne ==
  ASSUME NEW S, S \subseteq Procs, ~ Cardinality(S) > 1, NEW p \in S, NEW q \in S
  PROVE  p = q
<1> SUFFICES ASSUME p # q PROVE FALSE
  OBVIOUS
<1>1. IsFiniteSet({p}) /\ Cardinality({p}) = 1
  BY FS_Singleton
<1>2. Cardinality({p} \cup {q}) = 2
  <2>1. q \notin {p}
    OBVIOUS
  <2>2. Cardinality({p} \cup {q}) = Cardinality({p}) + 1
    BY <1>1, <2>1, FS_AddElement
  <2> QED
    BY <1>1, <2>2
<1>3. Cardinality({p} \cup {q}) <= Cardinality(S)
  BY FS_Subset, Counted
<1>4. Cardinality(S) \in Nat
  BY Counted
<1> QED
  BY <1>2, <1>3, <1>4

(* A handler that comes to a set makes it one larger. *)
LEMMA OneMore ==
  ASSUME NEW S, S \subseteq Procs, NEW p \in Procs, p \notin S
  PROVE  Cardinality(S \cup {p}) = Cardinality(S) + 1
BY Counted, FS_AddElement

(* A larger set has no fewer members, and a set with a member more, more. *)
LEMMA MoreOf ==
  ASSUME NEW S, NEW T, S \subseteq T, T \subseteq Procs
  PROVE  /\ Cardinality(S) <= Cardinality(T)
         /\ T # S => Cardinality(S) < Cardinality(T)
<1>1. Cardinality(S) <= Cardinality(T) /\ (Cardinality(S) = Cardinality(T) => S = T)
  BY FS_Subset, Counted
<1>2. Cardinality(S) \in Nat /\ Cardinality(T) \in Nat
  BY Counted
<1> QED
  BY <1>1, <1>2

----------------------------------------------------------------------------
(* The steps *)

(* What a step of p does to the three sets, given where it goes. *)
LEMMA GoMoves ==
  ASSUME PickTypes, NEW p \in Procs, NEW from, NEW to, W!Go(p, from, to),
         to \in {"read", "load", "store", "unlock", "done", "dead"}
  PROVE  /\ pc[p] = from
         /\ pc' \in [Procs -> {"idle", "read", "load", "store", "unlock", "done", "dead"}]
         /\ pc'[p] = to
         /\ \A q \in Procs : q # p => pc'[q] = pc[q]
         /\ overlapped' \in BOOLEAN
         /\ ~ overlapped' => ~ overlapped /\ \A q, r \in AtWork' : q = r
<1>1. /\ pc[p] = from
      /\ pc' = [pc EXCEPT ![p] = to]
      /\ overlapped' = (overlapped \/ Cardinality(AtWork') > 1)
  BY SameCount DEF W!Go, AtWork, W!Busy
<1>2. AtWork' \subseteq Procs
  BY DEF AtWork
<1>3. ~ Cardinality(AtWork') > 1 => \A q, r \in AtWork' : q = r
  BY <1>2, AtMostOne
<1>4. overlapped' \in BOOLEAN
  BY <1>1 DEF PickTypes
<1> QED
  BY <1>1, <1>3, <1>4 DEF PickTypes

(* A handler makes its first step: it was idle. *)
LEMMA LockInv ==
  ASSUME Inv, NEW p \in Procs, W!Lock(p)
  PROVE  Inv'
<1>1. W!Go(p, "idle", "read") /\ locked' = TRUE /\ UNCHANGED <<counter, cur_id, loaded>>
  BY DEF W!Lock
<1>2. /\ pc[p] = "idle" /\ pc'[p] = "read"
      /\ pc' \in [Procs -> {"idle", "read", "load", "store", "unlock", "done", "dead"}]
      /\ \A q \in Procs : q # p => pc'[q] = pc[q]
      /\ overlapped' \in BOOLEAN
      /\ ~ overlapped' => ~ overlapped /\ \A q, r \in AtWork' : q = r
  BY <1>1, GoMoves DEF Inv
<1>3. PickTypes'
  BY <1>1, <1>2 DEF Inv, PickTypes
<1>4. Past' = Past
  BY <1>2 DEF Past
<1>5. Bounded'
  BY <1>1, <1>2, <1>4 DEF Inv, Bounded
<1>6. Alone'
  BY <1>1, <1>2 DEF Inv, Alone
<1> QED
  BY <1>3, <1>5, <1>6 DEF Inv

(* More handlers past their store leave more room for each of the others. *)
LEMMA MorePast ==
  ASSUME Inv, Past \subseteq Past', Past' \subseteq Procs
  PROVE  /\ Cardinality(Past) <= Cardinality(Past')
         /\ Cardinality(Past) \in Nat /\ Cardinality(Past') \in Nat
         /\ \A q \in Procs : cur_id[q] <= Cardinality(Past' \ {q})
         /\ \A q \in Procs : pc[q] = "store" => loaded[q] <= Cardinality(Past')
<1>1. Cardinality(Past) <= Cardinality(Past') /\ Cardinality(Past) \in Nat /\ Cardinality(Past') \in Nat
  BY MoreOf, Counted
<1>2. ASSUME NEW q \in Procs PROVE cur_id[q] <= Cardinality(Past' \ {q})
  <2>1. Past \ {q} \subseteq Past' \ {q} /\ Past' \ {q} \subseteq Procs
    OBVIOUS
  <2>2. /\ Cardinality(Past \ {q}) <= Cardinality(Past' \ {q})
        /\ Cardinality(Past \ {q}) \in Nat /\ Cardinality(Past' \ {q}) \in Nat
    BY <2>1, MoreOf, Counted
  <2>3. cur_id[q] <= Cardinality(Past \ {q}) /\ cur_id[q] \in Nat
    BY DEF Inv, Bounded, PickTypes
  <2> QED
    BY <2>2, <2>3
<1>3. ASSUME NEW q \in Procs, pc[q] = "store" PROVE loaded[q] <= Cardinality(Past')
  <2>1. loaded[q] <= Cardinality(Past) /\ loaded[q] \in Nat
    BY <1>3 DEF Inv, Bounded, PickTypes
  <2> QED
    BY <2>1, <1>1
<1> QED
  BY <1>1, <1>2, <1>3

(* cur_id = *shmptr: the reader is not past its store, and all that are count. *)
LEMMA ReadInv ==
  ASSUME Inv, NEW p \in Procs, W!Read(p)
  PROVE  Inv'
<1>1. /\ W!Go(p, "read", "load") /\ cur_id' = [cur_id EXCEPT ![p] = counter]
      /\ UNCHANGED <<counter, locked, loaded>>
  BY DEF W!Read
<1>2. /\ pc[p] = "read" /\ pc'[p] = "load"
      /\ pc' \in [Procs -> {"idle", "read", "load", "store", "unlock", "done", "dead"}]
      /\ \A q \in Procs : q # p => pc'[q] = pc[q]
      /\ overlapped' \in BOOLEAN
      /\ ~ overlapped' => ~ overlapped /\ \A q, r \in AtWork' : q = r
  BY <1>1, GoMoves DEF Inv
<1>3. PickTypes'
  BY <1>1, <1>2 DEF Inv, PickTypes
<1>4. Past' = Past /\ Past \ {p} = Past
  BY <1>2 DEF Past
<1>5. cur_id'[p] = counter /\ \A q \in Procs : q # p => cur_id'[q] = cur_id[q]
  BY <1>1 DEF Inv, PickTypes
<1>6. Bounded'
  <2>1. counter <= Cardinality(Past)
    BY DEF Inv, Bounded
  <2>2. \A q \in Procs : cur_id'[q] <= Cardinality(Past' \ {q})
    BY <2>1, <1>4, <1>5 DEF Inv, Bounded
  <2>3. \A q \in Procs : pc'[q] = "store" => loaded'[q] <= Cardinality(Past')
    BY <1>1, <1>2, <1>4 DEF Inv, Bounded
  <2> QED
    BY <2>1, <2>2, <2>3, <1>1, <1>4 DEF Bounded
<1>7. Alone'
  <2> SUFFICES ASSUME ~ overlapped' PROVE Alone'
    BY DEF Alone
  <2>1. ~ overlapped /\ \A q, r \in AtWork' : q = r
    BY <1>2
  <2>2. \A q \in Procs : pc'[q] \in {"load", "store", "unlock"} => q = p
    BY <2>1, <1>2 DEF AtWork, W!Ended
  <2>3. ASSUME NEW q \in Procs, pc'[q] = "done" PROVE cur_id'[q] < counter'
    BY <2>1, <2>3, <1>1, <1>2, <1>5 DEF Inv, Alone
  <2> QED
    BY <2>1, <2>2, <2>3, <1>1, <1>2, <1>5 DEF Alone
<1> QED
  BY <1>3, <1>6, <1>7 DEF Inv

(* The second load of the counter finds what it was or what it now is. *)
LEMMA LoadInv ==
  ASSUME Inv, NEW p \in Procs, W!Load(p)
  PROVE  Inv'
<1>1. /\ W!Go(p, "load", "store")
      /\ UNCHANGED <<counter, locked, cur_id>>
  BY DEF W!Load
<1> PICK v \in {counter, cur_id[p]} : loaded' = [loaded EXCEPT ![p] = v]
  BY DEF W!Load
<1>2. /\ pc[p] = "load" /\ pc'[p] = "store"
      /\ pc' \in [Procs -> {"idle", "read", "load", "store", "unlock", "done", "dead"}]
      /\ \A q \in Procs : q # p => pc'[q] = pc[q]
      /\ overlapped' \in BOOLEAN
      /\ ~ overlapped' => ~ overlapped /\ \A q, r \in AtWork' : q = r
  BY <1>1, GoMoves DEF Inv
<1>3. v \in Nat
  BY DEF Inv, PickTypes
<1>4. loaded'[p] = v /\ \A q \in Procs : q # p => loaded'[q] = loaded[q]
  BY DEF Inv, PickTypes
<1>5. PickTypes'
  BY <1>1, <1>2, <1>3 DEF Inv, PickTypes
<1>6. Past' = Past /\ Past \ {p} = Past
  BY <1>2 DEF Past
<1>7. v <= Cardinality(Past)
  BY <1>6 DEF Inv, Bounded
<1>8. Bounded'
  BY <1>1, <1>2, <1>4, <1>6, <1>7 DEF Inv, Bounded
<1>9. Alone'
  <2> SUFFICES ASSUME ~ overlapped' PROVE Alone'
    BY DEF Alone
  <2>1. ~ overlapped /\ \A q, r \in AtWork' : q = r
    BY <1>2
  <2>2. \A q \in Procs : pc'[q] \in {"load", "store", "unlock"} => q = p
    BY <2>1, <1>2 DEF AtWork, W!Ended
  <2>3. cur_id[p] = counter /\ v = counter
    BY <2>1, <1>2 DEF Inv, Alone
  <2>4. \A q \in Procs : pc'[q] = "done" => cur_id[q] < counter
    BY <2>1, <1>2 DEF Inv, Alone
  <2> QED
    BY <2>2, <2>3, <2>4, <1>1, <1>2, <1>4 DEF Alone
<1> QED
  BY <1>5, <1>8, <1>9 DEF Inv

(* The store: it counts at most the handlers past theirs, and one more, *)
(* which is this one.                                                   *)
LEMMA StoreInv ==
  ASSUME Inv, NEW p \in Procs, W!Store(p)
  PROVE  Inv'
<1>1. /\ W!Go(p, "store", "unlock") /\ counter' = loaded[p] + 1
      /\ loaded' = [loaded EXCEPT ![p] = 0] /\ UNCHANGED <<locked, cur_id>>
  BY DEF W!Store
<1>2. /\ pc[p] = "store" /\ pc'[p] = "unlock"
      /\ pc' \in [Procs -> {"idle", "read", "load", "store", "unlock", "done", "dead"}]
      /\ \A q \in Procs : q # p => pc'[q] = pc[q]
      /\ overlapped' \in BOOLEAN
      /\ ~ overlapped' => ~ overlapped /\ \A q, r \in AtWork' : q = r
  BY <1>1, GoMoves DEF Inv
<1>3. /\ loaded[p] \in Nat /\ \A q \in Procs : q # p => loaded'[q] = loaded[q]
      /\ \A q \in Procs : cur_id[q] \in Nat
      /\ \A q \in Procs : loaded[q] \in Nat
  BY <1>1 DEF Inv, PickTypes
<1>4. PickTypes'
  <2>1. loaded[p] + 1 \in Nat
    BY <1>3
  <2> QED
    BY <1>1, <1>2, <2>1 DEF Inv, PickTypes
<1>5. Past' = Past \cup {p} /\ p \notin Past /\ Past \subseteq Procs
  BY <1>2 DEF Past
<1>6. Cardinality(Past') = Cardinality(Past) + 1 /\ Cardinality(Past) \in Nat
  BY <1>5, OneMore, Counted
<1>7. Bounded'
  <2>1. counter' <= Cardinality(Past')
    <3>1. loaded[p] <= Cardinality(Past)
      BY <1>2 DEF Inv, Bounded
    <3> QED
      BY <3>1, <1>1, <1>3, <1>6
  <2>2. \A q \in Procs : cur_id'[q] <= Cardinality(Past' \ {q})
    BY <1>1, <1>5, MorePast
  <2>3. \A q \in Procs : pc'[q] = "store" => loaded'[q] <= Cardinality(Past')
    BY <1>2, <1>3, <1>5, MorePast
  <2> QED
    BY <2>1, <2>2, <2>3 DEF Bounded
<1>8. Alone'
  <2> SUFFICES ASSUME ~ overlapped' PROVE Alone'
    BY DEF Alone
  <2>1. ~ overlapped /\ \A q, r \in AtWork' : q = r
    BY <1>2
  <2>2. \A q \in Procs : pc'[q] \in {"load", "store", "unlock"} => q = p
    BY <2>1, <1>2 DEF AtWork, W!Ended
  <2>3. cur_id[p] = counter /\ loaded[p] = counter /\ counter \in Nat
    BY <2>1, <1>2 DEF Inv, Alone, PickTypes
  <2>4. cur_id[p] < counter'
    BY <2>3, <1>1
  <2>5. \A q \in Procs : pc'[q] = "done" => cur_id[q] < counter
    BY <2>1, <1>2 DEF Inv, Alone
  <2>6. \A q \in Procs : pc'[q] = "done" => cur_id[q] < cur_id[p] /\ cur_id[q] < counter'
    BY <2>3, <2>5, <1>1, <1>3
  <2> QED
    BY <2>2, <2>4, <2>6, <1>1, <1>2 DEF Alone
<1> QED
  BY <1>4, <1>7, <1>8 DEF Inv

(* What Return and a signal do: a handler ends, and the counter stays. *)
LEMMA EndInv ==
  ASSUME Inv, NEW p \in Procs, NEW from, NEW to \in {"done", "dead"}, W!Go(p, from, to),
         from # "idle", to = "done" => from = "unlock", UNCHANGED <<counter, cur_id>>,
         locked' \in BOOLEAN, loaded' = loaded \/ loaded' = [loaded EXCEPT ![p] = 0]
  PROVE  Inv'
<1>1. /\ pc[p] = from /\ pc'[p] = to
      /\ pc' \in [Procs -> {"idle", "read", "load", "store", "unlock", "done", "dead"}]
      /\ \A q \in Procs : q # p => pc'[q] = pc[q]
      /\ overlapped' \in BOOLEAN
      /\ ~ overlapped' => ~ overlapped /\ \A q, r \in AtWork' : q = r
  BY GoMoves DEF Inv
<1>2. PickTypes'
  BY <1>1 DEF Inv, PickTypes
<1>3. Past \subseteq Past' /\ Past' \subseteq Procs
  BY <1>1 DEF Past
<1>4. /\ counter \in Nat
      /\ \A q \in Procs : cur_id[q] \in Nat /\ loaded[q] \in Nat
      /\ \A q \in Procs : q # p => loaded'[q] = loaded[q]
  BY DEF Inv, PickTypes
<1>5. Bounded'
  <2>1. counter' <= Cardinality(Past')
    BY <1>3, <1>4, MorePast DEF Inv, Bounded
  <2>2. \A q \in Procs : cur_id'[q] <= Cardinality(Past' \ {q})
    BY <1>3, MorePast
  <2>3. \A q \in Procs : pc'[q] = "store" => loaded'[q] <= Cardinality(Past')
    BY <1>1, <1>3, <1>4, MorePast
  <2> QED
    BY <2>1, <2>2, <2>3 DEF Bounded
<1>6. Alone'
  <2> SUFFICES ASSUME ~ overlapped' PROVE Alone'
    BY DEF Alone
  <2>1. ~ overlapped /\ \A q, r \in AtWork' : q = r
    BY <1>1
  <2>2. \A q \in Procs : pc'[q] \in {"load", "store", "unlock"} => pc[q] = pc'[q] /\ q # p
    BY <1>1
  <2>3. \A q \in Procs : pc'[q] = "done" => cur_id[q] < counter
    BY <2>1, <1>1 DEF Inv, Alone
  <2>4. ASSUME NEW r \in Procs, pc'[r] = "unlock", NEW q \in Procs, pc'[q] = "done"
        PROVE  cur_id[q] < cur_id[r]
    <3>1. pc[r] = "unlock" /\ r # p
      BY <2>2, <2>4
    <3>2. CASE q = p
      <4>1. r \in AtWork /\ (to = "done" => p \in AtWork)
        BY <3>1, <1>1 DEF AtWork, W!Ended
      <4>2. to = "done"
        BY <3>2, <2>4, <1>1
      <4>3. r = p
        BY <4>1, <4>2, <2>1 DEF Inv, Alone
      <4> QED
        BY <4>3, <3>1
    <3>3. CASE q # p
      BY <3>1, <3>3, <2>1, <2>4, <1>1 DEF Inv, Alone
    <3> QED
      BY <3>2, <3>3
  <2>5. /\ \A q, r \in AtWork' : q = r
        /\ \A q \in Procs : pc'[q] = "done" => cur_id'[q] < counter'
        /\ \A q \in Procs : pc'[q] \in {"load", "store"} => cur_id'[q] = counter'
        /\ \A q \in Procs : pc'[q] = "store" => loaded'[q] = counter'
        /\ \A q \in Procs : pc'[q] = "unlock" => cur_id'[q] < counter'
    BY <2>1, <2>2, <2>3, <1>4 DEF Inv, Alone
  <2> QED
    BY <2>4, <2>5 DEF Alone
<1> QED
  BY <1>2, <1>5, <1>6 DEF Inv

(* Every step of the listener and of its handlers keeps Inv. *)
LEMMA PickInv ==
  ASSUME Inv, NEW p \in Procs, W!random_entry(p)
  PROVE  Inv'
<1>1. CASE W!Return(p)
  <2>1. W!Go(p, "unlock", "done") /\ locked' = FALSE /\ UNCHANGED <<counter, cur_id, loaded>>
    BY <1>1 DEF W!Return
  <2> QED
    BY <2>1, EndInv
<1> QED
  BY <1>1, ReadInv, LoadInv, StoreInv DEF W!random_entry

(* A handler that is interrupted does not store any more. *)
LEMMA InterruptInv ==
  ASSUME Inv, NEW p \in Procs, W!Interrupt(p)
  PROVE  Inv'
<1>1. /\ W!Go(p, pc[p], "dead") /\ pc[p] # "idle" /\ UNCHANGED <<counter, cur_id, locked>>
      /\ loaded' = [loaded EXCEPT ![p] = 0]
  BY DEF W!Interrupt, W!Ended
<1> QED
  BY <1>1, EndInv DEF Inv, PickTypes

(* Steps of the listener do not touch the counter. *)
LEMMA SameInv ==
  ASSUME Inv, UNCHANGED picks
  PROVE  Inv'
BY DEF Inv, PickTypes, Bounded, Alone, Past, AtWork, W!Ended, picks

(* Every step keeps the invariant. *)
LEMMA InvStep ==
  ASSUME Inv, [Next]_vars
  PROVE  Inv'
<1>1. CASE LoadDictionary \/ Arrive \/ (\E p \in Procs : Fork(p)) \/ UNCHANGED vars
  BY <1>1, SameInv DEF LoadDictionary, Arrive, Fork, vars
<1>2. ASSUME NEW p \in Procs, Take(p) PROVE Inv'
  BY <1>2, LockInv, SameInv DEF Take
<1>3. ASSUME NEW p \in Procs, Pick(p) PROVE Inv'
  BY <1>3, PickInv DEF Pick
<1>4. ASSUME NEW p \in Procs, Interrupt(p) PROVE Inv'
  BY <1>4, InterruptInv, SameInv DEF Interrupt
<1> QED
  BY <1>1, <1>2, <1>3, <1>4 DEF Next

(* Nobody has picked a word at the start. *)
LEMMA InvInit ==
  ASSUME Init
  PROVE  Inv
<1>1. /\ counter = 0 /\ locked = FALSE /\ overlapped = FALSE
      /\ pc = [p \in Procs |-> "idle"]
      /\ cur_id = [p \in Procs |-> 0] /\ loaded = [p \in Procs |-> 0]
  BY DEF Init, W!Init
<1>2. PickTypes
  BY <1>1 DEF PickTypes
<1>3. Past = {} /\ AtWork = {} /\ \A p \in Procs : Past \ {p} = {}
  BY <1>1 DEF Past, AtWork, W!Ended
<1>4. Cardinality({}) = 0
  BY FS_EmptySet
<1>5. Bounded
  BY <1>1, <1>3, <1>4 DEF Bounded
<1>6. Alone
  BY <1>1, <1>3 DEF Alone
<1> QED
  BY <1>2, <1>5, <1>6 DEF Inv

(* The invariant of random_entry as handlers run it, overlapping or not. *)
THEOREM InvHolds == Spec => []Inv
BY InvInit, InvStep, PTL DEF Spec

----------------------------------------------------------------------------
(* What it gives *)

(* NeverAhead: also of calls that overlap or are cut off, whoever has      *)
(* number n has it after n others stored the counter or were killed, and   *)
(* the counter is at most the number of those that did.                    *)
THEOREM NeverRunsAhead == Spec => []NeverAhead
<1>1. Inv => NeverAhead
  <2>1. W!Past = Past
    BY DEF W!Past, Past
  <2> QED
    BY <2>1, SameCount DEF Inv, Bounded, NeverAhead, W!NeverAhead
<1> QED
  BY <1>1, InvHolds, PTL

(* InTurn: as long as no two calls of random_entry overlap, each takes a   *)
(* later number than all that returned, also when handlers die in between. *)
THEOREM WordsInTurn == Spec => []InTurn
<1>1. Inv => InTurn
  <2> SUFFICES ASSUME Inv, ~ overlapped,
                      NEW p \in Procs, pc[p] \in {"load", "store", "unlock"},
                      NEW q \in Procs, pc[q] = "done"
               PROVE  cur_id[q] < cur_id[p]
    BY DEF InTurn, W!InTurn, W!Returned
  <2> QED
    BY DEF Inv, Alone
<1> QED
  BY <1>1, InvHolds, PTL

----------------------------------------------------------------------------
(* Types.  A server that is not up has taken no datagram, so that no word  *)
(* was picked before the dictionary it is picked from was there.           *)
Serving ==
  /\ TypeOK
  /\ amt \in Nat
  /\ server # "up" => queue = << >> /\ picked = {} /\ \A p \in Procs : proc[p] = "free"
  /\ server = "starting" => text \in Texts /\ amt = 0

(* cur_id % dict->amt is a place in the dictionary. *)
LEMMA Modulo ==
  ASSUME NEW n \in Nat, NEW m \in Nat, m > 0
  PROVE  n % m \in 0..(m - 1)
OBVIOUS
(* A datagram that comes to the queue or leaves it. *)
LEMMA QueueTail ==
  ASSUME queue \in Seq(BOOLEAN), Len(queue) <= QueueCap, queue # << >>
  PROVE  Tail(queue) \in Seq(BOOLEAN) /\ Len(Tail(queue)) <= QueueCap
<1>1. Tail(queue) \in Seq(BOOLEAN) /\ Len(Tail(queue)) = Len(queue) - 1 /\ Len(queue) \in Nat
  OBVIOUS
<1> QED
  BY <1>1, ListenerAssumption

(* A datagram that finds room does not overfill the socket. *)
LEMMA QueueAppend ==
  ASSUME queue \in Seq(BOOLEAN), Len(queue) < QueueCap, NEW b \in BOOLEAN
  PROVE  Append(queue, b) \in Seq(BOOLEAN) /\ Len(Append(queue, b)) <= QueueCap
<1>1. Append(queue, b) \in Seq(BOOLEAN) /\ Len(Append(queue, b)) = Len(queue) + 1 /\ Len(queue) \in Nat
  OBVIOUS
<1> QED
  BY <1>1, ListenerAssumption

(* A handler's entry in the table goes along with its place in random_entry. *)
LEMMA ServingStep ==
  ASSUME Serving, Inv, [Next]_vars
  PROVE  Serving'
<1> USE DEF Serving, TypeOK
<1>0. PickTypes'
  BY InvStep DEF Inv
<1>1. CASE LoadDictionary
  <2> DEFINE dict == InitDictionary(text)
  <2>1. /\ server = "starting" /\ server' = IF dict.error THEN "exited" ELSE "up"
        /\ amt' = IF dict.error THEN 0 ELSE Len(dict.entries)
        /\ text' = << >> /\ UNCHANGED <<queue, proc, picks>>
    BY <1>1 DEF LoadDictionary
  <2>2. ~ dict.error => Len(dict.entries) \in Nat \ {0}
    BY <2>1, TextsAssumption
  <2> HIDE DEF dict
  <2>3. picked = {} /\ picked' = {}
    BY <2>1 DEF picks
  <2>4. amt' \in Nat /\ (server' = "up" => amt' > 0) /\ server' \in {"up", "exited"}
    BY <2>1, <2>2
  <2>5. W!TypeOK'
    BY <2>3, <1>0 DEF W!TypeOK, PickTypes
  <2> QED
    BY <2>1, <2>3, <2>4, <2>5 DEF picks, W!Ended
<1>2. CASE Arrive
  <2>1. server = "up" /\ UNCHANGED <<server, text, proc, amt, picks>>
    BY <1>2 DEF Arrive
  <2>2. queue' \in Seq(BOOLEAN) /\ Len(queue') <= QueueCap
    BY <1>2, QueueAppend DEF Arrive
  <2> QED
    BY <2>1, <2>2 DEF picks, W!Ended, W!TypeOK
<1>3. ASSUME NEW p \in Procs, Fork(p) PROVE Serving'
  <2>1. server = "up" /\ proc[p] = "free" /\ proc' = [proc EXCEPT ![p] = "waiting"]
        /\ UNCHANGED <<server, text, queue, amt, picks>>
    BY <1>3 DEF Fork, Becomes
  <2> QED
    BY <2>1 DEF picks, W!Ended, W!TypeOK
<1>4. ASSUME NEW p \in Procs, Take(p) PROVE Serving'
  <2>1. /\ queue # << >> /\ queue' = Tail(queue) /\ proc[p] = "waiting"
        /\ UNCHANGED <<server, text, amt>> /\ picked' = picked /\ server = "up"
    BY <1>4 DEF Take, Becomes, W!Lock, picks
  <2>2. queue' \in Seq(BOOLEAN) /\ Len(queue') <= QueueCap
    BY <2>1, QueueTail
  <2>3. CASE proc' = [proc EXCEPT ![p] = "picking"] /\ W!Lock(p)
    <3>1. pc' = [pc EXCEPT ![p] = "read"]
      BY <2>3 DEF W!Lock, W!Go
    <3> QED
      BY <2>1, <2>2, <2>3, <3>1, <1>0 DEF W!Ended, W!TypeOK, PickTypes
  <2>4. CASE proc' = [proc EXCEPT ![p] = "zombie"] /\ UNCHANGED picks
    BY <2>1, <2>2, <2>4 DEF picks, W!Ended, W!TypeOK
  <2> QED
    BY <2>3, <2>4, <1>4 DEF Take, Becomes
<1>5. ASSUME NEW p \in Procs, Pick(p) PROVE Serving'
  <2>1. /\ proc' = IF pc'[p] = "done" THEN [proc EXCEPT ![p] = "zombie"] ELSE proc
        /\ UNCHANGED <<server, text, queue, amt>> /\ W!random_entry(p)
    BY <1>5 DEF Pick
  <2>2. \/ pc[p] = "read" /\ pc' = [pc EXCEPT ![p] = "load"]
        \/ pc[p] = "load" /\ pc' = [pc EXCEPT ![p] = "store"]
        \/ pc[p] = "store" /\ pc' = [pc EXCEPT ![p] = "unlock"]
        \/ pc[p] = "unlock" /\ pc' = [pc EXCEPT ![p] = "done"]
    BY <2>1 DEF W!random_entry, W!Read, W!Load, W!Store, W!Return, W!Go
  <2>3. proc[p] = "picking" /\ server = "up" /\ amt > 0
    BY <2>2 DEF W!Ended
  <2>4. proc' \in [Procs -> {"free", "waiting", "picking", "zombie"}]
    BY <2>1
  <2>5. \A q \in Procs : proc'[q] = "picking" <=> pc'[q] \notin W!Ended
    BY <2>1, <2>2, <2>3 DEF W!Ended, W!TypeOK
  <2>6. picked' \subseteq 0..(amt - 1)
    <3>1. CASE picked' = picked
      BY <2>3, <3>1 DEF W!TypeOK
    <3>2. CASE picked' = picked \union {cur_id[p] % amt}
      <4>1. cur_id[p] \in Nat
        BY DEF W!TypeOK
      <4>2. cur_id[p] % amt \in 0..(amt - 1)
        BY <4>1, <2>3, Modulo
      <4> QED
        BY <2>3, <3>2, <4>2 DEF W!TypeOK
    <3> QED
      BY <2>1, <3>1, <3>2 DEF W!random_entry, W!Read, W!Load, W!Store, W!Return
  <2>7. W!TypeOK'
    BY <2>1, <2>6, <1>0 DEF W!TypeOK, PickTypes
  <2> QED
    BY <2>1, <2>3, <2>4, <2>5, <2>7
<1>6. ASSUME NEW p \in Procs, Interrupt(p) PROVE Serving'
  <2>1. UNCHANGED <<server, text, queue, amt>> /\ picked' = picked
    BY <1>6 DEF Interrupt, W!Interrupt, picks
  <2>2. W!TypeOK'
    BY <2>1, <1>0 DEF W!TypeOK, PickTypes
  <2>3. CASE Becomes(p, "picking", "zombie") /\ W!Interrupt(p)
    <3>1. pc' = [pc EXCEPT ![p] = "dead"] /\ proc[p] = "picking" /\ proc' = [proc EXCEPT ![p] = "zombie"]
      BY <2>3 DEF W!Interrupt, W!Go, Becomes
    <3> QED
      BY <2>1, <2>2, <3>1 DEF W!Ended, W!TypeOK
  <2>4. CASE Becomes(p, "waiting", "zombie") /\ UNCHANGED picks
    BY <2>1, <2>2, <2>4 DEF Becomes, picks, W!Ended, W!TypeOK
  <2> QED
    BY <2>3, <2>4, <1>6 DEF Interrupt
<1>7. CASE UNCHANGED vars
  BY <1>7 DEF vars, picks, W!Ended, W!TypeOK
<1> QED
  BY <1>1, <1>2, <1>3, <1>4, <1>5, <1>6, <1>7 DEF Next

(* TypeOK: in particular every word that was picked is in the dictionary,  *)
(* and the handlers that pick one are those that the table shows doing so. *)
THEOREM TypeCorrect == Spec => []TypeOK
<1>1. Init => Serving
  <2> SUFFICES ASSUME Init PROVE Serving
    OBVIOUS
  <2>1. PickTypes
    BY InvInit DEF Inv
  <2>2. Len(<< >>) <= QueueCap
    BY ListenerAssumption
  <2>3. /\ server = "starting" /\ text \in Texts /\ queue = << >> /\ amt = 0 /\ picked = {}
        /\ proc = [p \in Procs |-> "free"] /\ pc = [p \in Procs |-> "idle"]
    BY DEF Init, W!Init
  <2>4. W!TypeOK
    BY <2>1, <2>3 DEF W!TypeOK, PickTypes
  <2>5. << >> \in Seq(BOOLEAN)
    OBVIOUS
  <2> QED
    BY <2>2, <2>3, <2>4, <2>5 DEF Serving, TypeOK, W!Ended
<1>2. Serving => TypeOK
  BY DEF Serving
<1> QED
  BY <1>1, <1>2, ServingStep, InvHolds, PTL DEF Spec
=============================================================================
