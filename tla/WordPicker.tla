----------------------------- MODULE WordPicker -----------------------------
(***************************************************************************)
(* random_entry: how the handlers pick the words of new games from a       *)
(* counter in shared memory (the build with FOR_TEST, which is the one that*)
(* ships).  The flock around the counter is taken on a descriptor that all *)
(* handlers inherited from command_reader, hence on one open file          *)
(* description, to which the lock belongs: taking it again succeeds at     *)
(* once, and the first handler to release it releases it for all.          *)
(*                                                                         *)
(* The handlers come from Listener.tla, which takes these actions as parts *)
(* of its own and checks the properties below.                             *)
(***************************************************************************)
EXTENDS Naturals, FiniteSets

CONSTANTS
  Pickers,      \* the handlers that start a game, one call each
  CanInterrupt  \* whether SIGINT may end a handler

VARIABLES
  amt,      \* dict->amt: the number of words; set before the first call
  counter,  \* the u32 in the shared memory segment
  locked,   \* whether the open file description of ./locks holds the flock
  pc,       \* where each handler is
  cur_id,   \* cur_id
  loaded,   \* the second load of *shmptr, for the increment
  picked,    \* history: the results of the calls that returned
  overlapped \* history: whether two calls ever ran at the same time

Init ==
  /\ counter = 0
  /\ locked = FALSE
  /\ pc = [p \in Pickers |-> "idle"]
  /\ cur_id = [p \in Pickers |-> 0]
  /\ loaded = [p \in Pickers |-> 0]
  /\ picked = {}
  /\ overlapped = FALSE

Ended == {"idle", "done", "dead"}
Busy  == {p \in Pickers : pc[p] \notin Ended}

Go(p, from, to) ==
  /\ pc[p] = from
  /\ pc' = [pc EXCEPT ![p] = to]
  /\ overlapped' = (overlapped \/ Cardinality(Busy') > 1)

(* A fault of Lock: it waits for the lock, as it would with a descriptor of *)
(* its own.                                                                 *)
Lock_Waits(p) ==
  /\ ~ locked
  /\ Go(p, "idle", "read")
  /\ locked' = TRUE
  /\ UNCHANGED <<counter, cur_id, loaded, picked>>

(* flock(g_shm_fd, LOCK_EX): never waits, see above. *)
Lock(p) ==
  /\ Go(p, "idle", "read")
  /\ locked' = TRUE
  /\ UNCHANGED <<counter, cur_id, loaded, picked>>

(* cur_id = *shmptr *)
Read(p) ==
  /\ Go(p, "read", "load")
  /\ cur_id' = [cur_id EXCEPT ![p] = counter]
  /\ UNCHANGED <<counter, locked, loaded, picked>>

(* *shmptr = *shmptr + 1: a load and a store, of a variable that is not     *)
(* atomic; a compiler may use the value it has in cur_id for the load.      *)
Load(p) ==
  /\ Go(p, "load", "store")
  /\ \E v \in {counter, cur_id[p]} : loaded' = [loaded EXCEPT ![p] = v]
  /\ UNCHANGED <<counter, locked, cur_id, picked>>

(* Faults of Store: the counter is not advanced, or twice. *)
Store_Same(p) ==
  /\ Go(p, "store", "unlock")
  /\ counter' = loaded[p]
  /\ loaded' = [loaded EXCEPT ![p] = 0]
  /\ UNCHANGED <<locked, cur_id, picked>>

Store_Twice(p) ==
  /\ Go(p, "store", "unlock")
  /\ counter' = loaded[p] + 2
  /\ loaded' = [loaded EXCEPT ![p] = 0]
  /\ UNCHANGED <<locked, cur_id, picked>>

Store(p) ==
  /\ Go(p, "store", "unlock")
  /\ counter' = loaded[p] + 1
  /\ loaded' = [loaded EXCEPT ![p] = 0]
  /\ UNCHANGED <<locked, cur_id, picked>>

(* A fault of Return: the id is used as it is. *)
Return_Raw(p) ==
  /\ Go(p, "unlock", "done")
  /\ locked' = FALSE
  /\ picked' = picked \union {cur_id[p]}
  /\ UNCHANGED <<counter, cur_id, loaded>>

(* flock(g_shm_fd, LOCK_UN), and the word: cur_id % dict->amt *)
Return(p) ==
  /\ Go(p, "unlock", "done")
  /\ locked' = FALSE
  /\ picked' = picked \union {cur_id[p] % amt}
  /\ UNCHANGED <<counter, cur_id, loaded>>

(* sig_exit_subudp_impl: the description stays open in the listener, so the *)
(* lock survives the handler.                                               *)
Interrupt(p) ==
  /\ CanInterrupt
  /\ pc[p] \notin Ended
  /\ Go(p, pc[p], "dead")
  /\ loaded' = [loaded EXCEPT ![p] = 0]
  /\ UNCHANGED <<counter, locked, cur_id, picked>>

random_entry(p) == Read(p) \/ Load(p) \/ Store(p) \/ Return(p)

----------------------------------------------------------------------------
(* Properties *)

Returned == {p \in Pickers : pc[p] = "done"}
Past     == {p \in Pickers : pc[p] \in {"unlock", "done", "dead"}}   \* stored the counter, or died

TypeOK ==
  /\ counter \in Nat
  /\ locked \in BOOLEAN
  /\ pc \in [Pickers -> {"idle", "read", "load", "store", "unlock", "done", "dead"}]
  /\ cur_id \in [Pickers -> Nat]
  /\ loaded \in [Pickers -> Nat]
  /\ amt > 0 => picked \subseteq 0..(amt - 1)
  /\ overlapped \in BOOLEAN

(* Handlers that overlap may take the same word, and one that came later an *)
(* earlier word, but no word is left out for nothing: whoever has number n  *)
(* (from 0) has it after n other handlers stored the counter or were killed,*)
(* and the counter never passes the number of those that did.  A store of a *)
(* stale value takes the counter back, so neither follows from one step.    *)
NeverAhead ==
  /\ counter <= Cardinality(Past)
  /\ \A p \in Pickers : cur_id[p] <= Cardinality(Past \ {p})

(* As long as no two start commands overlap, each takes a later place than  *)
(* all that returned, so that no word a player was given comes again before *)
(* the others, also when a handler is killed between its load and its store.*)
(* (That the killed one leaves out at most one word takes NeverAhead too.)  *)
InTurn ==
  ~ overlapped =>
    \A p \in Pickers : pc[p] \in {"load", "store", "unlock"} =>
      \A q \in Returned : cur_id[q] < cur_id[p]
=============================================================================
