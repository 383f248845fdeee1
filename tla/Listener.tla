------------------------------ MODULE Listener ------------------------------
(***************************************************************************)
(* The server from its start on: it loads the dictionary, and the process  *)
(* that listens for UDP makes a handler whenever it sees a datagram.  The  *)
(* listener does not read the datagram: until some handler does, it sees it*)
(* again and makes one more handler.  A handler reads one datagram, starts *)
(* a game if that is what it asks for (random_entry, WordPicker.tla), and  *)
(* ends.  Nobody waits for the handlers that ended: the listener does not, *)
(* and proc_start_zombie_hunter waits for the children of its own process, *)
(* which are the two listeners; a zombie keeps its entry in the table of   *)
(* processes.                                                              *)
(***************************************************************************)
EXTENDS Dictionary, FiniteSets

CONSTANTS
  Procs,        \* the processes that the system lets the server have
  Texts,        \* the files that it is started with
  QueueCap,     \* bound: the datagrams that the socket holds
  CanInterrupt  \* whether SIGINT may end a handler

ASSUME ListenerAssumption ==
  /\ MinWord \in Nat /\ MaxWord \in Nat /\ MinWord <= MaxWord
  /\ \A text \in Texts : text # << >>
  /\ QueueCap \in Nat /\ CanInterrupt \in BOOLEAN
  /\ IsFiniteSet(Procs)

(* A text that InitDictionary gets through has a word: a text is not empty  *)
(* and an LF where a word should be is an error.                            *)
ASSUME TextsAssumption ==
  \A text \in Texts : LET dict == InitDictionary(text) IN ~ dict.error => Len(dict.entries) \in Nat \ {0}

VARIABLES
  server,  \* "starting", "up" or "exited"
  text,    \* the file of words, until it is loaded
  queue,   \* the datagrams that the socket holds: whether each starts a game
  proc,    \* the entries of the table of processes
  amt, counter, locked, pc, cur_id, loaded, picked, overlapped  \* of WordPicker

W == INSTANCE WordPicker WITH Pickers <- Procs

picks == <<counter, locked, pc, cur_id, loaded, picked, overlapped>>
vars  == <<server, text, queue, proc, amt, picks>>

Init ==
  /\ server = "starting"
  /\ text \in Texts
  /\ queue = << >>
  /\ proc = [p \in Procs |-> "free"]
  /\ amt = 0
  /\ W!Init

(* main: InitDictionary, which exits when a line is not as it should be.    *)
LoadDictionary ==
  /\ server = "starting"
  /\ LET dict == InitDictionary(text) IN
       /\ server' = IF dict.error THEN "exited" ELSE "up"
       /\ amt' = IF dict.error THEN 0 ELSE Len(dict.entries)
  /\ text' = << >>
  /\ UNCHANGED <<queue, proc, picks>>

(* A datagram arrives; the system drops it when the socket is full. *)
Arrive ==
  /\ server = "up"
  /\ Len(queue) < QueueCap
  /\ \E starts \in BOOLEAN : queue' = Append(queue, starts)
  /\ UNCHANGED <<server, text, proc, amt, picks>>

Becomes(p, from, to) == proc[p] = from /\ proc' = [proc EXCEPT ![p] = to]

(* command_reader: select returns while there is a datagram, and then fork. *)
(* Without a free entry fork gives -1, and the loop goes on.                *)
Fork(p) ==
  /\ server = "up"
  /\ queue # << >>
  /\ Becomes(p, "free", "waiting")
  /\ UNCHANGED <<server, text, queue, amt, picks>>

(* handle_udp_impl: recvfrom.  The command starts a game, or it does not,   *)
(* and what else it does is left to GameStore.tla.                          *)
Take(p) ==
  /\ queue # << >>
  /\ queue' = Tail(queue)
  /\ \/ Head(queue) /\ Becomes(p, "waiting", "picking") /\ W!Lock(p)
     \/ ~ Head(queue) /\ Becomes(p, "waiting", "zombie") /\ UNCHANGED picks
  /\ UNCHANGED <<server, text, amt>>

Pick(p) ==
  /\ W!random_entry(p)
  /\ proc' = IF pc'[p] = "done" THEN [proc EXCEPT ![p] = "zombie"] ELSE proc
  /\ UNCHANGED <<server, text, queue, amt>>

Interrupt(p) ==
  /\ \/ Becomes(p, "picking", "zombie") /\ W!Interrupt(p)
     \/ CanInterrupt /\ Becomes(p, "waiting", "zombie") /\ UNCHANGED picks
  /\ UNCHANGED <<server, text, queue, amt>>

Next ==
  \/ LoadDictionary \/ Arrive
  \/ \E p \in Procs : Fork(p) \/ Take(p) \/ Pick(p) \/ Interrupt(p)

(* The listener and the handlers are processes that the system schedules.   *)
Spec ==
  /\ Init /\ [][Next]_vars
  /\ WF_vars(\E p \in Procs : Fork(p))
  /\ \A p \in Procs : WF_vars(Take(p)) /\ WF_vars(Pick(p))

----------------------------------------------------------------------------
(* Properties *)

TypeOK ==
  /\ server \in {"starting", "up", "exited"}
  /\ server # "starting" => text = << >>
  /\ server = "up" => amt > 0
  /\ queue \in Seq(BOOLEAN) /\ Len(queue) <= QueueCap
  /\ proc \in [Procs -> {"free", "waiting", "picking", "zombie"}]
  /\ \A p \in Procs : proc[p] = "picking" <=> pc[p] \notin W!Ended
  /\ W!TypeOK

(* The scanner of InitDictionary accepts the texts whose lines are entries, *)
(* and no others, and finds in them the words and classes that they hold.   *)
(* It writes the entries to a buffer whose size is guessed from that of the *)
(* file before any line was read: they fit when every word has a class.     *)
LoadsDictionary ==
  [][server = "starting" =>
       /\ server' = IF IsDictionary(text) THEN "up" ELSE "exited"
       /\ IsDictionary(text) =>
            LET found == InitDictionary(text).entries IN
              /\ found = Entries(text)
              /\ (\A k \in DOMAIN found : found[k].class # << >>) => Len(found) <= alloc_size(text)]_vars

(* WordPicker.tla, for handlers that are made as they are here. *)
NeverAhead == W!NeverAhead
InTurn     == W!InTurn

(* Every datagram is taken, and the handlers that took one come to their    *)
(* end, as long as there is a process left: although the listener makes     *)
(* more handlers than there are datagrams, and handlers die.  The end may   *)
(* be SIGINT, and then what the datagram asked for is not done.             *)
Exhausted == \A p \in Procs : proc[p] = "zombie"
EveryDatagramTaken ==
  queue # << >> ~> \/ Exhausted
                   \/ queue = << >> /\ \A p \in Procs : proc[p] # "picking"
=============================================================================
