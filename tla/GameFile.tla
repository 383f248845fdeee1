------------------------------ MODULE GameFile ------------------------------
(***************************************************************************)
(* The promise of the game store: a request changes the file of its player *)
(* in one step.  No process, no lock and no memory of a handler is left;   *)
(* only the directory entry and the contents of the inodes.                *)
(*                                                                         *)
(* Spec allows what two overlapping requests may do to each other: begin a *)
(* game over one that is there, and delete a file that is not finished.    *)
(* SerialSpec is the server a player expects.                              *)
(***************************************************************************)
EXTENDS GameOutcome

CONSTANTS MaxInodes, Leftover

VARIABLES path, content

Inodes  == 1..MaxInodes
NoInode == 0

Init ==
  \/ path = NoInode /\ content = [i \in Inodes |-> EmptyFile]
  \/ path = 1 /\ \E g \in Leftover :
                  content = [i \in Inodes |-> IF i = 1 THEN g ELSE EmptyFile]

(* Ids of the games that some file holds. *)
Stored == {content[i].id : i \in Inodes}

Create(i) ==
  /\ path = NoInode
  /\ content[i] = EmptyFile
  /\ path' = i
  /\ UNCHANGED content

(* A request makes one move of the game that the file holds now. *)
Update(i) ==
  /\ content[i] # EmptyFile
  /\ \E g \in Successors(content[i]) : content' = [content EXCEPT ![i] = g]
  /\ UNCHANGED path

(* A request begins a game of its own and makes one move of it. *)
Begin(i) ==
  /\ content'[i].id \notin {0} \union Stored
  /\ content'[i] \in Successors(FreshGame(content'[i].id))
  /\ content' = [content EXCEPT ![i] = content'[i]]
  /\ UNCHANGED path

Unlink ==
  /\ path' = NoInode
  /\ UNCHANGED content

Next == Unlink \/ \E i \in Inodes : Create(i) \/ Update(i) \/ Begin(i)

Spec == Init /\ [][Next]_<<path, content>>

SerialNext ==
  \/ \E i \in Inodes : Create(i)
  \/ path # NoInode /\ Update(path)
  \/ path # NoInode /\ content[path] = EmptyFile /\ Begin(path)
  \/ path # NoInode /\ content[path].fin # Running /\ Unlink

SerialSpec == Init /\ [][SerialNext]_<<path, content>>
============================================================================
