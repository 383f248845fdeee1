------------------------------- MODULE Session -------------------------------
(***************************************************************************)
(* A player's client, the datagrams between it and the server, and the     *)
(* game on the server.                                                     *)
(*                                                                         *)
(* The client sends one request per command, waits two seconds for one     *)
(* datagram and takes whatever arrives for the answer.  It never sends a   *)
(* request again by itself: after a timeout the command has failed and the *)
(* player enters another one.  The server applies a request in one step,   *)
(* which is what GameStore.tla shows of its handlers; the rules of the game*)
(* are those of GameRules.tla.                                             *)
(***************************************************************************)
EXTENDS GameRules, FiniteSets

CONSTANTS
  Lossy,       \* whether datagrams may be lost
  Late,        \* whether a timeout may find datagrams still on their way
  CanCrash,    \* whether the client may end, in whatever way, and be started again
  AttemptCap,  \* bound: the trial numbers that the client sends
  SlotCap,     \* bound: the entries made in letter_guess and word_guess
  ErrorCap,    \* bound: the errors after which no trial is made
  FlightCap    \* bound: the datagrams under way when a command is entered

ASSUME SessionAssumption ==
  /\ {Lossy, Late, CanCrash} \subseteq BOOLEAN
  /\ {AttemptCap, SlotCap, ErrorCap, FlightCap} \subseteq Nat

VARIABLES
  active,       \* g_game.is_active
  cur_attempt,  \* g_game.cur_attempt
  shown,        \* g_game.word: a letter or '-' for each position
  waiting,      \* the request of the command in progress, or Nothing
  told,         \* what the last command reported: its request and the status
  leaving,      \* whether the client is in command_exit
  requests,     \* datagrams on their way to the server
  replies,      \* datagrams on their way to the client
  game,         \* the player's file: a game, or NoFile
  served,       \* history: the last request that was applied, and its result
  mishaps       \* history: what has gone wrong so far

client == <<active, cur_attempt, shown, waiting, told, leaving>>
server == <<game, served>>
vars   == <<client, requests, replies, server, mishaps>>

Mishaps == {"loss", "late", "crash", "left"}

Hidden  == "-"
Blank   == [p \in Positions |-> Hidden]
ASSUME HiddenAssumption == Hidden \notin Letters  \* words are made of letters only

NoFile  == [finished |-> "none"]
Nothing == [op |-> "none", arg |-> << >>, out |-> 0]
NoRequest == [op |-> "SNG", arg |-> << >>, out |-> 0, tok |-> "OK", trials |-> 0]
Silence == [req |-> Nothing, tok |-> "none"]

Init ==
  /\ active = FALSE
  /\ cur_attempt = 0
  /\ shown = Blank
  /\ waiting = Nothing
  /\ told = Silence
  /\ leaving = FALSE
  /\ requests = {}
  /\ replies = {}
  /\ game = NoFile
  /\ served = NoRequest
  /\ mishaps = {}

----------------------------------------------------------------------------
(* The player enters a command *)

Idle    == waiting = Nothing /\ ~ leaving
Awaits  == waiting # Nothing /\ ~ leaving

Send(op, arg, out) ==
  LET req == [op |-> op, arg |-> arg, out |-> out] IN
    /\ Idle
    /\ Cardinality(requests) + Cardinality(replies) <= FlightCap
    /\ waiting' = req
    /\ requests' = requests \union {req}
    /\ cur_attempt' = IF op \in {"PLG", "PWG"} THEN out ELSE cur_attempt
    /\ UNCHANGED <<active, shown, told, leaving, replies, server, mishaps>>

command_start == ~ active /\ Send("SNG", << >>, 0)

CanTry == active /\ cur_attempt < AttemptCap /\ game.errors < ErrorCap

command_play ==
  /\ CanTry
  /\ Len(game.letters) < SlotCap
  /\ \E ch \in Letters : Send("PLG", <<ch>>, cur_attempt + 1)

command_guess ==
  /\ CanTry
  /\ Len(game.words) < SlotCap
  /\ \E w \in Guesses : Send("PWG", w, cur_attempt + 1)

command_quit == active /\ Send("QUT", << >>, 0)

(* RETURN_IF_NOT_ACTIVE_GAME: nothing is sent.                              *)
QuitRefused == [req |-> [Nothing EXCEPT !.op = "QUT"], tok |-> "refused"]
refuse_quit ==
  /\ Idle /\ ~ active
  /\ told' = QuitRefused
  /\ UNCHANGED <<active, cur_attempt, shown, waiting, leaving, requests, replies, server, mishaps>>

----------------------------------------------------------------------------
(* The server applies a request; a client that has a game has made a file. *)

Serve(req, r) ==
  /\ requests' = requests \ {req}
  /\ replies' = replies \union
       {[op |-> req.op, tok |-> r.tok, trials |-> r.game.trials,
         pos |-> IF req.op = "PLG" /\ r.tok = "OK" THEN Occurrences(req.arg[1]) ELSE {}]}
  /\ game' = r.game
  /\ served' = [op |-> req.op, arg |-> req.arg, out |-> req.out,
                tok |-> r.tok, trials |-> r.game.trials]
  /\ UNCHANGED <<client, mishaps>>

ServeStart ==
  \E req \in requests :
    /\ req.op = "SNG"
    /\ Serve(req, IF game = NoFile THEN [tok |-> "OK", game |-> NewGame] ELSE StartOver(game))

(* A fault of ServeTrial: a game that is over is played on. *)
ServeTrial_AnyStatus ==
  \E req \in requests :
    /\ req.op \in {"PLG", "PWG"}
    /\ Serve(req, IF req.op = "PLG" THEN PlayLetter(game, req.arg[1], req.out)
                                    ELSE GuessWord(game, req.arg, req.out))

ServeTrial ==
  \E req \in requests :
    /\ req.op \in {"PLG", "PWG"}
    /\ \/ game.finished # Running /\ Serve(req, [tok |-> "ERR", game |-> game])
       \/ /\ game.finished = Running
          /\ Serve(req, IF req.op = "PLG" THEN PlayLetter(game, req.arg[1], req.out)
                                          ELSE GuessWord(game, req.arg, req.out))

ServeQuit == \E req \in requests : req.op = "QUT" /\ Serve(req, QuitGame(game))

----------------------------------------------------------------------------
(* The command gets its answer, or none *)

Report(tok) == told' = [req |-> waiting, tok |-> tok] /\ waiting' = Nothing

(* udp_sender_recv: any datagram; the caller handles it. *)
Take(rep) == Awaits /\ replies' = replies \ {rep} /\ UNCHANGED <<leaving, requests, server, mishaps>>

(* command_start after recvfrom; OK calls game_init. *)
finish_start(rep) ==
  /\ rep.op = "SNG"
  /\ Report(rep.tok)
  /\ active' = (rep.tok = "OK")
  /\ cur_attempt' = IF rep.tok = "OK" THEN 0 ELSE cur_attempt
  /\ shown' = IF rep.tok = "OK" THEN Blank ELSE shown

(* A fault of finalize_play_opts: INV leaves the number ahead. *)
finalize_play_opts_Ahead(rep) ==
  /\ rep.op = "PLG"
  /\ Report(rep.tok)
  /\ active' = (rep.tok \notin {"WIN", "OVR"})
  /\ cur_attempt' = IF rep.tok \in {"ERR", "INV"} THEN cur_attempt ELSE rep.trials
  /\ shown' = [p \in Positions |->
       IF p \in rep.pos \/ (rep.tok = "WIN" /\ shown[p] = Hidden) THEN waiting.arg[1] ELSE shown[p]]

(* finalize_play_opts.  The letter shown is that of the command, the        *)
(* positions are those of the reply; its trial number is taken over, never  *)
(* compared.                                                                *)
finalize_play_opts(rep) ==
  /\ rep.op = "PLG"
  /\ Report(rep.tok)
  /\ active' = (rep.tok \notin {"WIN", "OVR"})
  /\ cur_attempt' = IF rep.tok = "ERR" THEN cur_attempt ELSE rep.trials
  /\ shown' = [p \in Positions |->
       IF p \in rep.pos \/ (rep.tok = "WIN" /\ shown[p] = Hidden) THEN waiting.arg[1] ELSE shown[p]]

(* A fault of finalize_guess_opts: the server's number is never taken over. *)
finalize_guess_opts_OwnCount(rep) ==
  /\ rep.op = "PWG"
  /\ Report(rep.tok)
  /\ active' = (rep.tok \notin {"WIN", "OVR"})
  /\ UNCHANGED <<cur_attempt, shown>>

(* finalize_guess_opts: unlike a letter, a word answered with INV leaves    *)
(* cur_attempt ahead.                                                       *)
finalize_guess_opts(rep) ==
  /\ rep.op = "PWG"
  /\ Report(rep.tok)
  /\ active' = (rep.tok \notin {"WIN", "OVR"})
  /\ cur_attempt' = IF rep.tok \in {"ERR", "INV"} THEN cur_attempt ELSE rep.trials
  /\ UNCHANGED shown

(* command_quit_impl after recvfrom. *)
finish_quit(rep) ==
  /\ rep.op = "QUT"
  /\ Report(rep.tok)
  /\ active' = (active /\ rep.tok # "OK")
  /\ UNCHANGED <<cur_attempt, shown>>

Receive ==
  \E rep \in replies :
    /\ Take(rep)
    /\ rep.op = waiting.op
    /\ finish_start(rep) \/ finalize_play_opts(rep) \/ finalize_guess_opts(rep) \/ finish_quit(rep)

(* E_INVALID_SERVER_REPLY: the datagram answers a command of another kind.  *)
ReceiveOther ==
  \E rep \in replies :
    /\ Take(rep)
    /\ rep.op # waiting.op
    /\ Report("invalid")
    /\ UNCHANGED <<active, cur_attempt, shown>>

(* The two seconds are over, with or without an answer still on its way.    *)
GivesUp ==
  /\ Late \/ (requests = {} /\ replies = {})
  /\ mishaps' = IF requests = {} /\ replies = {} THEN mishaps ELSE mishaps \union {"late"}
  /\ Report("timeout")

(* SO_RCVTIMEO.  recvfrom gives -1, which command_play, command_guess and   *)
(* command_quit_impl compare with 1: they go on with the buffer as it is    *)
(* and fail on what they find there.                                        *)
Timeout ==
  /\ Awaits
  /\ GivesUp
  /\ UNCHANGED <<active, cur_attempt, shown, leaving, requests, replies, server>>

----------------------------------------------------------------------------
(* The network and the client's end *)

Lose ==
  /\ Lossy
  /\ \/ \E req \in requests : requests' = requests \ {req} /\ UNCHANGED replies
     \/ \E rep \in replies : replies' = replies \ {rep} /\ UNCHANGED requests
  /\ mishaps' = mishaps \union {"loss"}
  /\ UNCHANGED <<client, server>>

(* A new client: no game, another port. *)
StartAgain ==
  /\ active' = FALSE
  /\ cur_attempt' = 0
  /\ shown' = Blank
  /\ waiting' = Nothing
  /\ told' = Silence
  /\ leaving' = FALSE
  /\ requests' = {}
  /\ replies' = {}
  /\ UNCHANGED server

(* The client is killed and a new one is started.  (With Late, requests of  *)
(* the old client might still be applied; here they are applied before it   *)
(* dies, or lost.)                                                          *)
Crash == CanCrash /\ StartAgain /\ mishaps' = mishaps \union {"crash"}

(* A fault of command_exit: nothing is sent. *)
command_exit_Silent ==
  /\ CanCrash /\ ~ leaving
  /\ leaving' = TRUE
  /\ UNCHANGED <<active, cur_attempt, shown, waiting, told, requests, replies, server, mishaps>>

(* command_exit, by the command between two others or by SIGINT (sig_exit)  *)
(* also within one.                                                         *)
command_exit ==
  /\ CanCrash /\ ~ leaving
  /\ leaving' = TRUE
  /\ requests' = IF active THEN requests \union {[op |-> "QUT", arg |-> << >>, out |-> 0]} ELSE requests
  /\ UNCHANGED <<active, cur_attempt, shown, waiting, told, replies, server, mishaps>>

(* The process ends, whatever it gets for an answer or without one; a new   *)
(* client is started when the old one's requests are applied or lost.       *)
Exit ==
  /\ leaving /\ requests = {}
  /\ StartAgain
  /\ mishaps' = mishaps \union
       (IF "loss" \in mishaps THEN {"crash"} ELSE IF waiting.op = "SNG" THEN {"left"} ELSE {})

Next ==
  \/ command_start \/ command_play \/ command_guess \/ command_quit \/ refuse_quit
  \/ ServeStart \/ ServeTrial \/ ServeQuit
  \/ Receive \/ ReceiveOther \/ Timeout \/ Lose \/ Crash \/ command_exit \/ Exit

Spec == Init /\ [][Next]_vars

----------------------------------------------------------------------------
(* Properties *)

Statuses == {"none", "OK", "NOK", "INV", "DUP", "WIN", "OVR", "ERR",
             "invalid", "timeout", "refused"}
Request == [op : {"none", "SNG", "PLG", "PWG", "QUT"},
            arg : {<< >>} \union {<<ch>> : ch \in Letters} \union Guesses, out : Nat]

TypeOK ==
  /\ active \in BOOLEAN
  /\ cur_attempt \in Nat
  /\ shown \in [Positions -> Letters \union {Hidden}]
  /\ waiting \in Request
  /\ told \in [req : Request, tok : Statuses]
  /\ leaving \in BOOLEAN
  /\ requests \subseteq Request
  /\ replies \subseteq [op : {"SNG", "PLG", "PWG", "QUT"}, tok : Statuses,
                        trials : Nat, pos : SUBSET Positions]
  /\ game \in {NoFile} \union GameRecord
  /\ served \in [op : {"SNG", "PLG", "PWG", "QUT"}, arg : Seq(Letters), out : Nat,
                 tok : Statuses, trials : Nat]
  /\ mishaps \subseteq Mishaps

HasGame == game # NoFile

(* As long as nothing goes wrong, client and server agree between two       *)
(* commands: on whether there is a game, on the number of trials and on the *)
(* letters that were found, although the client counts and draws on its own;*)
(* and the word that the client draws for a win is the word.                *)
InStep ==
  Idle /\ mishaps = {} =>
    /\ active <=> (HasGame /\ game.finished = Running)
    /\ active => cur_attempt = game.trials
    /\ active => shown = [p \in Positions |-> IF p \in game.word_state THEN Word[p] ELSE Hidden]
    /\ told.req.op = "PLG" /\ told.tok = "WIN" => shown = Word

(* Whatever is lost, and whenever the client is started again, its trial    *)
(* number never falls behind that of the server: its next command is never  *)
(* taken for an old one.  And it does not stay ahead: after an answer to a  *)
(* letter, whatever it says, the two are the same again (which after INV to *)
(* a word they need not be).                                                *)
NeverBehind ==
  Idle /\ active /\ "late" \notin mishaps =>
    /\ cur_attempt >= game.trials
    /\ told.req.op = "PLG" /\ told.tok \in {"OK", "NOK", "DUP", "INV"} => cur_attempt = game.trials

(* A client that lives never loses its game, whatever is lost, and one that *)
(* exits leaves none behind, also when SIGINT comes in the middle of another*)
(* command, as long as nothing is lost: without a game in the client, there *)
(* is none that was played on the server, and start will be accepted.       *)
NoOrphan ==
  Idle /\ ~ active /\ HasGame /\ (mishaps \subseteq {"loss"} \/ mishaps = {"left"}) =>
    game.finished # Running \/ game.trials = 0

(* "The word does not contain a '%c'." (player_src/src/command.c:125).      *)
MissIsTrue == told.req.op = "PLG" /\ told.tok = "NOK" => Occurrences(told.req.arg[1]) = {}

(* The letters that a client shows in a running game are in the word, where *)
(* it shows them, and the server knows that they were found; and a letter   *)
(* that is reported as a miss is one, unless the answer to an earlier one   *)
(* came late.                                                               *)
ToldIsTrue ==
  "late" \notin mishaps =>
    /\ active => \A p \in Positions : shown[p] # Hidden => shown[p] = Word[p] /\ p \in game.word_state
    /\ MissIsTrue

(* A player who enters a command again because its answer was lost does not *)
(* pay a second trial for it.                                               *)
RetryNotCounted ==
  [][(/\ "late" \notin mishaps
      /\ told.tok = "timeout"
      /\ told.req = [op |-> served.op, arg |-> served.arg, out |-> served.out]
      /\ served' # served
      /\ served'.op \in {"PLG", "PWG"} /\ served'.op = served.op /\ served'.arg = served.arg)
     => game'.trials <= game.trials]_vars

(* Whatever arrives late, out of order or from a client that is gone, the   *)
(* server plays by the rules of ServGame.tla, one request at a time.        *)
Rules == INSTANCE ServGame WITH
  game <- IF game = NoFile THEN NewGame ELSE game, last <- served,
  SlotCap <- SlotCap + FlightCap + 1, ErrorCap <- ErrorCap + FlightCap + 1,
  AheadCap <- AttemptCap, Modulus <- SlotCap + ErrorCap + 3 * FlightCap + 3
ServerPlaysByRules == Rules!Spec

(* "You won! The word was: %s" (player_src/src/command.c:136): the word that*)
(* a client announces after a winning letter is the word of the game.       *)
WonWord == told.req.op = "PLG" /\ told.tok = "WIN" => shown = Word
=============================================================================
