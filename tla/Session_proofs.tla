--------------------------- MODULE Session_proofs ---------------------------
(***************************************************************************)
(* The session of a client with its server, for every word, any number of  *)
(* commands and any behaviour of the network that the constants allow.     *)
(*                                                                         *)
(* Base holds whatever happens.  Traffic says what is under way while no   *)
(* answer has come late, and the other parts relate the client's picture   *)
(* of the game to the server's, each as long as only some mishaps happened.*)
(***************************************************************************)
EXTENDS Session, GameRules_proofs

IsTry(req) == req.op \in {"PLG", "PWG"}

(* The requests that the client makes. *)
Valid(req) ==
  \/ req.op \in {"SNG", "QUT"} /\ req.arg = << >> /\ req.out = 0
  \/ req.op = "PLG" /\ req.out \in Nat /\ \E ch \in Letters : req.arg = <<ch>>
  \/ req.op = "PWG" /\ req.out \in Nat /\ req.arg \in Guesses

GameKept == HasGame => GameInv(game)

Requests ==
  /\ \A req \in requests : Valid(req) /\ (req.op # "SNG" => HasGame)
  /\ waiting # Nothing => Valid(waiting)
  /\ told.req.op \in {"PLG", "PWG"} => Valid(told.req)
  /\ \A rep \in replies : rep.tok # "timeout"

(* A client has a game while it waits for anything but a start. *)
Roles ==
  /\ active => HasGame
  /\ waiting.op \in {"PLG", "PWG", "QUT"} => active
  /\ waiting.op = "SNG" => ~ active
  /\ replies # {} => HasGame
  /\ served.op # "SNG" => HasGame

(* The trial number is that of the command in progress, and has passed that*)
(* of a command that had no answer.                                        *)
Numbers ==
  /\ IsTry(waiting) => waiting.out = cur_attempt
  /\ told.tok = "timeout" /\ IsTry(told.req) =>
       told.req.out <= cur_attempt /\ (IsTry(waiting) => told.req.out < waiting.out)

Base == TypeOK /\ GameKept /\ Requests /\ Roles /\ Numbers

----------------------------------------------------------------------------
Prompt == "late" \notin mishaps
Lossless == "loss" \notin mishaps

QuitRequest == [op |-> "QUT", arg |-> << >>, out |-> 0]

(* No answer has come late: under way is the command in progress or its    *)
(* answer, and the request that command_exit sends.                        *)
Traffic ==
  Prompt =>
    /\ requests \subseteq (IF waiting = Nothing THEN {} ELSE {waiting})
                             \union (IF leaving /\ active THEN {QuitRequest} ELSE {})
    /\ ~ leaving =>
         /\ requests = {} \/ replies = {}
         /\ \A rep1, rep2 \in replies : rep1 = rep2
         /\ waiting = Nothing => replies = {}
         /\ waiting # Nothing /\ Lossless => requests # {} \/ replies # {}

(* The answer under way is that to the command in progress.                *)
Answer(rep) ==
  /\ rep.op = waiting.op
  /\ rep.trials = game.trials
  /\ rep.pos \subseteq game.word_state
  /\ rep.op = "SNG" =>
       game.finished = Running
         /\ rep.tok = IF game.trials # 0 THEN "NOK" ELSE "OK"
  /\ rep.op = "PLG" =>
       /\ rep.pos \subseteq Occurrences(waiting.arg[1])
       /\ rep.tok = "NOK" => Occurrences(waiting.arg[1]) = {}
  /\ IsTry(rep) => (rep.tok \in {"WIN", "OVR", "ERR"} <=> game.finished # Running)
  /\ rep.op = "QUT" => rep.tok = "OK" /\ game.finished # Running

Answers == Prompt /\ ~ leaving => \A rep \in replies : Answer(rep)

(* What the reply to the last request says of the game. *)
Table(op) == IF op = "PLG" THEN {<<x>> : x \in Range(game.letters)} ELSE Range(game.words)
ServedLast ==
  IsTry(served) =>
    /\ served.tok \in {"OK", "NOK"} => game.last_was_incremental /\ served.arg \in Table(served.op)
    /\ served.tok \in {"WIN", "OVR", "ERR"} => game.finished # Running
    /\ served.tok \in {"OK", "NOK", "WIN", "OVR", "ERR", "DUP", "INV"}
    /\ served.tok \in {"DUP", "INV"} /\ Prompt => served.out > game.trials

(* The client's number is that of the server or has passed it. *)
Ahead ==
  Prompt /\ active =>
    /\ cur_attempt >= game.trials
    /\ IsTry(waiting) /\ waiting \in requests => cur_attempt > game.trials
    /\ Idle /\ told.req.op = "PLG" /\ told.tok \in {"OK", "NOK", "DUP", "INV"} => cur_attempt = game.trials

(* A client without a game has left none behind that was played. *)
Home ==
  /\ ~ active /\ HasGame /\ (mishaps \subseteq {"loss"} \/ mishaps = {"left"}) =>
       game.finished # Running \/ game.trials = 0
  /\ leaving /\ active /\ Prompt /\ Lossless =>
       QuitRequest \in requests \/ game.finished # Running

PromptInv == Traffic /\ Answers /\ ServedLast /\ Ahead /\ ToldIsTrue /\ Home

----------------------------------------------------------------------------
ShownIs(ws) == shown = [p \in Positions |-> IF p \in ws THEN Word[p] ELSE Hidden]

(* Nothing has gone wrong: the two pictures of the game, before the server *)
(* has applied the command and after it.                                   *)
Before ==
  /\ active <=> HasGame /\ game.finished = Running
  /\ active =>
       /\ cur_attempt = IF IsTry(waiting) THEN game.trials + 1 ELSE game.trials
       /\ ShownIs(game.word_state)

Agrees(rep) ==
  /\ rep.op \in {"SNG", "PLG", "PWG"} => rep.tok # "ERR"
  /\ rep.op = "SNG" => rep.tok = "OK" /\ game.word_state = {}
  /\ rep.op = "PLG" =>
       IF rep.tok = "WIN"
         THEN [p \in Positions |-> IF shown[p] = Hidden THEN waiting.arg[1] ELSE shown[p]] = Word
         ELSE game.word_state = {p \in Positions : shown[p] # Hidden} \union rep.pos
  /\ rep.op = "PWG" => rep.tok # "INV" /\ ShownIs(game.word_state)

Agreement ==
  mishaps = {} =>
    /\ waiting = Nothing \/ waiting \in requests => (~ leaving \/ ~ active => Before)
    /\ ~ leaving => \A rep \in replies : Agrees(rep)
    /\ told.req.op = "PLG" /\ told.tok = "WIN" => shown = Word

Inv == Base /\ PromptInv /\ Agreement

----------------------------------------------------------------------------
(* The requests under way cannot make more entries or errors than the game *)
(* of Rules has room for.                                                  *)
Tries(op) == {req \in requests : req.op = op}
Trials == {req \in requests : IsTry(req)}
Caps ==
  /\ IsFiniteSet(requests) /\ IsFiniteSet(replies)
  /\ \A req \in Trials : req.out <= AttemptCap
  /\ HasGame =>
       /\ game.errors + Cardinality(Trials) <= ErrorCap + FlightCap
       /\ Len(game.letters) + Cardinality(Tries("PLG")) <= SlotCap + FlightCap
       /\ Len(game.words) + Cardinality(Tries("PWG")) <= SlotCap + FlightCap

----------------------------------------------------------------------------
(* Base *)

(* The contents of a file are told from no file. *)
LEMMA GameIsFile ==
  ASSUME NEW g \in GameRecord
  PROVE  g # NoFile
<1>1. "letters" \in DOMAIN g
  BY DEF GameRecord
<1>2. DOMAIN NoFile = {"finished"}
  BY DEF NoFile
<1> QED BY <1>1, <1>2

(* A valid request is one of the type. *)
LEMMA ValidType ==
  ASSUME NEW op, NEW arg, NEW out, Valid([op |-> op, arg |-> arg, out |-> out])
  PROVE  /\ [op |-> op, arg |-> arg, out |-> out] \in Request
         /\ [op |-> op, arg |-> arg, out |-> out] # Nothing
         /\ op \in {"SNG", "PLG", "PWG", "QUT"} /\ arg \in Seq(Letters) /\ out \in Nat
<1>1. << >> \in Seq(Letters) /\ \A ch \in Letters : <<ch>> \in Seq(Letters)
  OBVIOUS
<1>2. Guesses \subseteq Seq(Letters)
  BY GameRulesAssumption
<1>3. op # "none"
  BY DEF Valid
<1>4. op \in {"SNG", "PLG", "PWG", "QUT"} /\ arg \in Seq(Letters) /\ out \in Nat
  <2>1. CASE op \in {"SNG", "QUT"} /\ arg = << >> /\ out = 0
    BY <1>1, <2>1
  <2>2. CASE op = "PLG" /\ out \in Nat /\ \E ch \in Letters : arg = <<ch>>
    BY <1>1, <2>2
  <2>3. CASE op = "PWG" /\ out \in Nat /\ arg \in Guesses
    BY <1>2, <2>3
  <2> QED BY <2>1, <2>2, <2>3 DEF Valid
<1>5. arg \in {<< >>} \union {<<ch>> : ch \in Letters} \union Guesses
  BY DEF Valid
<1>6. [op |-> op, arg |-> arg, out |-> out] # Nothing
  BY <1>3 DEF Nothing
<1> QED BY <1>4, <1>5, <1>6 DEF Request

(* The fields of a valid request. *)
LEMMA ValidRequest ==
  ASSUME NEW req \in Request, Valid(req)
  PROVE  req.op \in {"SNG", "PLG", "PWG", "QUT"} /\ req.arg \in Seq(Letters) /\ req.out \in Nat
<1>1. << >> \in Seq(Letters) /\ \A ch \in Letters : <<ch>> \in Seq(Letters)
  OBVIOUS
<1>2. Guesses \subseteq Seq(Letters)
  BY GameRulesAssumption
<1>3. CASE req.op \in {"SNG", "QUT"} /\ req.arg = << >> /\ req.out = 0
  BY <1>1, <1>3
<1>4. CASE req.op = "PLG" /\ req.out \in Nat /\ \E ch \in Letters : req.arg = <<ch>>
  BY <1>1, <1>4
<1>5. CASE req.op = "PWG" /\ req.out \in Nat /\ req.arg \in Guesses
  BY <1>2, <1>5
<1> QED BY <1>3, <1>4, <1>5 DEF Valid

(* The start of a session. *)
LEMMA InitBase == Init => Base
<1> SUFFICES ASSUME Init PROVE Base
  OBVIOUS
<1>1. << >> \in Seq(Letters)
  OBVIOUS
<1>2. TypeOK
  BY <1>1 DEF Init, TypeOK, Blank, Nothing, Silence, NoRequest, Request, Statuses, Mishaps
<1>3. GameKept
  BY DEF Init, GameKept, HasGame
<1>4. Requests
  BY DEF Init, Requests, Silence, Nothing
<1>5. Roles /\ Numbers
  BY DEF Init, Roles, Numbers, IsTry, Nothing, Silence, NoRequest
<1> QED BY <1>2, <1>3, <1>4, <1>5 DEF Base

(* A command is sent. *)
LEMMA SendBase ==
  ASSUME Base, NEW op, NEW arg, NEW out, Send(op, arg, out),
         Valid([op |-> op, arg |-> arg, out |-> out]),
         op = "SNG" <=> ~ active,
         op \in {"PLG", "PWG"} => out = cur_attempt + 1
  PROVE  Base'
<1> DEFINE req == [op |-> op, arg |-> arg, out |-> out]
<1>1. /\ waiting' = req /\ requests' = requests \union {req}
      /\ cur_attempt' = IF op \in {"PLG", "PWG"} THEN out ELSE cur_attempt
      /\ UNCHANGED <<active, shown, told, leaving, replies, server, mishaps>>
      /\ waiting = Nothing
  BY DEF Send, Idle
<1>2. /\ req \in Request /\ req # Nothing /\ req.op = op /\ req.out = out
      /\ op \in {"SNG", "PLG", "PWG", "QUT"} /\ out \in Nat
  BY ValidType
<1>3. Valid(req)
  OBVIOUS
<1> HIDE DEF req
<1>4. TypeOK'
  BY <1>1, <1>2 DEF Base, TypeOK, server
<1>5. GameKept'
  BY <1>1 DEF Base, GameKept, HasGame, server
<1>6. Requests'
  BY <1>1, <1>2, <1>3 DEF Base, Requests, Roles, HasGame, Valid, server
<1>7. Roles'
  BY <1>1, <1>2 DEF Base, Roles, HasGame, server
<1>8. Numbers'
  <2>1. cur_attempt \in Nat /\ told.req.out \in Nat
    BY DEF Base, TypeOK, Request
  <2>2. IsTry(waiting') => waiting'.out = cur_attempt'
    BY <1>1, <1>2 DEF IsTry
  <2>3. told'.tok = "timeout" /\ IsTry(told'.req) =>
          told'.req.out <= cur_attempt' /\ (IsTry(waiting') => told'.req.out < waiting'.out)
    BY <1>1, <1>2, <2>1 DEF Base, Numbers, IsTry
  <2> QED BY <2>2, <2>3 DEF Numbers, IsTry
<1> QED BY <1>4, <1>5, <1>6, <1>7, <1>8 DEF Base

(* A request is applied. *)
LEMMA ServeBase ==
  ASSUME Base, NEW req \in requests, NEW r, Serve(req, r), GameInv(r.game), r.tok \in Statuses, r.tok # "timeout"
  PROVE  Base'
<1>1. /\ req \in Request /\ Valid(req)
      /\ req.op \in {"SNG", "PLG", "PWG", "QUT"} /\ req.arg \in Seq(Letters) /\ req.out \in Nat
  BY ValidRequest DEF Base, TypeOK, Requests
<1>2. r.game \in GameRecord /\ r.game.trials \in Nat
  BY DEF GameInv, GameRecord
<1>3. r.game # NoFile
  BY <1>2, GameIsFile
<1> DEFINE pos == IF req.op = "PLG" /\ r.tok = "OK" THEN Occurrences(req.arg[1]) ELSE {}
           rep == [op |-> req.op, tok |-> r.tok, trials |-> r.game.trials, pos |-> pos]
           log == [op |-> req.op, arg |-> req.arg, out |-> req.out, tok |-> r.tok, trials |-> r.game.trials]
<1>4. /\ requests' = requests \ {req} /\ replies' = replies \union {rep}
      /\ game' = r.game /\ served' = log
      /\ UNCHANGED <<active, cur_attempt, shown, waiting, told, leaving, mishaps>>
  BY DEF Serve, client
<1>5. pos \in SUBSET Positions
  BY DEF Occurrences
<1> HIDE DEF pos
<1>6. rep \in [op : {"SNG", "PLG", "PWG", "QUT"}, tok : Statuses, trials : Nat, pos : SUBSET Positions]
  BY <1>1, <1>2, <1>5
<1>7. log \in [op : {"SNG", "PLG", "PWG", "QUT"}, arg : Seq(Letters), out : Nat, tok : Statuses, trials : Nat]
  BY <1>1, <1>2
<1>8. rep.tok # "timeout"
  OBVIOUS
<1> HIDE DEF rep, log
<1>9. TypeOK'
  BY <1>2, <1>4, <1>6, <1>7 DEF Base, TypeOK
<1>10. GameKept'
  BY <1>4 DEF GameKept, HasGame
<1>11. Requests'
  BY <1>3, <1>4, <1>8 DEF Base, Requests, HasGame
<1>12. Roles'
  BY <1>3, <1>4 DEF Base, Roles, HasGame
<1>13. Numbers'
  BY <1>4 DEF Base, Numbers
<1> QED BY <1>9, <1>10, <1>11, <1>12, <1>13 DEF Base

(* A command that is over. *)
LEMMA ReportBase ==
  ASSUME Base, waiting # Nothing, NEW tok \in Statuses, Report(tok),
         tok = "timeout" => UNCHANGED cur_attempt,
         active' \in BOOLEAN, active' => HasGame, cur_attempt' \in Nat,
         shown' \in [Positions -> Letters \union {Hidden}],
         requests' \subseteq requests, replies' \subseteq replies,
         mishaps' \subseteq Mishaps, UNCHANGED <<leaving, server>>
  PROVE  Base'
<1>1. /\ told' = [req |-> waiting, tok |-> tok] /\ waiting' = Nothing
      /\ UNCHANGED <<leaving, game, served>>
  BY DEF Report, server
<1>2. Nothing \in Request /\ Nothing.op = "none"
  BY DEF Nothing, Request
<1>3. waiting \in Request /\ Valid(waiting)
  BY DEF Base, TypeOK, Requests
<1>4. TypeOK'
  BY <1>1, <1>2, <1>3 DEF Base, TypeOK
<1>5. GameKept'
  BY <1>1 DEF Base, GameKept, HasGame
<1>6. Requests'
  BY <1>1, <1>3 DEF Base, Requests, HasGame
<1>7. Roles'
  BY <1>1, <1>2 DEF Base, Roles, HasGame
<1>8. Numbers'
  <2>1. tok = "timeout" /\ IsTry(waiting) => waiting.out = cur_attempt' /\ cur_attempt' \in Nat
    BY DEF Base, Numbers
  <2>2. ~ IsTry(waiting')
    BY <1>1, <1>2 DEF IsTry
  <2>3. told'.tok = tok /\ told'.req = waiting
    BY <1>1
  <2>4. told'.tok = "timeout" /\ IsTry(told'.req) => told'.req.out <= cur_attempt'
    BY <2>1, <2>3
  <2> QED BY <2>2, <2>4 DEF Numbers, IsTry
<1> QED BY <1>4, <1>5, <1>6, <1>7, <1>8 DEF Base

(* Any datagram that the client takes. *)
LEMMA ReceiveBase == Base /\ Receive => Base'
<1> SUFFICES ASSUME Base, Receive PROVE Base'
  OBVIOUS
<1>1. PICK rep \in replies :
        /\ Take(rep)
        /\ rep.op = waiting.op
        /\ finish_start(rep) \/ finalize_play_opts(rep) \/ finalize_guess_opts(rep) \/ finish_quit(rep)
  BY DEF Receive
<1>2. /\ waiting # Nothing /\ replies' \subseteq replies /\ requests' \subseteq requests
      /\ mishaps' \subseteq Mishaps /\ UNCHANGED <<leaving, server>>
  BY <1>1 DEF Take, Awaits, Base, TypeOK
<1>3. /\ rep.tok \in Statuses /\ rep.tok # "timeout" /\ rep.trials \in Nat /\ HasGame
      /\ cur_attempt \in Nat /\ active \in BOOLEAN /\ shown \in [Positions -> Letters \union {Hidden}]
  BY <1>1 DEF Base, TypeOK, Requests, Roles
<1>4. CASE finish_start(rep)
  <2>1. Blank \in [Positions -> Letters \union {Hidden}]
    BY DEF Blank
  <2>2. /\ Report(rep.tok) /\ active' \in BOOLEAN /\ cur_attempt' \in Nat
        /\ shown' \in [Positions -> Letters \union {Hidden}]
    BY <1>3, <1>4, <2>1 DEF finish_start
  <2> QED BY <1>2, <1>3, <2>2, ReportBase
<1>5. CASE finalize_play_opts(rep)
  <2>1. waiting.op = "PLG"
    BY <1>1, <1>5 DEF finalize_play_opts
  <2>2. Valid(waiting)
    BY <1>2 DEF Base, Requests
  <2>3. waiting.arg[1] \in Letters
    BY <2>1, <2>2 DEF Valid
  <2>4. /\ Report(rep.tok) /\ active' \in BOOLEAN /\ cur_attempt' \in Nat
        /\ shown' \in [Positions -> Letters \union {Hidden}]
    BY <1>3, <1>5, <2>3 DEF finalize_play_opts
  <2> QED BY <1>2, <1>3, <2>4, ReportBase
<1>6. CASE finalize_guess_opts(rep)
  <2>1. /\ Report(rep.tok) /\ active' \in BOOLEAN /\ cur_attempt' \in Nat
        /\ shown' \in [Positions -> Letters \union {Hidden}]
    BY <1>3, <1>6 DEF finalize_guess_opts
  <2> QED BY <1>2, <1>3, <2>1, ReportBase
<1>7. CASE finish_quit(rep)
  <2>1. /\ Report(rep.tok) /\ active' \in BOOLEAN /\ cur_attempt' \in Nat
        /\ shown' \in [Positions -> Letters \union {Hidden}]
    BY <1>3, <1>7 DEF finish_quit
  <2> QED BY <1>2, <1>3, <2>1, ReportBase
<1> QED BY <1>1, <1>4, <1>5, <1>6, <1>7

(* A client that is started again knows nothing. *)
LEMMA AgainBase ==
  ASSUME Base, StartAgain, mishaps' \subseteq Mishaps
  PROVE  Base'
<1>1. /\ active' = FALSE /\ cur_attempt' = 0 /\ shown' = Blank /\ waiting' = Nothing
      /\ told' = Silence /\ leaving' = FALSE /\ requests' = {} /\ replies' = {}
      /\ game' = game /\ served' = served
  BY DEF StartAgain, server
<1>2. TypeOK'
  BY <1>1 DEF Base, TypeOK, Blank, Nothing, Silence, Request, Statuses
<1>3. GameKept'
  BY <1>1 DEF Base, GameKept, HasGame
<1>4. Requests'
  BY <1>1 DEF Requests, Silence, Nothing
<1>5. Roles' /\ Numbers'
  BY <1>1 DEF Base, Roles, HasGame, Numbers, IsTry, Nothing, Silence
<1> QED BY <1>2, <1>3, <1>4, <1>5 DEF Base

(* The requests that ServeStart, ServeTrial and ServeQuit apply. *)
StartResult == IF game = NoFile THEN [tok |-> "OK", game |-> NewGame] ELSE StartOver(game)

(* start_impl leaves a game that runs. *)
LEMMA StartServed ==
  ASSUME Base
  PROVE  /\ GameInv(StartResult.game)
         /\ StartResult.tok \in {"OK", "NOK"}
         /\ StartResult.game.finished = Running
         /\ StartResult.tok = IF StartResult.game.trials # 0 THEN "NOK" ELSE "OK"
         /\ HasGame /\ game.finished = Running => StartResult.game = game
         /\ ~ (HasGame /\ game.finished = Running) => StartResult.game = NewGame
<1>1. NewGame.trials = 0 /\ NewGame.finished = Running
  BY DEF NewGame
<1>2. CASE game = NoFile
  BY <1>1, <1>2, NewGameInv DEF StartResult, HasGame
<1>3. CASE game # NoFile
  <2>1. GameInv(game)
    BY <1>3 DEF Base, GameKept, HasGame
  <2>2. StartResult = StartOver(game)
    BY <1>3 DEF StartResult
  <2>3. CASE game.finished = Running
    <3>1. StartResult = [tok |-> IF game.trials # 0 THEN "NOK" ELSE "OK", game |-> game]
      BY <2>2, <2>3 DEF StartOver
    <3>2. /\ StartResult.game = game
          /\ StartResult.tok = IF game.trials # 0 THEN "NOK" ELSE "OK"
          /\ StartResult.tok \in {"OK", "NOK"}
      BY <3>1
    <3> QED BY <1>3, <2>1, <2>3, <3>2 DEF HasGame
  <2>4. CASE game.finished # Running
    <3>1. StartResult = [tok |-> "OK", game |-> NewGame]
      BY <2>2, <2>4 DEF StartOver
    <3> QED BY <1>1, <2>4, <3>1, NewGameInv
  <2> QED BY <2>3, <2>4
<1> QED BY <1>2, <1>3

(* quit_impl on a game that is there. *)
LEMMA QuitServed ==
  ASSUME NEW g, GameInv(g)
  PROVE  /\ GameInv(QuitGame(g).game) /\ QuitGame(g).tok = "OK"
         /\ QuitGame(g).game.finished # Running /\ QuitGame(g).game.finished # Won
         /\ QuitGame(g).game.word_state = g.word_state
         /\ QuitGame(g).game.trials = g.trials /\ QuitGame(g).game.errors = g.errors
         /\ QuitGame(g).game.letters = g.letters /\ QuitGame(g).game.words = g.words
<1>1. g \in GameRecord
  BY DEF GameInv
<1>2. QuitGame(g).tok = "OK" /\ QuitGame(g).game = [g EXCEPT !.finished = QuitByPlayer]
  BY DEF QuitGame
<1>3. QuitByPlayer # Running /\ QuitByPlayer # Won
  BY DEF Running, Won, QuitByPlayer
<1> QED BY <1>1, <1>2, <1>3, QuitKeeps DEF GameRecord

(* A try on a game that runs, by its reply.                                *)
TryResult(req) ==
  IF req.op = "PLG" THEN PlayLetter(game, req.arg[1], req.out) ELSE GuessWord(game, req.arg, req.out)

(* What play_impl and guess_impl make of a request under way. *)
LEMMA TryServed ==
  ASSUME Base, NEW req \in requests, IsTry(req), game.finished = Running, NEW r, r = TryResult(req)
  PROVE  /\ GameInv(game) /\ GameInv(r.game)
         /\ r.tok \in {"OK", "NOK", "WIN", "OVR", "DUP", "INV"}
         /\ req.op = "PWG" => r.tok # "OK"
         /\ r.tok \in {"WIN", "OVR"} <=> r.game.finished # Running
         /\ r.tok \in {"DUP", "INV"} => r.game.trials = game.trials
         /\ r.tok = "INV" => req.out # game.trials + 1
         /\ r.game.trials <= game.trials \/ (r.game.trials = game.trials + 1 /\ req.out = game.trials + 1)
         /\ game.last_was_incremental /\ req.arg \in Table(req.op) => r.game.trials <= game.trials
         /\ r.tok \in {"OK", "NOK"} =>
              /\ r.game.last_was_incremental
              /\ req.op = "PLG" => req.arg[1] \in Range(r.game.letters) /\ req.arg = <<req.arg[1]>>
              /\ req.op = "PWG" => req.arg \in Range(r.game.words)
         /\ r.game.errors <= game.errors + 1
         /\ req.op = "PLG" => Len(r.game.letters) <= Len(game.letters) + 1 /\ r.game.words = game.words
         /\ req.op = "PWG" => Len(r.game.words) <= Len(game.words) + 1 /\ r.game.letters = game.letters
         /\ req.op = "PLG" /\ r.tok \in {"OK", "WIN"} =>
              r.game.word_state = game.word_state \union Occurrences(req.arg[1])
         /\ req.op = "PWG" \/ r.tok \notin {"OK", "WIN"} => r.game.word_state = game.word_state
         /\ req.op = "PLG" /\ r.tok = "NOK" => Occurrences(req.arg[1]) = {}
         /\ req.op = "PLG" /\ r.tok = "WIN" => r.game.word_state = Positions
<1>1. Valid(req) /\ GameInv(game)
  BY DEF Base, Requests, GameKept, IsTry
<1>2. CASE req.op = "PLG"
  <2>1. PICK ch \in Letters : req.arg = <<ch>>
    BY <1>1, <1>2 DEF Valid
  <2>2. req.out \in Nat /\ req.arg[1] = ch /\ r = PlayLetter(game, ch, req.out)
    BY <1>1, <1>2, <2>1 DEF Valid, TryResult
  <2>3. req.arg \in Table(req.op) => ch \in Range(game.letters)
    <3>1. ASSUME req.arg \in Table(req.op) PROVE ch \in Range(game.letters)
      <4>1. PICK x \in Range(game.letters) : req.arg = <<x>>
        BY <1>2, <3>1 DEF Table
      <4> QED BY <2>1, <4>1
    <3> QED BY <3>1
  <2>4. /\ Served(game, game.letters, ch, req.out, r)
        /\ r.tok \in {"OK", "NOK", "WIN", "OVR", "DUP", "INV"}
        /\ r.tok \in {"OK", "NOK"} => ch \in Range(r.game.letters)
        /\ Len(r.game.letters) <= Len(game.letters) + 1 /\ r.game.words = game.words
        /\ r.tok \in {"OK", "WIN"} => r.game.word_state = game.word_state \union Occurrences(ch)
        /\ r.tok \notin {"OK", "WIN"} => r.game.word_state = game.word_state
        /\ r.tok = "NOK" => Occurrences(ch) = {}
        /\ r.tok = "WIN" => r.game.word_state = Positions
    BY <1>1, <2>2, PlayServed
  <2> QED BY <1>1, <1>2, <2>1, <2>2, <2>3, <2>4 DEF Served
<1>3. CASE req.op = "PWG"
  <2>1. req.arg \in Guesses /\ req.out \in Nat /\ r = GuessWord(game, req.arg, req.out)
    BY <1>1, <1>3 DEF Valid, TryResult
  <2>2. Table(req.op) = Range(game.words)
    BY <1>3 DEF Table
  <2>3. /\ Served(game, game.words, req.arg, req.out, r)
        /\ r.tok \in {"NOK", "WIN", "OVR", "DUP", "INV"}
        /\ r.tok = "NOK" => req.arg \in Range(r.game.words)
        /\ Len(r.game.words) <= Len(game.words) + 1 /\ r.game.letters = game.letters
        /\ r.game.word_state = game.word_state
    BY <1>1, <2>1, GuessServed
  <2> QED BY <1>1, <1>3, <2>2, <2>3 DEF Served
<1> QED BY <1>2, <1>3 DEF IsTry

(* Every step keeps Base. *)
LEMMA NextBase == Base /\ [Next]_vars => Base'
<1> SUFFICES ASSUME Base, [Next]_vars PROVE Base'
  OBVIOUS
<1>1. /\ cur_attempt \in Nat /\ active \in BOOLEAN /\ mishaps \subseteq Mishaps
      /\ shown \in [Positions -> Letters \union {Hidden}]
      /\ waiting # Nothing => Valid(waiting)
      /\ active => HasGame
  BY DEF Base, TypeOK, Requests, Roles
<1>2. CASE command_start
  <2>1. Valid([op |-> "SNG", arg |-> << >>, out |-> 0])
    BY DEF Valid
  <2>2. Send("SNG", << >>, 0) /\ ~ active
    BY <1>2 DEF command_start
  <2> QED BY <2>1, <2>2, SendBase
<1>3. CASE command_play
  <2>1. PICK ch \in Letters : Send("PLG", <<ch>>, cur_attempt + 1) /\ active
    BY <1>3 DEF command_play, CanTry
  <2>2. Valid([op |-> "PLG", arg |-> <<ch>>, out |-> cur_attempt + 1])
    BY <1>1 DEF Valid
  <2> QED BY <2>1, <2>2, SendBase
<1>4. CASE command_guess
  <2>1. PICK w \in Guesses : Send("PWG", w, cur_attempt + 1) /\ active
    BY <1>4 DEF command_guess, CanTry
  <2>2. Valid([op |-> "PWG", arg |-> w, out |-> cur_attempt + 1])
    BY <1>1 DEF Valid
  <2> QED BY <2>1, <2>2, SendBase
<1>5. CASE command_quit
  <2>1. Valid([op |-> "QUT", arg |-> << >>, out |-> 0])
    BY DEF Valid
  <2> QED BY <1>1, <1>5, <2>1, SendBase DEF command_quit
<1>6. CASE refuse_quit
  <2>1. /\ told' = QuitRefused
        /\ UNCHANGED <<active, cur_attempt, shown, waiting, leaving, requests, replies, game, served, mishaps>>
    BY <1>6 DEF refuse_quit, server
  <2>2. /\ QuitRefused.req.op = "QUT" /\ QuitRefused.tok = "refused"
        /\ QuitRefused \in [req : Request, tok : Statuses]
    BY DEF QuitRefused, Nothing, Request, Statuses
  <2>3. TypeOK'
    BY <2>1, <2>2 DEF Base, TypeOK
  <2>4. GameKept' /\ Roles'
    BY <2>1 DEF Base, GameKept, Roles, HasGame
  <2>5. Requests' /\ Numbers'
    BY <2>1, <2>2 DEF Base, Requests, Numbers, HasGame, IsTry
  <2> QED BY <2>3, <2>4, <2>5 DEF Base
<1>7. CASE ServeStart
  <2>1. PICK req \in requests : Serve(req, StartResult)
    BY <1>7 DEF ServeStart, StartResult
  <2>2. StartResult.tok \in Statuses /\ StartResult.tok # "timeout"
    BY StartServed DEF Statuses
  <2> QED BY <2>1, <2>2, StartServed, ServeBase
<1>8. CASE ServeTrial
  <2>1. PICK req \in requests :
          /\ IsTry(req)
          /\ \/ game.finished # Running /\ Serve(req, [tok |-> "ERR", game |-> game])
             \/ game.finished = Running /\ Serve(req, TryResult(req))
    BY <1>8 DEF ServeTrial, IsTry, TryResult
  <2>2. CASE game.finished # Running /\ Serve(req, [tok |-> "ERR", game |-> game])
    <3>1. GameInv(game)
      BY <2>1 DEF Base, Requests, GameKept, IsTry
    <3>2. "ERR" \in Statuses /\ "ERR" # "timeout"
      BY DEF Statuses
    <3> DEFINE r == [tok |-> "ERR", game |-> game]
    <3>3. GameInv(r.game) /\ r.tok \in Statuses /\ r.tok # "timeout" /\ Serve(req, r)
      BY <2>2, <3>1, <3>2
    <3> HIDE DEF r
    <3> QED BY <3>3, ServeBase
  <2>3. CASE game.finished = Running /\ Serve(req, TryResult(req))
    <3>1. GameInv(TryResult(req).game) /\ TryResult(req).tok \in {"OK", "NOK", "WIN", "OVR", "DUP", "INV"}
      BY <2>1, <2>3, TryServed
    <3>2. TryResult(req).tok \in Statuses /\ TryResult(req).tok # "timeout"
      BY <3>1 DEF Statuses
    <3> QED BY <2>3, <3>1, <3>2, ServeBase
  <2> QED BY <2>1, <2>2, <2>3
<1>9. CASE ServeQuit
  <2>1. PICK req \in requests : req.op = "QUT" /\ Serve(req, QuitGame(game))
    BY <1>9 DEF ServeQuit
  <2>2. GameInv(game)
    BY <2>1 DEF Base, Requests, GameKept
  <2>3. GameInv(QuitGame(game).game) /\ QuitGame(game).tok \in Statuses /\ QuitGame(game).tok # "timeout"
    BY <2>2, QuitServed DEF Statuses
  <2> QED BY <2>1, <2>3, ServeBase
<1>10. CASE Receive
  BY <1>10, ReceiveBase
<1>11. CASE ReceiveOther
  <2>1. PICK rep \in replies : Take(rep) /\ Report("invalid") /\ UNCHANGED <<active, cur_attempt, shown>>
    BY <1>11 DEF ReceiveOther
  <2>2. /\ waiting # Nothing /\ replies' \subseteq replies /\ requests' \subseteq requests
        /\ mishaps' \subseteq Mishaps /\ UNCHANGED <<leaving, server>>
    BY <1>1, <2>1 DEF Take, Awaits
  <2>3. "invalid" \in Statuses
    BY DEF Statuses
  <2> QED BY <1>1, <2>1, <2>2, <2>3, ReportBase
<1>12. CASE Timeout
  <2>1. /\ waiting # Nothing /\ Report("timeout") /\ mishaps' \subseteq Mishaps
        /\ UNCHANGED <<active, cur_attempt, shown, leaving, requests, replies, server>>
    BY <1>1, <1>12 DEF Timeout, Awaits, GivesUp, Mishaps
  <2>2. "timeout" \in Statuses
    BY DEF Statuses
  <2> QED BY <1>1, <2>1, <2>2, ReportBase
<1>13. CASE Lose
  <2>1. /\ requests' \subseteq requests /\ replies' \subseteq replies /\ mishaps' \subseteq Mishaps
        /\ UNCHANGED <<active, cur_attempt, shown, waiting, told, leaving, game, served>>
    BY <1>1, <1>13 DEF Lose, client, server, Mishaps
  <2>2. TypeOK'
    BY <2>1 DEF Base, TypeOK
  <2>3. GameKept' /\ Requests' /\ Roles' /\ Numbers'
    BY <2>1 DEF Base, GameKept, Requests, Roles, Numbers, HasGame
  <2> QED BY <2>2, <2>3 DEF Base
<1>14. CASE Crash
  BY <1>1, <1>14, AgainBase DEF Crash, Mishaps
<1>15. CASE command_exit
  <2>1. /\ leaving' = TRUE /\ requests' = IF active THEN requests \union {QuitRequest} ELSE requests
        /\ UNCHANGED <<active, cur_attempt, shown, waiting, told, replies, game, served, mishaps>>
    BY <1>15 DEF command_exit, server, QuitRequest
  <2>2. Valid(QuitRequest) /\ QuitRequest \in Request
    BY DEF Valid, QuitRequest, Request
  <2>3. TypeOK'
    BY <2>1, <2>2 DEF Base, TypeOK
  <2>4. GameKept' /\ Roles' /\ Numbers'
    BY <2>1 DEF Base, GameKept, Roles, Numbers, HasGame
  <2>5. Requests'
    BY <1>1, <2>1, <2>2 DEF Base, Requests, HasGame
  <2> QED BY <2>3, <2>4, <2>5 DEF Base
<1>16. CASE Exit
  <2>1. StartAgain /\ mishaps' \subseteq Mishaps
    BY <1>1, <1>16 DEF Exit, Mishaps
  <2> QED BY <2>1, AgainBase
<1>17. CASE UNCHANGED vars
  <2>1. UNCHANGED <<active, cur_attempt, shown, waiting, told, leaving, requests, replies, game, served, mishaps>>
    BY <1>17 DEF vars, client, server
  <2>2. TypeOK'
    BY <2>1 DEF Base, TypeOK
  <2> QED BY <2>1, <2>2 DEF Base, GameKept, Requests, Roles, Numbers, HasGame
<1> QED BY <1>2, <1>3, <1>4, <1>5, <1>6, <1>7, <1>8, <1>9, <1>10, <1>11, <1>12, <1>13,
           <1>14, <1>15, <1>16, <1>17 DEF Next

----------------------------------------------------------------------------
(* While no answer has come late *)

(* What is under way while no answer has come late. *)
LEMMA UnderWay ==
  ASSUME Base, Traffic, Prompt, NEW req \in requests
  PROVE  /\ req = waiting \/ (leaving /\ active /\ req = QuitRequest)
         /\ IsTry(req) => req = waiting /\ active
         /\ req.op = "SNG" => req = waiting /\ ~ active
         /\ req.op = "QUT" => active
         /\ waiting = Nothing => leaving
<1>1. req = waiting \/ (leaving /\ active /\ req = QuitRequest)
  BY DEF Traffic
<1>2. QuitRequest.op = "QUT"
  BY DEF QuitRequest
<1>3. Valid(req)
  BY DEF Base, Requests
<1>4. waiting = Nothing => req # waiting
  BY <1>3 DEF Nothing, Valid
<1> QED BY <1>1, <1>2, <1>4 DEF Base, Roles, IsTry

(* The start of a session. *)
LEMMA InitPrompt == Init => PromptInv /\ Agreement
<1> SUFFICES ASSUME Init PROVE PromptInv /\ Agreement
  OBVIOUS
<1>1. Traffic /\ Answers
  BY DEF Init, Traffic, Answers, Nothing
<1>2. ServedLast
  BY DEF Init, ServedLast, NoRequest, IsTry
<1>3. Ahead /\ ToldIsTrue /\ Home
  BY DEF Init, Ahead, ToldIsTrue, MissIsTrue, Home, HasGame, Silence, Nothing
<1>4. Agreement
  BY DEF Init, Agreement, Before, HasGame, Silence, Nothing
<1> QED BY <1>1, <1>2, <1>3, <1>4 DEF PromptInv

(* A command is sent: nothing else is under way. *)
LEMMA SendPrompt ==
  ASSUME Inv, NEW op, NEW arg, NEW out, Send(op, arg, out),
         Valid([op |-> op, arg |-> arg, out |-> out]),
         op \in {"PLG", "PWG"} => out = cur_attempt + 1 /\ active
  PROVE  PromptInv' /\ Agreement'
<1> DEFINE req == [op |-> op, arg |-> arg, out |-> out]
<1>1. /\ waiting' = req /\ requests' = requests \union {req}
      /\ cur_attempt' = IF op \in {"PLG", "PWG"} THEN out ELSE cur_attempt
      /\ UNCHANGED <<active, shown, told, leaving, replies, game, served, mishaps>>
      /\ waiting = Nothing /\ ~ leaving
  BY DEF Send, Idle, server
<1>2. req # Nothing /\ req.op = op /\ req.out = out
  BY ValidType
<1>3. /\ Prompt <=> Prompt'
      /\ Prompt => requests = {} /\ replies = {}
  BY <1>1 DEF Inv, PromptInv, Traffic, Prompt
<1> HIDE DEF req
<1>4. Traffic'
  BY <1>1, <1>2, <1>3 DEF Traffic
<1>5. Answers'
  BY <1>1, <1>3 DEF Answers
<1>6. ServedLast'
  BY <1>1 DEF Inv, PromptInv, ServedLast, Table, Prompt, IsTry
<1>7. Ahead'
  <2>1. cur_attempt \in Nat /\ (active => game.trials \in Nat)
    BY DEF Inv, Base, TypeOK, GameKept, Roles, GameInv, GameRecord
  <2>2. Prompt /\ active => cur_attempt >= game.trials
    BY DEF Inv, PromptInv, Ahead
  <2>3. waiting' # Nothing
    BY <1>1, <1>2
  <2>4. Prompt' /\ active' => cur_attempt' >= game'.trials /\ (IsTry(waiting') => cur_attempt' > game'.trials)
    BY <1>1, <1>2, <1>3, <2>1, <2>2 DEF IsTry
  <2> QED BY <2>3, <2>4 DEF Ahead, Idle, IsTry
<1>8. ToldIsTrue'
  BY <1>1 DEF Inv, PromptInv, ToldIsTrue, MissIsTrue
<1>9. Home'
  BY <1>1 DEF Inv, PromptInv, Home, HasGame, Prompt, Lossless
<1>10. Agreement'
  <2>1. mishaps = {} => Before
    BY <1>1 DEF Inv, Agreement
  <2>2. ASSUME mishaps = {} PROVE Before'
    <3>1. IF IsTry(waiting') THEN cur_attempt' = cur_attempt + 1 /\ active ELSE cur_attempt' = cur_attempt
      BY <1>1, <1>2 DEF IsTry
    <3>2. ~ IsTry(waiting)
      BY <1>1 DEF IsTry, Nothing
    <3> QED BY <1>1, <2>1, <2>2, <3>1, <3>2 DEF Before, HasGame, ShownIs, IsTry
  <2>3. mishaps = {} => replies' = {}
    BY <1>1, <1>3 DEF Prompt
  <2> QED BY <1>1, <2>2, <2>3 DEF Inv, Agreement
<1> QED BY <1>4, <1>5, <1>6, <1>7, <1>8, <1>9, <1>10 DEF PromptInv

(* What Serve does to the datagrams. *)
LEMMA ServeTraffic ==
  ASSUME Inv, NEW req \in requests, NEW r, Serve(req, r)
  PROVE  /\ Prompt' <=> Prompt
         /\ Traffic'
         /\ game' = r.game
         /\ served' = [op |-> req.op, arg |-> req.arg, out |-> req.out, tok |-> r.tok, trials |-> r.game.trials]
         /\ requests' = requests \ {req}
         /\ UNCHANGED <<active, cur_attempt, shown, waiting, told, leaving, mishaps>>
         /\ Prompt /\ ~ leaving =>
              /\ req = waiting
              /\ \A rep \in replies' :
                   /\ rep.op = req.op /\ rep.tok = r.tok /\ rep.trials = r.game.trials
                   /\ rep.pos = IF req.op = "PLG" /\ r.tok = "OK" THEN Occurrences(req.arg[1]) ELSE {}
<1> DEFINE pos == IF req.op = "PLG" /\ r.tok = "OK" THEN Occurrences(req.arg[1]) ELSE {}
           rep0 == [op |-> req.op, tok |-> r.tok, trials |-> r.game.trials, pos |-> pos]
<1>1. /\ requests' = requests \ {req} /\ replies' = replies \union {rep0}
      /\ game' = r.game
      /\ served' = [op |-> req.op, arg |-> req.arg, out |-> req.out, tok |-> r.tok, trials |-> r.game.trials]
      /\ UNCHANGED <<active, cur_attempt, shown, waiting, told, leaving, mishaps>>
  BY DEF Serve, client
<1>2. Prompt' <=> Prompt
  BY <1>1 DEF Prompt
<1>3. Prompt => req = waiting \/ (leaving /\ active /\ req = QuitRequest)
  BY UnderWay DEF Inv, PromptInv
<1>4. Prompt => (waiting = Nothing => leaving)
  BY UnderWay DEF Inv, PromptInv
<1>5. rep0.op = req.op /\ rep0.tok = r.tok /\ rep0.trials = r.game.trials /\ rep0.pos = pos
  OBVIOUS
<1> HIDE DEF rep0
<1>6. Prompt /\ ~ leaving => /\ req = waiting /\ requests = {req} /\ replies = {}
                             /\ replies' = {rep0} /\ requests' = {}
  BY <1>1, <1>3, <1>4 DEF Inv, PromptInv, Traffic
<1>7. Traffic'
  <2>1. SUFFICES ASSUME Prompt
                 PROVE  /\ requests' \subseteq (IF waiting' = Nothing THEN {} ELSE {waiting'})
                             \union (IF leaving' /\ active' THEN {QuitRequest} ELSE {})
                        /\ ~ leaving' =>
                             /\ requests' = {} \/ replies' = {}
                             /\ \A rep1, rep2 \in replies' : rep1 = rep2
                             /\ waiting' = Nothing => replies' = {}
                             /\ waiting' # Nothing /\ Lossless' => requests' # {} \/ replies' # {}
    BY <1>2 DEF Traffic
  <2>2. requests \subseteq (IF waiting = Nothing THEN {} ELSE {waiting})
                             \union (IF leaving /\ active THEN {QuitRequest} ELSE {})
    BY <2>1 DEF Inv, PromptInv, Traffic
  <2>3. requests' \subseteq (IF waiting' = Nothing THEN {} ELSE {waiting'})
                             \union (IF leaving' /\ active' THEN {QuitRequest} ELSE {})
    BY <1>1, <2>2
  <2> QED BY <1>1, <1>4, <1>6, <2>1, <2>3
<1> QED BY <1>1, <1>2, <1>5, <1>6, <1>7

(* start_impl. *)
LEMMA StartPrompt ==
  ASSUME Inv, NEW req \in requests, req.op = "SNG", Serve(req, StartResult)
  PROVE  PromptInv' /\ Agreement'
<1> DEFINE r == StartResult
<1>1. /\ Prompt' <=> Prompt
      /\ Traffic'
      /\ game' = r.game
      /\ served'.op = "SNG"
      /\ requests' = requests \ {req}
      /\ UNCHANGED <<active, cur_attempt, shown, waiting, told, leaving, mishaps>>
      /\ Prompt /\ ~ leaving =>
              /\ req = waiting
              /\ \A rep \in replies' :
                   /\ rep.op = req.op /\ rep.tok = r.tok /\ rep.trials = r.game.trials
                   /\ rep.pos = IF req.op = "PLG" /\ r.tok = "OK" THEN Occurrences(req.arg[1]) ELSE {}
  BY ServeTraffic
<1>2. Prompt => ~ active /\ req = waiting
  BY UnderWay DEF Inv, PromptInv
<1>3. /\ r.game \in GameRecord
      /\ r.game.finished = Running
      /\ r.tok = IF r.game.trials # 0 THEN "NOK" ELSE "OK"
      /\ r.tok \in {"OK", "NOK"}
      /\ HasGame /\ game.finished = Running => r.game = game
      /\ ~ (HasGame /\ game.finished = Running) => r.game = NewGame
  BY StartServed DEF Inv, GameInv
<1> HIDE DEF r
<1>4. Answers'
  <2> SUFFICES ASSUME Prompt, ~ leaving, NEW rep \in replies'
               PROVE  Answer(rep)'
    BY <1>1 DEF Answers
  <2>1. /\ rep.op = "SNG" /\ rep.tok = r.tok /\ rep.trials = r.game.trials /\ rep.pos = {}
        /\ req = waiting
    BY <1>1
  <2> QED BY <1>1, <1>3, <2>1 DEF Answer, IsTry
<1>5. ServedLast'
  BY <1>1 DEF ServedLast, IsTry
<1>6. Ahead'
  BY <1>1, <1>2 DEF Ahead
<1>7. ToldIsTrue'
  BY <1>1, <1>2 DEF Inv, PromptInv, ToldIsTrue, MissIsTrue, Prompt
<1>8. Home'
  <2>1. mishaps \subseteq {"loss"} \/ mishaps = {"left"} => Prompt
    BY DEF Prompt
  <2>2. NewGame.trials = 0
    BY DEF NewGame
  <2>3. ~ active /\ (mishaps \subseteq {"loss"} \/ mishaps = {"left"}) => r.game.trials = 0
    BY <1>3, <2>2 DEF Inv, PromptInv, Home
  <2> QED BY <1>1, <1>2, <2>3 DEF Home
<1>9. Agreement'
  <2> SUFFICES ASSUME mishaps = {}
               PROVE  /\ waiting' = Nothing \/ waiting' \in requests' => (~ leaving' \/ ~ active' => Before')
                      /\ ~ leaving' => \A rep \in replies' : Agrees(rep)'
                      /\ told'.req.op = "PLG" /\ told'.tok = "WIN" => shown' = Word
    BY <1>1 DEF Agreement
  <2>1. Prompt
    BY DEF Prompt
  <2>2. waiting # Nothing
    BY <1>2, <2>1 DEF Nothing
  <2>3. Before
    BY <1>2, <2>1 DEF Inv, Agreement
  <2>4. r.game = NewGame
    BY <1>2, <1>3, <2>1, <2>3 DEF Before
  <2>5. r.tok = "OK" /\ r.game.word_state = {}
    BY <1>3, <2>4 DEF NewGame
  <2>6. ~ leaving' => \A rep \in replies' : Agrees(rep)'
    BY <1>1, <2>1, <2>5 DEF Agrees
  <2> QED BY <1>1, <1>2, <2>1, <2>2, <2>6 DEF Inv, Agreement
<1> QED BY <1>1, <1>4, <1>5, <1>6, <1>7, <1>8, <1>9 DEF PromptInv

(* quit_impl. *)
LEMMA QuitPrompt ==
  ASSUME Inv, NEW req \in requests, req.op = "QUT", Serve(req, QuitGame(game))
  PROVE  PromptInv' /\ Agreement'
<1> DEFINE r == QuitGame(game)
<1>1. /\ Prompt' <=> Prompt
      /\ Traffic'
      /\ game' = r.game
      /\ served'.op = "QUT"
      /\ requests' = requests \ {req}
      /\ UNCHANGED <<active, cur_attempt, shown, waiting, told, leaving, mishaps>>
      /\ Prompt /\ ~ leaving =>
              /\ req = waiting
              /\ \A rep \in replies' :
                   /\ rep.op = req.op /\ rep.tok = r.tok /\ rep.trials = r.game.trials
                   /\ rep.pos = IF req.op = "PLG" /\ r.tok = "OK" THEN Occurrences(req.arg[1]) ELSE {}
  BY ServeTraffic
<1>2. Prompt => active
  BY UnderWay DEF Inv, PromptInv
<1>3. GameInv(game) /\ game \in GameRecord /\ game.word_state \in SUBSET Positions
  BY DEF Inv, Base, Requests, GameKept, GameInv, GameRecord
<1>4. /\ r.tok = "OK" /\ r.game.finished # Running
      /\ r.game.word_state = game.word_state /\ r.game.trials = game.trials
  BY <1>3, QuitServed
<1> HIDE DEF r
<1>5. Answers'
  <2> SUFFICES ASSUME Prompt, ~ leaving, NEW rep \in replies'
               PROVE  Answer(rep)'
    BY <1>1 DEF Answers
  <2>1. /\ rep.op = "QUT" /\ rep.tok = "OK" /\ rep.trials = r.game.trials /\ rep.pos = {}
        /\ req = waiting
    BY <1>1, <1>4
  <2> QED BY <1>1, <1>4, <2>1 DEF Answer, IsTry
<1>6. ServedLast'
  BY <1>1 DEF ServedLast, IsTry
<1>7. Ahead'
  BY <1>1, <1>4 DEF Inv, PromptInv, Ahead, Idle, IsTry
<1>8. ToldIsTrue'
  BY <1>1, <1>4 DEF Inv, PromptInv, ToldIsTrue, MissIsTrue, Prompt
<1>9. Home'
  <2>1. mishaps \subseteq {"loss"} \/ mishaps = {"left"} => Prompt
    BY DEF Prompt
  <2> QED BY <1>1, <1>2, <1>4, <2>1 DEF Home
<1>10. Agreement'
  <2> SUFFICES ASSUME mishaps = {}
               PROVE  /\ waiting' = Nothing \/ waiting' \in requests' => (~ leaving' \/ ~ active' => Before')
                      /\ ~ leaving' => \A rep \in replies' : Agrees(rep)'
                      /\ told'.req.op = "PLG" /\ told'.tok = "WIN" => shown' = Word
    BY <1>1 DEF Agreement
  <2>1. Prompt
    BY DEF Prompt
  <2>2. ~ leaving => waiting # Nothing
    BY <2>1, UnderWay DEF Inv, PromptInv
  <2>3. ~ leaving' => \A rep \in replies' : Agrees(rep)'
    BY <1>1, <2>1 DEF Agrees
  <2> QED BY <1>1, <1>2, <2>1, <2>2, <2>3 DEF Inv, Agreement
<1> QED BY <1>1, <1>5, <1>6, <1>7, <1>8, <1>9, <1>10 DEF PromptInv

(* play_impl and guess_impl. *)
LEMMA TryPrompt ==
  ASSUME Inv, NEW req \in requests, IsTry(req), NEW r, Serve(req, r),
         \/ game.finished # Running /\ r = [tok |-> "ERR", game |-> game]
         \/ game.finished = Running /\ r = TryResult(req)
  PROVE  PromptInv' /\ Agreement'
<1>1. /\ Prompt' <=> Prompt
      /\ Traffic'
      /\ game' = r.game
      /\ served' = [op |-> req.op, arg |-> req.arg, out |-> req.out, tok |-> r.tok, trials |-> r.game.trials]
      /\ requests' = requests \ {req}
      /\ UNCHANGED <<active, cur_attempt, shown, waiting, told, leaving, mishaps>>
      /\ Prompt /\ ~ leaving =>
              /\ req = waiting
              /\ \A rep \in replies' :
                   /\ rep.op = req.op /\ rep.tok = r.tok /\ rep.trials = r.game.trials
                   /\ rep.pos = IF req.op = "PLG" /\ r.tok = "OK" THEN Occurrences(req.arg[1]) ELSE {}
  BY ServeTraffic
<1>2. Prompt => active /\ req = waiting
  BY UnderWay DEF Inv, PromptInv
<1>3. /\ GameInv(game) /\ game \in GameRecord /\ game.word_state \in SUBSET Positions
      /\ game.trials \in Nat /\ cur_attempt \in Nat
  BY DEF Inv, Base, TypeOK, Requests, GameKept, GameInv, GameRecord, IsTry
<1>4. req.op \in {"PLG", "PWG"}
  BY DEF IsTry
<1>5. /\ r.tok \in {"OK", "NOK", "WIN", "OVR", "DUP", "INV", "ERR"}
      /\ r.tok = "ERR" <=> game.finished # Running
      /\ r.tok \in {"WIN", "OVR", "ERR"} <=> r.game.finished # Running
      /\ r.tok \in {"DUP", "INV"} => r.game.trials = game.trials
      /\ r.tok = "INV" => req.out # game.trials + 1
      /\ r.game.trials \in Nat
      /\ r.game.trials <= game.trials \/ (r.game.trials = game.trials + 1 /\ req.out = game.trials + 1)
      /\ r.tok \in {"OK", "NOK"} =>
           /\ r.game.last_was_incremental
           /\ req.op = "PLG" => req.arg[1] \in Range(r.game.letters) /\ req.arg = <<req.arg[1]>>
           /\ req.op = "PWG" => req.arg \in Range(r.game.words)
      /\ req.op = "PLG" /\ r.tok \in {"OK", "WIN"} =>
           r.game.word_state = game.word_state \union Occurrences(req.arg[1])
      /\ req.op = "PWG" \/ r.tok \notin {"OK", "WIN"} => r.game.word_state = game.word_state
      /\ req.op = "PLG" /\ r.tok = "NOK" => Occurrences(req.arg[1]) = {}
      /\ req.op = "PLG" /\ r.tok = "WIN" => r.game.word_state = Positions
  <2>1. CASE game.finished # Running /\ r = [tok |-> "ERR", game |-> game]
    <3>1. r.tok = "ERR" /\ r.game = game
      BY <2>1
    <3> QED BY <1>3, <2>1, <3>1
  <2>2. CASE game.finished = Running /\ r = TryResult(req)
    <3>1. r.game.trials \in Nat
      BY <2>2, TryServed DEF Inv, GameInv, GameRecord
    <3>2. r.tok \in {"OK", "NOK", "WIN", "OVR", "DUP", "INV"}
      BY <2>2, TryServed DEF Inv
    <3> QED BY <2>2, <3>1, <3>2, TryServed DEF Inv
  <2> QED BY <2>1, <2>2
<1>6. Prompt => req.out = cur_attempt /\ cur_attempt > game.trials
  BY <1>2 DEF Inv, Base, Numbers, PromptInv, Ahead
<1>7. Answers'
  <2> SUFFICES ASSUME Prompt, ~ leaving, NEW rep \in replies'
               PROVE  Answer(rep)'
    BY <1>1 DEF Answers
  <2>1. /\ rep.op = req.op /\ rep.tok = r.tok /\ rep.trials = r.game.trials
        /\ rep.pos = IF req.op = "PLG" /\ r.tok = "OK" THEN Occurrences(req.arg[1]) ELSE {}
        /\ req = waiting
    BY <1>1
  <2>2. rep.pos \subseteq r.game.word_state
    BY <1>5, <2>1
  <2>3. /\ rep.op # "SNG" /\ rep.op # "QUT"
        /\ rep.op = waiting'.op /\ rep.trials = game'.trials /\ rep.pos \subseteq game'.word_state
    BY <1>1, <1>4, <2>1, <2>2
  <2>4. rep.op = "PLG" => /\ rep.pos \subseteq Occurrences(waiting'.arg[1])
                          /\ rep.tok = "NOK" => Occurrences(waiting'.arg[1]) = {}
    BY <1>1, <1>5, <2>1
  <2>5. rep.tok \in {"WIN", "OVR", "ERR"} <=> game'.finished # Running
    BY <1>1, <1>5, <2>1
  <2> QED BY <2>3, <2>4, <2>5 DEF Answer
<1>8. ServedLast'
  <2>1. /\ served'.op = req.op /\ served'.arg = req.arg /\ served'.out = req.out /\ served'.tok = r.tok
    BY <1>1
  <2>2. r.tok \in {"OK", "NOK"} => req.arg \in Table(req.op)'
    <3>1. req.op = "PLG" => Table(req.op)' = {<<x>> : x \in Range(game'.letters)}
      BY DEF Table
    <3>2. req.op = "PWG" => Table(req.op)' = Range(game'.words)
      BY DEF Table
    <3>3. game' = r.game
      BY <1>1
    <3>4. ASSUME r.tok \in {"OK", "NOK"}, req.op = "PLG"
          PROVE  req.arg \in Table(req.op)'
      <4>1. req.arg[1] \in Range(game'.letters) /\ req.arg = <<req.arg[1]>>
        BY <1>5, <3>3, <3>4
      <4>2. PICK x \in Range(game'.letters) : req.arg = <<x>>
        BY ONLY <4>1
      <4> QED BY <3>1, <3>4, <4>2
    <3>5. r.tok \in {"OK", "NOK"} /\ req.op = "PWG" => req.arg \in Table(req.op)'
      BY <1>5, <3>2, <3>3
    <3> QED BY <1>4, <3>4, <3>5
  <2>3. r.tok \in {"DUP", "INV"} /\ Prompt' => req.out > game'.trials
    BY <1>1, <1>5, <1>6
  <2>4. Table(served.op)' = Table(req.op)'
    BY <2>1 DEF Table
  <2> QED BY <1>1, <1>5, <2>1, <2>2, <2>3, <2>4 DEF ServedLast, Table
<1>9. Ahead'
  <2> SUFFICES ASSUME Prompt
               PROVE  /\ cur_attempt' >= game'.trials
                      /\ waiting' \notin requests'
                      /\ ~ Idle'
    BY <1>1 DEF Ahead
  <2>1. waiting # Nothing
    BY <1>2 DEF Nothing, IsTry
  <2> QED BY <1>1, <1>2, <1>3, <1>5, <1>6, <2>1 DEF Idle
<1>10. ToldIsTrue'
  <2>1. game.word_state \subseteq r.game.word_state
    BY <1>4, <1>5
  <2> QED BY <1>1, <2>1 DEF Inv, PromptInv, ToldIsTrue, MissIsTrue
<1>11. Home'
  <2>1. mishaps \subseteq {"loss"} \/ mishaps = {"left"} => Prompt
    BY DEF Prompt
  <2>2. req # QuitRequest
    BY DEF QuitRequest, IsTry
  <2>3. leaving /\ active /\ Prompt /\ Lossless => QuitRequest \in requests \/ r.game.finished # Running
    BY <1>5 DEF Inv, PromptInv, Home
  <2> QED BY <1>1, <1>2, <2>1, <2>2, <2>3 DEF Home, Lossless
<1>12. Agreement'
  <2> SUFFICES ASSUME mishaps = {}
               PROVE  /\ waiting' = Nothing \/ waiting' \in requests' => (~ leaving' \/ ~ active' => Before')
                      /\ ~ leaving' => \A rep \in replies' : Agrees(rep)'
                      /\ told'.req.op = "PLG" /\ told'.tok = "WIN" => shown' = Word
    BY <1>1 DEF Agreement
  <2>1. Prompt
    BY DEF Prompt
  <2>2. waiting # Nothing
    BY <1>2, <2>1 DEF Nothing, IsTry
  <2>3. ASSUME ~ leaving, NEW rep \in replies'
        PROVE  Agrees(rep)'
    <3>1. Before
      BY <1>2, <2>1, <2>3 DEF Inv, Agreement
    <3>2. /\ game.finished = Running /\ cur_attempt = game.trials + 1 /\ ShownIs(game.word_state)
          /\ r.tok # "ERR" /\ r.tok # "INV"
      BY <1>2, <1>5, <1>6, <2>1, <3>1 DEF Before
    <3>3. /\ rep.op = req.op /\ rep.tok = r.tok /\ req = waiting
          /\ rep.pos = IF req.op = "PLG" /\ r.tok = "OK" THEN Occurrences(req.arg[1]) ELSE {}
      BY <1>1, <2>1, <2>3
    <3>4. Word \in [Positions -> Letters] /\ Hidden \notin Letters
      BY GameRulesAssumption, HiddenAssumption, LenProperties DEF Positions
    <3>5. /\ \A p \in game.word_state : shown[p] = Word[p] /\ shown[p] # Hidden
          /\ \A p \in Positions \ game.word_state : shown[p] = Hidden
      BY <1>3, <3>2, <3>4 DEF ShownIs
    <3>6. ASSUME req.op = "PLG", r.tok = "WIN"
          PROVE  [p \in Positions |-> IF shown[p] = Hidden THEN req.arg[1] ELSE shown[p]] = Word
      <4>1. \A p \in Positions \ game.word_state : Word[p] = req.arg[1]
        BY <1>5, <3>6 DEF Occurrences
      <4>2. \A p \in Positions : (IF shown[p] = Hidden THEN req.arg[1] ELSE shown[p]) = Word[p]
        BY <3>5, <4>1
      <4> QED BY <3>4, <4>2
    <3>7. ASSUME req.op = "PLG", r.tok # "WIN"
          PROVE  r.game.word_state = {p \in Positions : shown[p] # Hidden} \union rep.pos
      <4>1. game.word_state = {p \in Positions : shown[p] # Hidden}
        BY <1>3, <3>5
      <4> QED BY <1>5, <3>3, <3>7, <4>1
    <3>8. req.op = "PWG" => ShownIs(r.game.word_state)
      BY <1>5, <3>2 DEF ShownIs
    <3> QED BY <1>1, <1>4, <3>2, <3>3, <3>6, <3>7, <3>8 DEF Agrees, ShownIs
  <2> QED BY <1>1, <1>2, <2>1, <2>2, <2>3 DEF Inv, Agreement
<1> QED BY <1>1, <1>7, <1>8, <1>9, <1>10, <1>11, <1>12 DEF PromptInv

(* The client takes the answer to its command: whatever the kind of the    *)
(* answer, nothing is under way any more and the server has done nothing.  *)
LEMMA TakePrompt ==
  ASSUME Inv, NEW rep \in replies, Take(rep), Report(rep.tok), rep.op = waiting.op
  PROVE  /\ waiting # Nothing /\ waiting' = Nothing /\ ~ leaving /\ ~ leaving'
         /\ told'.req = waiting /\ told'.tok = rep.tok
         /\ UNCHANGED <<game, served, mishaps>>
         /\ Prompt' <=> Prompt
         /\ Prompt => Answer(rep) /\ replies' = {}
         /\ HasGame /\ game \in GameRecord /\ game.word_state \in SUBSET Positions /\ game.trials \in Nat
         /\ Traffic' /\ Answers' /\ ServedLast'
<1>1. /\ waiting # Nothing /\ waiting' = Nothing /\ leaving = FALSE /\ leaving' = FALSE
      /\ told' = [req |-> waiting, tok |-> rep.tok]
      /\ replies' = replies \ {rep}
      /\ UNCHANGED <<requests, game, served, mishaps>>
  BY DEF Take, Awaits, Report, server, Inv, Base, TypeOK
<1>2. Prompt' <=> Prompt
  BY <1>1 DEF Prompt
<1>3. Prompt => requests = {} /\ replies' = {} /\ Answer(rep)
  BY <1>1 DEF Inv, PromptInv, Traffic, Answers
<1>4. HasGame /\ game \in GameRecord /\ game.word_state \in SUBSET Positions /\ game.trials \in Nat
  BY DEF Inv, Base, Roles, GameKept, GameInv, GameRecord
<1>5. Traffic' /\ Answers'
  BY <1>1, <1>2, <1>3 DEF Traffic, Answers
<1>6. ServedLast'
  BY <1>1 DEF Inv, PromptInv, ServedLast, Table, Prompt, IsTry
<1> QED BY <1>1, <1>2, <1>3, <1>4, <1>5, <1>6

(* command_start. *)
LEMMA FinishStart ==
  ASSUME Inv, NEW rep \in replies, Take(rep), rep.op = waiting.op, finish_start(rep)
  PROVE  PromptInv' /\ Agreement'
<1>1. Report(rep.tok) /\ rep.op = "SNG"
  BY DEF finish_start
<1>2. /\ waiting # Nothing /\ waiting' = Nothing /\ ~ leaving /\ ~ leaving'
      /\ told'.req = waiting /\ told'.tok = rep.tok
      /\ UNCHANGED <<game, served, mishaps>>
      /\ Prompt' <=> Prompt
      /\ Prompt => Answer(rep) /\ replies' = {}
      /\ HasGame /\ game \in GameRecord /\ game.word_state \in SUBSET Positions /\ game.trials \in Nat
      /\ Traffic' /\ Answers' /\ ServedLast'
  BY <1>1, TakePrompt
<1>3. /\ active' <=> rep.tok = "OK"
      /\ rep.tok = "OK" => cur_attempt' = 0 /\ shown' = Blank
      /\ told'.req.op = "SNG"
  BY <1>1, <1>2 DEF finish_start
<1>4. ~ active
  BY <1>1 DEF Inv, Base, Roles
<1>5. Prompt => game.finished = Running /\ (rep.tok = "OK" <=> game.trials = 0)
  BY <1>1, <1>2 DEF Answer
<1>6. Ahead'
  BY <1>2, <1>3, <1>5 DEF Ahead, IsTry, Nothing
<1>7. \A p \in Positions : Blank[p] = Hidden
  BY DEF Blank
<1>8. ToldIsTrue'
  BY <1>2, <1>3, <1>7 DEF ToldIsTrue, MissIsTrue
<1>9. Home'
  <2>1. mishaps \subseteq {"loss"} \/ mishaps = {"left"} => Prompt
    BY DEF Prompt
  <2>2. ~ active' /\ (mishaps \subseteq {"loss"} \/ mishaps = {"left"}) => FALSE
    BY <1>2, <1>3, <1>4, <1>5, <2>1 DEF Inv, PromptInv, Home
  <2> QED BY <1>2, <2>2 DEF Home
<1>10. Agreement'
  <2> SUFFICES ASSUME mishaps = {}
               PROVE  Before' /\ replies' = {}
    BY <1>2, <1>3 DEF Agreement
  <2>1. Prompt
    BY DEF Prompt
  <2>2. rep.tok = "OK" /\ game.word_state = {}
    BY <1>1, <1>2 DEF Inv, Agreement, Agrees
  <2>3. ~ IsTry(waiting')
    BY <1>2 DEF IsTry, Nothing
  <2>4. shown' = [p \in Positions |-> IF p \in game'.word_state THEN Word[p] ELSE Hidden]
    BY <1>2, <1>3, <2>2 DEF Blank
  <2> QED BY <1>2, <1>3, <1>5, <2>1, <2>2, <2>3, <2>4 DEF Before, HasGame, ShownIs
<1> QED BY <1>2, <1>6, <1>8, <1>9, <1>10 DEF PromptInv

(* command_quit_impl. *)
LEMMA FinishQuit ==
  ASSUME Inv, NEW rep \in replies, Take(rep), rep.op = waiting.op, finish_quit(rep)
  PROVE  PromptInv' /\ Agreement'
<1>1. Report(rep.tok) /\ rep.op = "QUT"
  BY DEF finish_quit
<1>2. /\ waiting # Nothing /\ waiting' = Nothing /\ ~ leaving /\ ~ leaving'
      /\ told'.req = waiting /\ told'.tok = rep.tok
      /\ UNCHANGED <<game, served, mishaps>>
      /\ Prompt' <=> Prompt
      /\ Prompt => Answer(rep) /\ replies' = {}
      /\ HasGame /\ game \in GameRecord /\ game.word_state \in SUBSET Positions /\ game.trials \in Nat
      /\ Traffic' /\ Answers' /\ ServedLast'
  BY <1>1, TakePrompt
<1>3. /\ active' <=> rep.tok # "OK"
      /\ UNCHANGED <<cur_attempt, shown>>
      /\ told'.req.op = "QUT"
  BY <1>1, <1>2 DEF finish_quit, Inv, Base, Roles
<1>4. Prompt => ~ active' /\ game.finished # Running
  BY <1>1, <1>2, <1>3 DEF Answer
<1>5. Ahead' /\ ToldIsTrue'
  BY <1>2, <1>3, <1>4 DEF Ahead, ToldIsTrue, MissIsTrue, Prompt
<1>6. Home'
  <2>1. mishaps \subseteq {"loss"} \/ mishaps = {"left"} => Prompt
    BY DEF Prompt
  <2> QED BY <1>2, <1>4, <2>1 DEF Home
<1>7. Agreement'
  <2>1. mishaps = {} => Prompt
    BY DEF Prompt
  <2> QED BY <1>2, <1>3, <1>4, <2>1 DEF Agreement, Before
<1> QED BY <1>2, <1>5, <1>6, <1>7 DEF PromptInv

(* What the answer to a letter or a word says of the game, and what the    *)
(* client makes of its status and its number.                              *)
LEMMA TriedPrompt ==
  ASSUME Inv, NEW rep \in replies, Take(rep), Report(rep.tok), rep.op = waiting.op, IsTry(rep),
         active' = (rep.tok \notin {"WIN", "OVR"}),
         \/ cur_attempt' = rep.trials
         \/ cur_attempt' = cur_attempt /\ (rep.tok = "ERR" \/ (rep.tok = "INV" /\ rep.op = "PWG"))
  PROVE  /\ active
         /\ Ahead' /\ Home'
         /\ Prompt => (rep.tok \in {"WIN", "OVR", "ERR"} <=> game.finished # Running)
         /\ mishaps = {} =>
              /\ Agrees(rep) /\ rep.tok # "ERR" /\ cur_attempt' = game.trials
              /\ active' <=> game.finished = Running
<1>1. /\ waiting # Nothing /\ waiting' = Nothing /\ ~ leaving /\ ~ leaving'
      /\ told'.req = waiting /\ told'.tok = rep.tok
      /\ UNCHANGED <<game, served, mishaps>>
      /\ Prompt' <=> Prompt
      /\ Prompt => Answer(rep) /\ replies' = {}
      /\ HasGame /\ game \in GameRecord /\ game.word_state \in SUBSET Positions /\ game.trials \in Nat
      /\ Traffic' /\ Answers' /\ ServedLast'
  BY TakePrompt
<1>2. active /\ cur_attempt \in Nat
  BY DEF Inv, Base, TypeOK, Roles, IsTry
<1>3. Prompt => /\ rep.trials = game.trials
                /\ rep.tok \in {"WIN", "OVR", "ERR"} <=> game.finished # Running
  BY <1>1 DEF Answer, IsTry
<1>4. Prompt => cur_attempt >= game.trials
  BY <1>2 DEF Inv, PromptInv, Ahead
<1>5. Ahead'
  <2> SUFFICES ASSUME Prompt
               PROVE  /\ cur_attempt' >= game.trials
                      /\ ~ IsTry(waiting')
                      /\ waiting.op = "PLG" /\ rep.tok \in {"OK", "NOK", "DUP", "INV"} => cur_attempt' = game.trials
    BY <1>1 DEF Ahead
  <2>1. ~ IsTry(waiting')
    BY <1>1 DEF IsTry, Nothing
  <2>2. cur_attempt' >= game.trials
    BY <1>1, <1>2, <1>3, <1>4
  <2>3. waiting.op = "PLG" /\ rep.tok \in {"OK", "NOK", "DUP", "INV"} => cur_attempt' = game.trials
    BY <1>3
  <2> QED BY <2>1, <2>2, <2>3
<1>6. Home'
  <2>1. mishaps \subseteq {"loss"} \/ mishaps = {"left"} => Prompt
    BY DEF Prompt
  <2> QED BY <1>1, <1>3, <2>1 DEF Home
<1>7. ASSUME mishaps = {}
      PROVE  /\ Agrees(rep) /\ rep.tok # "ERR" /\ cur_attempt' = game.trials
             /\ active' <=> game.finished = Running
  <2>1. Prompt
    BY <1>7 DEF Prompt
  <2>2. Agrees(rep)
    BY <1>1, <1>7 DEF Inv, Agreement
  <2>3. rep.tok # "ERR" /\ (rep.op = "PWG" => rep.tok # "INV")
    BY <2>2 DEF Agrees, IsTry
  <2>4. active' <=> game.finished = Running
    BY <1>3, <2>1, <2>3
  <2> QED BY <1>3, <2>1, <2>2, <2>3, <2>4
<1> QED BY <1>2, <1>3, <1>5, <1>6, <1>7

(* finalize_guess_opts. *)
LEMMA FinishGuess ==
  ASSUME Inv, NEW rep \in replies, Take(rep), rep.op = waiting.op, finalize_guess_opts(rep)
  PROVE  PromptInv' /\ Agreement'
<1>1. /\ Report(rep.tok) /\ rep.op = "PWG" /\ IsTry(rep)
      /\ active' = (rep.tok \notin {"WIN", "OVR"})
      /\ \/ cur_attempt' = rep.trials
         \/ cur_attempt' = cur_attempt /\ (rep.tok = "ERR" \/ (rep.tok = "INV" /\ rep.op = "PWG"))
      /\ shown' = shown
  BY DEF finalize_guess_opts, IsTry
<1>2. /\ waiting # Nothing /\ waiting' = Nothing /\ ~ leaving /\ ~ leaving'
      /\ told'.req = waiting /\ told'.tok = rep.tok
      /\ UNCHANGED <<game, served, mishaps>>
      /\ Prompt' <=> Prompt
      /\ Prompt => Answer(rep) /\ replies' = {}
      /\ HasGame /\ game \in GameRecord /\ game.word_state \in SUBSET Positions /\ game.trials \in Nat
      /\ Traffic' /\ Answers' /\ ServedLast'
  BY <1>1, TakePrompt
<1>3. /\ active
      /\ Ahead' /\ Home'
      /\ mishaps = {} =>
           /\ Agrees(rep) /\ cur_attempt' = game.trials
           /\ active' <=> game.finished = Running
  BY <1>1, TriedPrompt
<1>4. told'.req.op = "PWG"
  BY <1>1, <1>2
<1>5. ToldIsTrue'
  BY <1>1, <1>2, <1>3, <1>4 DEF Inv, PromptInv, ToldIsTrue, MissIsTrue
<1>6. Agreement'
  <2> SUFFICES ASSUME mishaps = {}
               PROVE  Before' /\ replies' = {}
    BY <1>2, <1>4 DEF Agreement
  <2>1. Prompt
    BY DEF Prompt
  <2>2. ShownIs(game.word_state)
    BY <1>1, <1>3 DEF Agrees
  <2>3. ~ IsTry(waiting')
    BY <1>2 DEF IsTry, Nothing
  <2> QED BY <1>1, <1>2, <1>3, <2>1, <2>2, <2>3 DEF Before, HasGame, ShownIs
<1> QED BY <1>2, <1>3, <1>5, <1>6 DEF PromptInv

(* finalize_play_opts. *)
LEMMA FinishPlay ==
  ASSUME Inv, NEW rep \in replies, Take(rep), rep.op = waiting.op, finalize_play_opts(rep)
  PROVE  PromptInv' /\ Agreement'
<1> DEFINE ch == waiting.arg[1]
<1>1. /\ Report(rep.tok) /\ rep.op = "PLG" /\ IsTry(rep)
      /\ active' = (rep.tok \notin {"WIN", "OVR"})
      /\ \/ cur_attempt' = rep.trials
         \/ cur_attempt' = cur_attempt /\ (rep.tok = "ERR" \/ (rep.tok = "INV" /\ rep.op = "PWG"))
      /\ shown' = [p \in Positions |->
           IF p \in rep.pos \/ (rep.tok = "WIN" /\ shown[p] = Hidden) THEN ch ELSE shown[p]]
  BY DEF finalize_play_opts, IsTry
<1>2. /\ waiting # Nothing /\ waiting' = Nothing /\ ~ leaving /\ ~ leaving'
      /\ told'.req = waiting /\ told'.tok = rep.tok
      /\ UNCHANGED <<game, served, mishaps>>
      /\ Prompt' <=> Prompt
      /\ Prompt => Answer(rep) /\ replies' = {}
      /\ HasGame /\ game \in GameRecord /\ game.word_state \in SUBSET Positions /\ game.trials \in Nat
      /\ Traffic' /\ Answers' /\ ServedLast'
  BY <1>1, TakePrompt
<1>3. /\ active
      /\ Ahead' /\ Home'
      /\ mishaps = {} =>
           /\ Agrees(rep) /\ cur_attempt' = game.trials
           /\ active' <=> game.finished = Running
  BY <1>1, TriedPrompt
<1> HIDE DEF ch
<1>4. told'.req.op = "PLG" /\ told'.req.arg[1] = ch
  BY <1>1, <1>2 DEF ch
<1>5. Prompt => /\ rep.pos \subseteq game.word_state /\ rep.pos \subseteq Occurrences(ch)
                /\ rep.tok = "NOK" => Occurrences(ch) = {}
  BY <1>1, <1>2 DEF Answer, ch
<1>6. Prompt => \A p \in rep.pos : p \in Positions /\ Word[p] = ch
  BY <1>5 DEF Occurrences
<1>7. Prompt => \A p \in Positions : shown[p] # Hidden => shown[p] = Word[p] /\ p \in game.word_state
  BY <1>3 DEF Inv, PromptInv, ToldIsTrue, MissIsTrue, Prompt
<1>8. ToldIsTrue'
  <2> SUFFICES ASSUME Prompt
               PROVE  /\ active' => \A p \in Positions :
                            shown'[p] # Hidden => shown'[p] = Word[p] /\ p \in game.word_state
                      /\ rep.tok = "NOK" => Occurrences(ch) = {}
    BY <1>2, <1>4 DEF ToldIsTrue, MissIsTrue, Prompt
  <2>1. ASSUME active', NEW p \in Positions, shown'[p] # Hidden
        PROVE  shown'[p] = Word[p] /\ p \in game.word_state
    <3>1. shown'[p] = IF p \in rep.pos THEN ch ELSE shown[p]
      BY <1>1, <2>1
    <3>2. CASE p \in rep.pos
      BY <1>5, <1>6, <3>1, <3>2
    <3>3. CASE p \notin rep.pos
      BY <1>7, <2>1, <3>1, <3>3
    <3> QED BY <3>2, <3>3
  <2> QED BY <1>5, <2>1
<1>9. Agreement'
  <2> SUFFICES ASSUME mishaps = {}
               PROVE  Before' /\ replies' = {} /\ (rep.tok = "WIN" => shown' = Word)
    BY <1>2, <1>4 DEF Agreement
  <2>1. Prompt
    BY DEF Prompt
  <2>2. Agrees(rep)
    BY <1>3
  <2>3. ~ IsTry(waiting')
    BY <1>2 DEF IsTry, Nothing
  <2>4. ASSUME rep.tok # "WIN"
        PROVE  shown' = [p \in Positions |-> IF p \in game.word_state THEN Word[p] ELSE Hidden]
    <3>1. game.word_state = {p \in Positions : shown[p] # Hidden} \union rep.pos
      BY <1>1, <2>2, <2>4 DEF Agrees
    <3>2. \A p \in Positions : (IF p \in rep.pos THEN ch ELSE shown[p])
                                 = IF p \in game.word_state THEN Word[p] ELSE Hidden
      BY <1>6, <1>7, <2>1, <3>1
    <3>3. shown' = [p \in Positions |-> IF p \in rep.pos THEN ch ELSE shown[p]]
      BY <1>1, <2>4
    <3> QED BY <3>2, <3>3
  <2>5. ASSUME rep.tok = "WIN"
        PROVE  shown' = Word
    <3>1. [p \in Positions |-> IF shown[p] = Hidden THEN ch ELSE shown[p]] = Word
      BY <1>1, <2>2, <2>5 DEF Agrees, ch
    <3>2. \A p \in Positions : (IF shown[p] = Hidden THEN ch ELSE shown[p]) = Word[p]
      BY <3>1
    <3>3. \A p \in Positions : (IF p \in rep.pos \/ shown[p] = Hidden THEN ch ELSE shown[p])
                                 = IF shown[p] = Hidden THEN ch ELSE shown[p]
      BY <1>6, <2>1, <3>2
    <3>4. shown' = [p \in Positions |-> IF p \in rep.pos \/ shown[p] = Hidden THEN ch ELSE shown[p]]
      BY <1>1, <2>5
    <3> QED BY <3>1, <3>3, <3>4
  <2> QED BY <1>1, <1>2, <1>3, <2>1, <2>3, <2>4, <2>5 DEF Before, HasGame, ShownIs
<1> QED BY <1>2, <1>3, <1>8, <1>9 DEF PromptInv

(* An answer that has come late leaves only what the server knows.         *)
LEMMA LatePrompt ==
  ASSUME Inv, "late" \in mishaps', UNCHANGED <<game, served>>
  PROVE  PromptInv' /\ Agreement'
<1>1. Traffic' /\ Answers' /\ Ahead' /\ ToldIsTrue' /\ Home' /\ Agreement'
  BY DEF Traffic, Answers, Ahead, ToldIsTrue, MissIsTrue, Home, Agreement, Prompt
<1>2. ServedLast'
  BY DEF Inv, PromptInv, ServedLast, Table, Prompt, IsTry
<1> QED BY <1>1, <1>2 DEF PromptInv

(* An answer of another kind is a late one. *)
LEMMA OtherPrompt == Inv /\ ReceiveOther => PromptInv' /\ Agreement'
<1> SUFFICES ASSUME Inv, ReceiveOther PROVE PromptInv' /\ Agreement'
  OBVIOUS
<1>1. PICK rep \in replies : Take(rep) /\ rep.op # waiting.op
  BY DEF ReceiveOther
<1>2. ~ leaving /\ UNCHANGED <<game, served, mishaps>>
  BY <1>1 DEF Take, Awaits, server
<1>3. ~ Prompt
  BY <1>1, <1>2 DEF Inv, PromptInv, Answers, Answer
<1> QED BY <1>2, <1>3, LatePrompt DEF Prompt

(* No answer in two seconds: something was lost, or comes late. *)
LEMMA TimeoutPrompt == Inv /\ Timeout => PromptInv' /\ Agreement'
<1> SUFFICES ASSUME Inv, Timeout PROVE PromptInv' /\ Agreement'
  OBVIOUS
<1>1. /\ waiting # Nothing /\ leaving = FALSE /\ waiting' = Nothing
      /\ told'.tok = "timeout"
      /\ mishaps' = IF requests = {} /\ replies = {} THEN mishaps ELSE mishaps \union {"late"}
      /\ UNCHANGED <<active, cur_attempt, shown, leaving, requests, replies, game, served>>
  BY DEF Timeout, Awaits, GivesUp, Report, server, Inv, Base, TypeOK
<1>2. CASE ~ (requests = {} /\ replies = {})
  BY <1>1, <1>2, LatePrompt
<1>3. CASE requests = {} /\ replies = {}
  <2>1. mishaps' = mishaps
    BY <1>1, <1>3
  <2>2. Prompt => ~ Lossless
    BY <1>1, <1>3 DEF Inv, PromptInv, Traffic
  <2>3. Traffic' /\ Answers'
    BY <1>1, <1>3 DEF Traffic, Answers
  <2>4. ServedLast'
    BY <1>1, <2>1 DEF Inv, PromptInv, ServedLast, Table, Prompt, IsTry
  <2>5. Ahead'
    BY <1>1, <1>3, <2>1 DEF Inv, PromptInv, Ahead, Prompt
  <2>6. ToldIsTrue'
    BY <1>1, <2>1 DEF Inv, PromptInv, ToldIsTrue, MissIsTrue
  <2>7. Home'
    BY <1>1, <2>1 DEF Inv, PromptInv, Home, HasGame, Prompt, Lossless
  <2>8. Agreement'
    BY <2>1, <2>2 DEF Agreement, Prompt, Lossless
  <2> QED BY <2>3, <2>4, <2>5, <2>6, <2>7, <2>8 DEF PromptInv
<1> QED BY <1>2, <1>3

(* A datagram is lost. *)
LEMMA LosePrompt == Inv /\ Lose => PromptInv' /\ Agreement'
<1> SUFFICES ASSUME Inv, Lose PROVE PromptInv' /\ Agreement'
  OBVIOUS
<1>1. /\ requests' \subseteq requests /\ replies' \subseteq replies
      /\ mishaps' = mishaps \union {"loss"}
      /\ UNCHANGED <<active, cur_attempt, shown, waiting, told, leaving, game, served>>
  BY DEF Lose, client, server
<1>2. (Prompt' <=> Prompt) /\ ~ Lossless'
  BY <1>1 DEF Prompt, Lossless
<1>3. Traffic'
  <2> SUFFICES ASSUME Prompt
               PROVE  /\ requests' \subseteq (IF waiting' = Nothing THEN {} ELSE {waiting'})
                                     \union (IF leaving' /\ active' THEN {QuitRequest} ELSE {})
                      /\ ~ leaving' =>
                           /\ requests' = {} \/ replies' = {}
                           /\ \A rep1, rep2 \in replies' : rep1 = rep2
                           /\ waiting' = Nothing => replies' = {}
    BY <1>2 DEF Traffic
  <2>1. requests \subseteq (IF waiting = Nothing THEN {} ELSE {waiting})
                     \union (IF leaving /\ active THEN {QuitRequest} ELSE {})
    BY DEF Inv, PromptInv, Traffic
  <2>2. requests' \subseteq (IF waiting' = Nothing THEN {} ELSE {waiting'})
                      \union (IF leaving' /\ active' THEN {QuitRequest} ELSE {})
    BY <1>1, <2>1
  <2> QED BY <1>1, <2>2 DEF Inv, PromptInv, Traffic
<1>4. Answers'
  BY <1>1, <1>2 DEF Inv, PromptInv, Answers, Answer, IsTry
<1>5. ServedLast'
  BY <1>1, <1>2 DEF Inv, PromptInv, ServedLast, Table, IsTry
<1>6. Ahead'
  BY <1>1, <1>2 DEF Inv, PromptInv, Ahead, Idle, IsTry
<1>7. ToldIsTrue'
  BY <1>1 DEF Inv, PromptInv, ToldIsTrue, MissIsTrue
<1>8. Home'
  <2>1. mishaps' \subseteq {"loss"} \/ mishaps' = {"left"} => mishaps \subseteq {"loss"}
    BY <1>1
  <2> QED BY <1>1, <1>2, <2>1 DEF Inv, PromptInv, Home, HasGame
<1>9. Agreement'
  BY <1>1 DEF Agreement
<1> QED BY <1>3, <1>4, <1>5, <1>6, <1>7, <1>8, <1>9 DEF PromptInv

(* A new client knows nothing, and must have left no game that matters.    *)
LEMMA AgainPrompt ==
  ASSUME Inv, StartAgain, Prompt' <=> Prompt,
         HasGame /\ (mishaps' \subseteq {"loss"} \/ mishaps' = {"left"}) =>
           game.finished # Running \/ game.trials = 0,
         mishaps' = {} => ~ (HasGame /\ game.finished = Running)
  PROVE  PromptInv' /\ Agreement'
<1>1. /\ ~ active' /\ waiting' = Nothing /\ told' = Silence /\ ~ leaving'
      /\ requests' = {} /\ replies' = {} /\ game' = game /\ served' = served
  BY DEF StartAgain, server
<1>2. told'.req.op = "none"
  BY <1>1 DEF Silence, Nothing
<1>3. Traffic' /\ Answers' /\ Ahead'
  BY <1>1 DEF Traffic, Answers, Ahead
<1>4. ServedLast'
  BY <1>1 DEF Inv, PromptInv, ServedLast, Table, IsTry
<1>5. ToldIsTrue' /\ Home'
  BY <1>1, <1>2 DEF ToldIsTrue, MissIsTrue, Home, HasGame
<1>6. Agreement'
  BY <1>1, <1>2 DEF Agreement, Before, HasGame
<1> QED BY <1>3, <1>4, <1>5, <1>6 DEF PromptInv

(* The client is killed. *)
LEMMA CrashPrompt == Inv /\ Crash => PromptInv' /\ Agreement'
<1> SUFFICES ASSUME Inv, Crash PROVE PromptInv' /\ Agreement'
  OBVIOUS
<1>1. StartAgain /\ mishaps' = mishaps \union {"crash"}
  BY DEF Crash
<1>2. /\ Prompt' <=> Prompt
      /\ ~ (mishaps' \subseteq {"loss"} \/ mishaps' = {"left"}) /\ mishaps' # {}
  BY <1>1 DEF Prompt
<1> QED BY <1>1, <1>2, AgainPrompt

(* The client has come to its end, its quit request applied or lost. *)
LEMMA ExitPrompt == Inv /\ Exit => PromptInv' /\ Agreement'
<1> SUFFICES ASSUME Inv, Exit PROVE PromptInv' /\ Agreement'
  OBVIOUS
<1>1. /\ leaving /\ requests = {} /\ StartAgain
      /\ mishaps' = mishaps \union
           (IF "loss" \in mishaps THEN {"crash"} ELSE IF waiting.op = "SNG" THEN {"left"} ELSE {})
  BY DEF Exit
<1>2. Prompt' <=> Prompt
  BY <1>1 DEF Prompt
<1>3. mishaps' \subseteq {"loss"} \/ mishaps' = {"left"} =>
        Lossless /\ Prompt /\ (mishaps \subseteq {"loss"} \/ mishaps = {"left"})
  BY <1>1 DEF Lossless, Prompt
<1>4. active /\ Lossless /\ Prompt => game.finished # Running
  BY <1>1 DEF Inv, PromptInv, Home
<1>5. HasGame /\ (mishaps' \subseteq {"loss"} \/ mishaps' = {"left"}) =>
        game.finished # Running \/ game.trials = 0
  BY <1>3, <1>4 DEF Inv, PromptInv, Home
<1>6. ASSUME mishaps' = {}
      PROVE  ~ (HasGame /\ game.finished = Running)
  <2>1. mishaps = {} /\ waiting.op # "SNG" /\ Lossless /\ Prompt
    BY <1>1, <1>6 DEF Lossless, Prompt
  <2>2. CASE active
    BY <1>4, <2>1, <2>2
  <2>3. CASE ~ active
    <3>1. waiting = Nothing
      BY <2>1, <2>3 DEF Inv, Base, Requests, Roles, Valid
    <3> QED BY <2>1, <2>3, <3>1 DEF Inv, Agreement, Before
  <2> QED BY <2>2, <2>3
<1> QED BY <1>1, <1>2, <1>5, <1>6, AgainPrompt

(* command_exit sends its quit request and waits for nothing. *)
LEMMA LeavePrompt == Inv /\ command_exit => PromptInv' /\ Agreement'
<1> SUFFICES ASSUME Inv, command_exit PROVE PromptInv' /\ Agreement'
  OBVIOUS
<1>1. /\ ~ leaving /\ leaving' = TRUE
      /\ requests' = IF active THEN requests \union {QuitRequest} ELSE requests
      /\ UNCHANGED <<active, cur_attempt, shown, waiting, told, replies, game, served, mishaps>>
  BY DEF command_exit, server, QuitRequest
<1>2. Prompt' <=> Prompt
  BY <1>1 DEF Prompt
<1>3. Traffic'
  BY <1>1, <1>2 DEF Inv, PromptInv, Traffic
<1>4. Answers'
  BY <1>1 DEF Answers
<1>5. ServedLast'
  BY <1>1, <1>2 DEF Inv, PromptInv, ServedLast, Table, IsTry
<1>6. Ahead'
  <2>1. IsTry(waiting) => waiting # QuitRequest
    BY DEF IsTry, QuitRequest
  <2>2. IsTry(waiting) /\ waiting \in requests' => waiting \in requests
    BY <1>1, <2>1
  <2> QED BY <1>1, <1>2, <2>2 DEF Inv, PromptInv, Ahead, Idle, IsTry
<1>7. ToldIsTrue'
  BY <1>1 DEF Inv, PromptInv, ToldIsTrue, MissIsTrue
<1>8. Home'
  BY <1>1 DEF Inv, PromptInv, Home, HasGame
<1>9. Agreement'
  BY <1>1 DEF Inv, Agreement, Before, HasGame, ShownIs, IsTry
<1> QED BY <1>3, <1>4, <1>5, <1>6, <1>7, <1>8, <1>9 DEF PromptInv

(* quit without a game changes what the player was told. *)
LEMMA RefusePrompt == Inv /\ refuse_quit => PromptInv' /\ Agreement'
<1> SUFFICES ASSUME Inv, refuse_quit PROVE PromptInv' /\ Agreement'
  OBVIOUS
<1>1. /\ told'.req.op = "QUT" /\ ~ active
      /\ UNCHANGED <<active, cur_attempt, shown, waiting, leaving, requests, replies, game, served, mishaps>>
  BY DEF refuse_quit, server, QuitRefused, Nothing
<1>2. Traffic' /\ Answers'
  BY <1>1 DEF Inv, PromptInv, Traffic, Answers, Answer, IsTry, Prompt, Lossless
<1>3. ServedLast'
  BY <1>1 DEF Inv, PromptInv, ServedLast, Table, Prompt, IsTry
<1>4. Ahead' /\ ToldIsTrue'
  BY <1>1 DEF Ahead, ToldIsTrue, MissIsTrue
<1>5. Home'
  BY <1>1 DEF Inv, PromptInv, Home, HasGame, Prompt, Lossless
<1>6. Agreement'
  BY <1>1 DEF Inv, Agreement, Before, Agrees, HasGame, ShownIs, IsTry
<1> QED BY <1>2, <1>3, <1>4, <1>5, <1>6 DEF PromptInv

(* Every step keeps what is known of client and server. *)
LEMMA NextPrompt == Inv /\ [Next]_vars => PromptInv' /\ Agreement'
<1> SUFFICES ASSUME Inv, [Next]_vars PROVE PromptInv' /\ Agreement'
  OBVIOUS
<1>1. cur_attempt \in Nat
  BY DEF Inv, Base, TypeOK
<1>2. CASE command_start
  <2>1. Send("SNG", << >>, 0) /\ Valid([op |-> "SNG", arg |-> << >>, out |-> 0])
    BY <1>2 DEF command_start, Valid
  <2> QED BY <2>1, SendPrompt
<1>3. CASE command_play
  <2>1. PICK ch \in Letters : Send("PLG", <<ch>>, cur_attempt + 1) /\ active
    BY <1>3 DEF command_play, CanTry
  <2>2. Valid([op |-> "PLG", arg |-> <<ch>>, out |-> cur_attempt + 1])
    BY <1>1 DEF Valid
  <2> QED BY <2>1, <2>2, SendPrompt
<1>4. CASE command_guess
  <2>1. PICK w \in Guesses : Send("PWG", w, cur_attempt + 1) /\ active
    BY <1>4 DEF command_guess, CanTry
  <2>2. Valid([op |-> "PWG", arg |-> w, out |-> cur_attempt + 1])
    BY <1>1 DEF Valid
  <2> QED BY <2>1, <2>2, SendPrompt
<1>5. CASE command_quit
  <2>1. Send("QUT", << >>, 0) /\ Valid([op |-> "QUT", arg |-> << >>, out |-> 0])
    BY <1>5 DEF command_quit, Valid
  <2> QED BY <2>1, SendPrompt
<1>6. CASE ServeStart
  <2>1. PICK req \in requests : req.op = "SNG" /\ Serve(req, StartResult)
    BY <1>6 DEF ServeStart, StartResult
  <2> QED BY <2>1, StartPrompt
<1>7. CASE ServeTrial
  <2>1. PICK req \in requests :
          /\ IsTry(req)
          /\ \/ game.finished # Running /\ Serve(req, [tok |-> "ERR", game |-> game])
             \/ game.finished = Running /\ Serve(req, TryResult(req))
    BY <1>7 DEF ServeTrial, IsTry, TryResult
  <2>2. PICK r : /\ Serve(req, r)
                 /\ \/ game.finished # Running /\ r = [tok |-> "ERR", game |-> game]
                    \/ game.finished = Running /\ r = TryResult(req)
    BY <2>1
  <2> QED BY <2>1, <2>2, TryPrompt
<1>8. CASE ServeQuit
  <2>1. PICK req \in requests : req.op = "QUT" /\ Serve(req, QuitGame(game))
    BY <1>8 DEF ServeQuit
  <2> QED BY <2>1, QuitPrompt
<1>9. CASE Receive
  <2>1. PICK rep \in replies :
          /\ Take(rep)
          /\ rep.op = waiting.op
          /\ finish_start(rep) \/ finalize_play_opts(rep) \/ finalize_guess_opts(rep) \/ finish_quit(rep)
    BY <1>9 DEF Receive
  <2> QED BY <2>1, FinishStart, FinishPlay, FinishGuess, FinishQuit
<1>10. CASE UNCHANGED vars
  <2>1. UNCHANGED <<active, cur_attempt, shown, waiting, told, leaving, requests, replies, game, served, mishaps>>
    BY <1>10 DEF vars, client, server
  <2>2. Traffic' /\ Answers'
    BY <2>1 DEF Inv, PromptInv, Traffic, Answers, Answer, IsTry, Prompt, Lossless
  <2>3. ServedLast'
    BY <2>1 DEF Inv, PromptInv, ServedLast, Table, Prompt, IsTry
  <2>4. Ahead' /\ ToldIsTrue' /\ Home'
    BY <2>1 DEF Inv, PromptInv, Ahead, ToldIsTrue, MissIsTrue, Home, HasGame, Idle, IsTry, Prompt, Lossless
  <2>5. Agreement'
    BY <2>1 DEF Inv, Agreement, Before, Agrees, HasGame, ShownIs, IsTry
  <2> QED BY <2>2, <2>3, <2>4, <2>5 DEF PromptInv
<1> QED BY <1>2, <1>3, <1>4, <1>5, <1>6, <1>7, <1>8, <1>9, <1>10, RefusePrompt, OtherPrompt,
           TimeoutPrompt, LosePrompt, CrashPrompt, LeavePrompt, ExitPrompt DEF Next

----------------------------------------------------------------------------
(* What the server does with a request. *)
Serving(req) ==
  \/ req.op = "SNG" /\ Serve(req, StartResult)
  \/ req.op = "QUT" /\ Serve(req, QuitGame(game))
  \/ /\ IsTry(req)
     /\ \/ game.finished # Running /\ Serve(req, [tok |-> "ERR", game |-> game])
        \/ game.finished = Running /\ Serve(req, TryResult(req))

(* Nothing but a request that is served changes the file. *)
LEMMA ServerSteps ==
  ASSUME [Next]_vars, ~ UNCHANGED <<game, served>>
  PROVE  \E req \in requests : Serving(req)
<1>1. CASE ServeStart
  BY <1>1 DEF ServeStart, StartResult, Serving
<1>2. CASE ServeQuit
  BY <1>2 DEF ServeQuit, Serving
<1>3. CASE ServeTrial
  BY <1>3 DEF ServeTrial, IsTry, TryResult, Serving
<1>4. ~ (command_start \/ command_play \/ command_guess \/ command_quit \/ refuse_quit)
  BY DEF command_start, command_play, command_guess, command_quit, refuse_quit, Send, server
<1>5. ~ (Receive \/ ReceiveOther \/ Timeout \/ Lose \/ Crash \/ command_exit \/ Exit)
  BY DEF Receive, ReceiveOther, Take, Timeout, Lose, Crash, command_exit, Exit, StartAgain, server
<1>6. ~ UNCHANGED vars
  BY DEF vars, server
<1> QED BY <1>1, <1>2, <1>3, <1>4, <1>5, <1>6 DEF Next

----------------------------------------------------------------------------
(* What holds of every session *)

(* Inv is an invariant of the session. *)
THEOREM InvHolds == Spec => []Inv
<1>1. Init => Inv
  BY InitBase, InitPrompt DEF Inv
<1>2. Inv /\ [Next]_vars => Inv'
  BY NextBase, NextPrompt DEF Inv
<1> QED BY <1>1, <1>2, PTL DEF Spec

(* Every variable keeps its type. *)
THEOREM TypeCorrect == Spec => []TypeOK
<1>1. Inv => TypeOK
  BY DEF Inv, Base
<1> QED BY <1>1, InvHolds, PTL

(* As long as nothing goes wrong, client and server agree between two      *)
(* commands on the game, the number of trials and the letters found, and   *)
(* the word drawn for a win (player_src/src/command.c) is the word.        *)
THEOREM ClientAgrees == Spec => []InStep
<1>1. Inv => InStep
  BY DEF Inv, Agreement, Before, InStep, Idle, ShownIs, IsTry, Nothing
<1> QED BY <1>1, InvHolds, PTL

(* Whatever is lost, the trial number of the next command is never taken   *)
(* for an old one.                                                         *)
THEOREM NumbersCatchUp == Spec => []NeverBehind
<1>1. Inv => NeverBehind
  BY DEF Inv, PromptInv, Ahead, Prompt, NeverBehind
<1> QED BY <1>1, InvHolds, PTL

(* A client without a game has left none behind that was played, unless it *)
(* was killed or an answer came late.                                      *)
THEOREM NoneLeftBehind == Spec => []NoOrphan
<1>1. Inv => NoOrphan
  BY DEF Inv, PromptInv, Home, NoOrphan
<1> QED BY <1>1, InvHolds, PTL

(* The letters shown are in the word, where they are shown, and a letter   *)
(* said not to be in the word is not.                                      *)
THEOREM PlayerToldTruth == Spec => []ToldIsTrue
<1>1. Inv => ToldIsTrue
  BY DEF Inv, PromptInv
<1> QED BY <1>1, InvHolds, PTL

(* A command entered again after a timeout is not counted twice: either    *)
(* the first one entered the letter or the word, and the second is an old  *)
(* or a repeated one, or the number of the second has gone too far.        *)
THEOREM RetryIsFree == Spec => RetryNotCounted
<1> DEFINE Again == /\ "late" \notin mishaps
                    /\ told.tok = "timeout"
                    /\ told.req = [op |-> served.op, arg |-> served.arg, out |-> served.out]
                    /\ served' # served
                    /\ served'.op \in {"PLG", "PWG"} /\ served'.op = served.op /\ served'.arg = served.arg
<1>1. ASSUME Inv, [Next]_vars, Again
      PROVE  game'.trials <= game.trials
  <2>1. ~ UNCHANGED <<game, served>>
    BY <1>1
  <2>2. PICK req \in requests : Serving(req)
    BY <1>1, <2>1, ServerSteps
  <2>3. served'.op = req.op /\ served'.arg = req.arg
    BY <2>2 DEF Serve, Serving
  <2>4. IsTry(req) /\ IsTry(served)
    BY <1>1, <2>2, <2>3 DEF IsTry, Serving
  <2>5. GameInv(game) /\ game.trials \in Nat
    BY <1>1, <2>4 DEF Inv, Base, Requests, GameKept, GameInv, GameRecord, IsTry
  <2>6. CASE game.finished # Running /\ Serve(req, [tok |-> "ERR", game |-> game])
    <3>1. game' = game
      BY <2>6 DEF Serve
    <3> QED BY <2>5, <3>1
  <2>7. CASE game.finished = Running /\ Serve(req, TryResult(req))
    <3>1. PICK r : r = TryResult(req) /\ game' = r.game
      BY <2>7 DEF Serve
    <3>2. /\ r.game.trials <= game.trials \/ (r.game.trials = game.trials + 1 /\ req.out = game.trials + 1)
          /\ game.last_was_incremental /\ req.arg \in Table(req.op) => r.game.trials <= game.trials
      BY <1>1, <2>4, <2>7, <3>1, TryServed DEF Inv
    <3>3. Prompt
      BY <1>1 DEF Prompt
    <3>4. CASE served.tok \in {"OK", "NOK"}
      <4>1. game.last_was_incremental /\ served.arg \in Table(served.op)
        BY <1>1, <2>4, <3>4 DEF Inv, PromptInv, ServedLast
      <4> QED BY <1>1, <2>3, <3>1, <3>2, <4>1
    <3>5. CASE served.tok \in {"DUP", "INV"}
      <4>1. served.out > game.trials
        BY <1>1, <2>4, <3>3, <3>5 DEF Inv, PromptInv, ServedLast
      <4>2. req = waiting
        BY <1>1, <2>4, <3>3, UnderWay DEF Inv, PromptInv
      <4>3. told.req.out = served.out /\ told.req.op = served.op
        BY <1>1
      <4>4. served.out < req.out
        BY <1>1, <2>4, <4>2, <4>3 DEF Inv, Base, Numbers, IsTry
      <4>5. served.out \in Nat /\ req.out \in Nat
        BY <1>1 DEF Inv, Base, TypeOK, Request
      <4> QED BY <2>5, <3>1, <3>2, <4>1, <4>4, <4>5
    <3>6. CASE served.tok \in {"WIN", "OVR", "ERR"}
      BY <1>1, <2>4, <2>7, <3>6 DEF Inv, PromptInv, ServedLast
    <3>7. served.tok \in {"OK", "NOK", "WIN", "OVR", "ERR", "DUP", "INV"}
      BY <1>1, <2>4 DEF Inv, PromptInv, ServedLast
    <3> QED BY <3>4, <3>5, <3>6, <3>7
  <2> QED BY <2>2, <2>4, <2>6, <2>7 DEF IsTry, Serving
<1>2. Inv /\ [Next]_vars => [Again => game'.trials <= game.trials]_vars
  BY <1>1
<1> QED BY <1>2, InvHolds, PTL DEF Spec, RetryNotCounted

----------------------------------------------------------------------------
(* The server plays by the rules of ServGame *)

(* The rules of ServGame are those of GameRules: one step at a time. *)
LEMMA SameRules ==
  /\ Rules!NewGame = NewGame /\ Rules!Running = Running
  /\ \A g : Rules!QuitGame(g) = QuitGame(g) /\ Rules!StartOver(g) = StartOver(g)
  /\ \A g, ch, out : Rules!PlayLetter(g, ch, out) = PlayLetter(g, ch, out)
  /\ \A g, w, out : Rules!GuessWord(g, w, out) = GuessWord(g, w, out)
<1>1. Rules!NewGame = NewGame /\ Rules!Running = Running
  BY DEF Rules!NewGame, Rules!Running, NewGame, Running
<1>2. \A g : Rules!QuitGame(g) = QuitGame(g)
  BY DEF Rules!QuitGame, QuitGame, Rules!QuitByPlayer, QuitByPlayer
<1>3. \A g : Rules!StartOver(g) = StartOver(g)
  BY <1>1 DEF Rules!StartOver, StartOver
<1>4. \A seq, x : Rules!FirstSlot(seq, x) = FirstSlot(seq, x)
  BY DEF Rules!FirstSlot, FirstSlot
<1>5. \A seq, k, x : Rules!Record(seq, k, x) = Record(seq, k, x)
  BY DEF Rules!Record, Record
<1>6. \A g, k : Rules!IsDuplicate(g, k) = IsDuplicate(g, k)
  BY DEF Rules!IsDuplicate, IsDuplicate
<1>7. \A g, k : Rules!IsRepetition(g, k) = IsRepetition(g, k)
  BY <1>6 DEF Rules!IsRepetition, IsRepetition
<1>8. \A g, out : Rules!Refuse(g, out) = Refuse(g, out)
  BY DEF Rules!Refuse, Refuse
<1>9. \A g, repeated : Rules!TrialsBefore(g, repeated) = TrialsBefore(g, repeated)
  BY DEF Rules!TrialsBefore, TrialsBefore
<1>10. \A g : Rules!Missed(g) = Missed(g)
  BY DEF Rules!Missed, Missed
<1>11. \A tok, result, g : Rules!Over(tok, result, g) = Over(tok, result, g)
  BY DEF Rules!Over, Over
<1>12. \A tok, g : Rules!Count(tok, g) = Count(tok, g)
  BY DEF Rules!Count, Count
<1>13. /\ Rules!Positions = Positions /\ Rules!max_errors = max_errors
       /\ Rules!Won = Won /\ Rules!Lost = Lost
  BY DEF Rules!Positions, Positions, Rules!max_errors, max_errors, Rules!get_errs, get_errs,
         Rules!Won, Won, Rules!Lost, Lost
<1>14. \A g, ch : Rules!Hits(g, ch) = Hits(g, ch) /\ Rules!Occurrences(ch) = Occurrences(ch)
  BY <1>13 DEF Rules!Hits, Hits, Rules!Occurrences, Occurrences
<1>15. ASSUME NEW g, NEW ch, NEW out PROVE Rules!PlayLetter(g, ch, out) = PlayLetter(g, ch, out)
  <2> DEFINE k        == FirstSlot(g.letters, ch)
             repeated == IsRepetition(g, k)
             tried    == [g EXCEPT
                            !.letters    = Record(@, IF repeated THEN k ELSE 0, ch),
                            !.word_state = @ \union Occurrences(ch),
                            !.trials     = TrialsBefore(g, repeated)]
  <2>1. Rules!FirstSlot(g.letters, ch) = k /\ Rules!IsRepetition(g, k) = repeated
    BY <1>4, <1>7
  <2>2. /\ Rules!Record(g.letters, IF repeated THEN k ELSE 0, ch)
             = Record(g.letters, IF repeated THEN k ELSE 0, ch)
        /\ Rules!TrialsBefore(g, repeated) = TrialsBefore(g, repeated)
        /\ Rules!Occurrences(ch) = Occurrences(ch)
    BY <1>5, <1>9, <1>14
  <2>3. Rules!Missed(tried) = Missed(tried)
    BY <1>10
  <2> QED BY <1>6, <1>8, <1>11, <1>12, <1>13, <1>14, <2>1, <2>2, <2>3 DEF Rules!PlayLetter, PlayLetter
<1>16. ASSUME NEW g, NEW w, NEW out PROVE Rules!GuessWord(g, w, out) = GuessWord(g, w, out)
  BY <1>4, <1>5, <1>6, <1>7, <1>8, <1>9, <1>10, <1>11, <1>12, <1>13 DEF Rules!GuessWord, GuessWord
<1> QED BY <1>1, <1>2, <1>3, <1>15, <1>16

(* The parts of a finite set of requests. *)
LEMMA TriesFinite ==
  ASSUME NEW R, IsFiniteSet(R)
  PROVE  /\ \A op : LET S == {req \in R : req.op = op} IN
              IsFiniteSet(S) /\ Cardinality(S) \in Nat /\ Cardinality(S) <= Cardinality(R)
         /\ LET S == {req \in R : IsTry(req)} IN
              IsFiniteSet(S) /\ Cardinality(S) \in Nat /\ Cardinality(S) <= Cardinality(R)
<1>1. ASSUME NEW S \in SUBSET R
      PROVE  IsFiniteSet(S) /\ Cardinality(S) \in Nat /\ Cardinality(S) <= Cardinality(R)
  BY FS_Subset, FS_CardinalityType
<1> QED BY <1>1

(* The entries and the errors of a game. *)
LEMMA GameCounts ==
  ASSUME NEW g, GameInv(g)
  PROVE  g.errors \in Nat /\ Len(g.letters) \in Nat /\ Len(g.words) \in Nat
<1>1. g.errors \in Nat /\ g.letters \in Seq(Letters) /\ g.words \in Seq(Guesses)
  BY DEF GameInv, GameRecord
<1> QED BY ONLY <1>1, LenProperties

(* A command is sent within the bounds of the commands. *)
LEMMA SendCaps ==
  ASSUME Inv, Caps, NEW op, NEW arg, NEW out, Send(op, arg, out),
         op \in {"PLG", "PWG"} =>
           active /\ cur_attempt < AttemptCap /\ out = cur_attempt + 1 /\ game.errors < ErrorCap,
         op = "PLG" => Len(game.letters) < SlotCap,
         op = "PWG" => Len(game.words) < SlotCap
  PROVE  Caps'
<1> DEFINE req == [op |-> op, arg |-> arg, out |-> out]
<1>1. /\ requests' = requests \union {req} /\ game' = game /\ replies' = replies
      /\ Cardinality(requests) + Cardinality(replies) <= FlightCap
  BY DEF Send, server
<1>2. req.op = op /\ req.out = out
  OBVIOUS
<1> HIDE DEF req
<1>3. /\ IsFiniteSet(requests') /\ IsFiniteSet(replies')
      /\ Cardinality(requests') \in Nat /\ Cardinality(requests') <= FlightCap + 1
  <2>1. IsFiniteSet(requests) /\ IsFiniteSet(replies)
    BY DEF Caps
  <2>2. Cardinality(requests) \in Nat /\ Cardinality(replies) \in Nat
    BY <2>1, FS_CardinalityType
  <2>3. IsFiniteSet(requests') /\ Cardinality(requests') \in Nat
    BY <1>1, <2>1, FS_AddElement, FS_CardinalityType
  <2>4. Cardinality(requests') = Cardinality(requests) \/ Cardinality(requests') = Cardinality(requests) + 1
    BY <1>1, <2>1, FS_AddElement
  <2>5. FlightCap \in Nat
    BY SessionAssumption
  <2> QED BY <1>1, <2>1, <2>2, <2>3, <2>4, <2>5
<1>4. \A req1 \in Trials' : req1.out <= AttemptCap
  <2>1. cur_attempt \in Nat /\ AttemptCap \in Nat
    BY SessionAssumption DEF Inv, Base, TypeOK
  <2>2. IsTry(req) => req.out <= AttemptCap
    BY <1>2, <2>1 DEF IsTry
  <2> QED BY <1>1, <2>2 DEF Caps, Trials
<1>5. ASSUME HasGame'
      PROVE  /\ game'.errors + Cardinality(Trials') <= ErrorCap + FlightCap
             /\ Len(game'.letters) + Cardinality(Tries("PLG")') <= SlotCap + FlightCap
             /\ Len(game'.words) + Cardinality(Tries("PWG")') <= SlotCap + FlightCap
  <2>1. HasGame
    BY <1>1, <1>5 DEF HasGame
  <2>2. game.errors \in Nat /\ Len(game.letters) \in Nat /\ Len(game.words) \in Nat
    BY <2>1, GameCounts DEF Inv, Base, GameKept
  <2>3. ErrorCap \in Nat /\ SlotCap \in Nat /\ FlightCap \in Nat
    BY SessionAssumption
  <2>4. /\ Cardinality(Trials') \in Nat /\ Cardinality(Trials') <= FlightCap + 1
        /\ \A kind : Cardinality(Tries(kind)') \in Nat /\ Cardinality(Tries(kind)') <= FlightCap + 1
    <3>1. /\ \A kind : Cardinality(Tries(kind)') \in Nat /\ Cardinality(Tries(kind)') <= Cardinality(requests')
          /\ Cardinality(Trials') \in Nat /\ Cardinality(Trials') <= Cardinality(requests')
      BY <1>3, TriesFinite DEF Tries, Trials
    <3> QED BY <1>3, <2>3, <3>1
  <2>5. \A n, c, cap, flight \in Nat : n < cap /\ c <= flight + 1 => n + c <= cap + flight
    OBVIOUS
  <2>6. op \notin {"PLG", "PWG"} => Trials' = Trials
    BY <1>1, <1>2 DEF Trials, IsTry
  <2>7. \A kind : op # kind => Tries(kind)' = Tries(kind)
    BY <1>1, <1>2 DEF Tries
  <2>8. game.errors + Cardinality(Trials') <= ErrorCap + FlightCap
    <3>1. CASE op \in {"PLG", "PWG"}
      BY <2>2, <2>3, <2>4, <2>5, <3>1
    <3>2. CASE op \notin {"PLG", "PWG"}
      BY <2>1, <2>6, <3>2 DEF Caps
    <3> QED BY <3>1, <3>2
  <2>9. Len(game.letters) + Cardinality(Tries("PLG")') <= SlotCap + FlightCap
    <3>1. CASE op = "PLG"
      BY <2>2, <2>3, <2>4, <2>5, <3>1
    <3>2. CASE op # "PLG"
      BY <2>1, <2>7, <3>2 DEF Caps
    <3> QED BY <3>1, <3>2
  <2>10. Len(game.words) + Cardinality(Tries("PWG")') <= SlotCap + FlightCap
    <3>1. CASE op = "PWG"
      BY <2>2, <2>3, <2>4, <2>5, <3>1
    <3>2. CASE op # "PWG"
      BY <2>1, <2>7, <3>2 DEF Caps
    <3> QED BY <3>1, <3>2
  <2> QED BY <1>1, <2>8, <2>9, <2>10
<1> QED BY <1>3, <1>4, <1>5 DEF Caps

(* A request that is served takes its place in the file.                   *)
LEMMA ServeCaps ==
  ASSUME Inv, Caps, NEW req \in requests, Serving(req)
  PROVE  Caps'
<1>1. PICK r :
        /\ Serve(req, r)
        /\ \/ req.op = "SNG" /\ r = StartResult
           \/ req.op = "QUT" /\ r = QuitGame(game)
           \/ IsTry(req) /\ game.finished # Running /\ r = [tok |-> "ERR", game |-> game]
           \/ IsTry(req) /\ game.finished = Running /\ r = TryResult(req)
  BY DEF Serving
<1>2. requests' = requests \ {req} /\ game' = r.game
  BY <1>1 DEF Serve
<1>3. /\ IsFiniteSet(requests') /\ IsFiniteSet(replies')
      /\ \A req1 \in Trials' : req1.out <= AttemptCap
  <2>1. \E rep : replies' = replies \union {rep}
    BY <1>1 DEF Serve
  <2>2. IsFiniteSet(requests') /\ IsFiniteSet(replies')
    BY <1>2, <2>1, FS_RemoveElement, FS_AddElement DEF Caps
  <2> QED BY <1>2, <2>2 DEF Caps, Trials
<1>4. /\ IsFiniteSet(Trials) /\ Cardinality(Trials) \in Nat
      /\ Cardinality(Trials') \in Nat /\ Cardinality(Trials') <= Cardinality(Trials)
      /\ IsTry(req) => Cardinality(Trials') = Cardinality(Trials) - 1
  <2>1. IsFiniteSet(Trials)
    BY TriesFinite DEF Caps, Trials
  <2>2. IsTry(req) => req \in Trials /\ Trials' = Trials \ {req}
    BY <1>2 DEF Trials
  <2>3. Trials' \subseteq Trials
    BY <1>2 DEF Trials
  <2> QED BY <2>1, <2>2, <2>3, FS_RemoveElement, FS_Subset, FS_CardinalityType
<1>5. \A kind :
        /\ Cardinality(Tries(kind)) \in Nat
        /\ Cardinality(Tries(kind)') \in Nat /\ Cardinality(Tries(kind)') <= Cardinality(Tries(kind))
        /\ req.op = kind => Cardinality(Tries(kind)') = Cardinality(Tries(kind)) - 1
  <2> TAKE kind
  <2>1. IsFiniteSet(Tries(kind))
    BY TriesFinite DEF Caps, Tries
  <2>2. req.op = kind => req \in Tries(kind) /\ Tries(kind)' = Tries(kind) \ {req}
    BY <1>2 DEF Tries
  <2>3. Tries(kind)' \subseteq Tries(kind)
    BY <1>2 DEF Tries
  <2> QED BY <2>1, <2>2, <2>3, FS_RemoveElement, FS_Subset, FS_CardinalityType
<1>6. ErrorCap \in Nat /\ SlotCap \in Nat /\ FlightCap \in Nat
  BY SessionAssumption
<1>7. \A n, m, c, d, cap, flight \in Nat :
        n <= m /\ c <= d /\ m + d <= cap + flight => n + c <= cap + flight
  OBVIOUS
<1>8. \A n, m, d, c, cap, flight \in Nat :
        n <= m + 1 /\ c = d - 1 /\ m + d <= cap + flight => n + c <= cap + flight
  OBVIOUS
<1> DEFINE Room == /\ r.game.errors + Cardinality(Trials') <= ErrorCap + FlightCap
                   /\ Len(r.game.letters) + Cardinality(Tries("PLG")') <= SlotCap + FlightCap
                   /\ Len(r.game.words) + Cardinality(Tries("PWG")') <= SlotCap + FlightCap
<1>9. HasGame => /\ GameInv(game)
                 /\ game.errors \in Nat /\ Len(game.letters) \in Nat /\ Len(game.words) \in Nat
                 /\ game.errors + Cardinality(Trials) <= ErrorCap + FlightCap
                 /\ Len(game.letters) + Cardinality(Tries("PLG")) <= SlotCap + FlightCap
                 /\ Len(game.words) + Cardinality(Tries("PWG")) <= SlotCap + FlightCap
  BY GameCounts DEF Inv, Base, GameKept, Caps
<1>10. ASSUME HasGame, r.game.errors \in Nat, Len(r.game.letters) \in Nat, Len(r.game.words) \in Nat,
              r.game.errors <= game.errors, Len(r.game.letters) <= Len(game.letters),
              Len(r.game.words) <= Len(game.words)
       PROVE  Room
  <2>1. r.game.errors + Cardinality(Trials') <= ErrorCap + FlightCap
    BY <1>4, <1>6, <1>7, <1>9, <1>10
  <2>2. Len(r.game.letters) + Cardinality(Tries("PLG")') <= SlotCap + FlightCap
    BY <1>5, <1>6, <1>7, <1>9, <1>10
  <2>3. Len(r.game.words) + Cardinality(Tries("PWG")') <= SlotCap + FlightCap
    BY <1>5, <1>6, <1>7, <1>9, <1>10
  <2> QED BY <2>1, <2>2, <2>3
<1>11. SUFFICES Room
  BY <1>2, <1>3 DEF Caps
<1>12. CASE req.op = "SNG" /\ r = StartResult
  <2>1. CASE HasGame /\ game.finished = Running
    BY <1>9, <1>10, <1>12, <2>1, StartServed DEF Inv
  <2>2. CASE ~ (HasGame /\ game.finished = Running)
    <3>1. r.game = NewGame
      BY <1>12, <2>2, StartServed DEF Inv
    <3>2. r.game.errors = 0 /\ Len(r.game.letters) = 0 /\ Len(r.game.words) = 0
      BY <3>1 DEF NewGame
    <3>3. CASE HasGame
      BY <1>9, <1>10, <3>2, <3>3
    <3>4. CASE ~ HasGame
      <4>1. \A req1 \in requests : req1.op = "SNG"
        BY <3>4 DEF Inv, Base, Requests
      <4>2. Trials' = {} /\ Tries("PLG")' = {} /\ Tries("PWG")' = {}
        BY <1>2, <4>1 DEF Trials, Tries, IsTry
      <4>3. Cardinality({}) = 0
        BY FS_EmptySet
      <4>4. \A cap, flight \in Nat : 0 + 0 <= cap + flight
        OBVIOUS
      <4> QED BY <1>6, <3>2, <4>2, <4>3, <4>4
    <3> QED BY <3>3, <3>4
  <2> QED BY <2>1, <2>2
<1>13. CASE req.op = "QUT" /\ r = QuitGame(game)
  <2>1. HasGame
    BY <1>13 DEF Inv, Base, Requests
  <2>2. /\ r.game.errors = game.errors
        /\ r.game.letters = game.letters /\ r.game.words = game.words
    BY <1>9, <1>13, <2>1, QuitServed
  <2> QED BY <1>9, <1>10, <2>1, <2>2
<1>14. CASE IsTry(req) /\ game.finished # Running /\ r = [tok |-> "ERR", game |-> game]
  <2>1. HasGame
    BY <1>14 DEF Inv, Base, Requests, IsTry
  <2>2. r.game = game
    BY <1>14
  <2> QED BY <1>9, <1>10, <2>1, <2>2
<1>15. CASE IsTry(req) /\ game.finished = Running /\ r = TryResult(req)
  <2>1. HasGame
    BY <1>15 DEF Inv, Base, Requests, IsTry
  <2>2. /\ GameInv(r.game)
        /\ r.game.errors <= game.errors + 1
        /\ req.op = "PLG" => Len(r.game.letters) <= Len(game.letters) + 1 /\ r.game.words = game.words
        /\ req.op = "PWG" => Len(r.game.words) <= Len(game.words) + 1 /\ r.game.letters = game.letters
    BY <1>15, TryServed DEF Inv
  <2>3. r.game.errors \in Nat /\ Len(r.game.letters) \in Nat /\ Len(r.game.words) \in Nat
    BY <2>2, GameCounts
  <2>4. r.game.errors + Cardinality(Trials') <= ErrorCap + FlightCap
    BY <1>4, <1>6, <1>8, <1>9, <1>15, <2>1, <2>2, <2>3
  <2>5. CASE req.op = "PLG"
    <3>1. Len(r.game.letters) + Cardinality(Tries("PLG")') <= SlotCap + FlightCap
      <4>1. /\ Len(r.game.letters) <= Len(game.letters) + 1
            /\ Len(game.letters) \in Nat
            /\ Len(game.letters) + Cardinality(Tries("PLG")) <= SlotCap + FlightCap
        BY <1>9, <2>1, <2>2, <2>5
      <4>2. /\ Cardinality(Tries("PLG")') = Cardinality(Tries("PLG")) - 1
            /\ Cardinality(Tries("PLG")) \in Nat /\ Cardinality(Tries("PLG")') \in Nat
        BY <1>5, <2>5
      <4> QED BY <1>6, <1>8, <2>3, <4>1, <4>2
    <3>2. Len(r.game.words) <= Len(game.words)
      BY <1>9, <2>1, <2>2, <2>5
    <3>3. Len(r.game.words) + Cardinality(Tries("PWG")') <= SlotCap + FlightCap
      BY <1>5, <1>6, <1>7, <1>9, <2>1, <2>3, <3>2
    <3> QED BY <2>4, <3>1, <3>3
  <2>6. CASE req.op = "PWG"
    <3>1. Len(r.game.words) + Cardinality(Tries("PWG")') <= SlotCap + FlightCap
      <4>1. /\ Len(r.game.words) <= Len(game.words) + 1
            /\ Len(game.words) \in Nat
            /\ Len(game.words) + Cardinality(Tries("PWG")) <= SlotCap + FlightCap
        BY <1>9, <2>1, <2>2, <2>6
      <4>2. /\ Cardinality(Tries("PWG")') = Cardinality(Tries("PWG")) - 1
            /\ Cardinality(Tries("PWG")) \in Nat /\ Cardinality(Tries("PWG")') \in Nat
        BY <1>5, <2>6
      <4> QED BY <1>6, <1>8, <2>3, <4>1, <4>2
    <3>2. Len(r.game.letters) <= Len(game.letters)
      BY <1>9, <2>1, <2>2, <2>6
    <3>3. Len(r.game.letters) + Cardinality(Tries("PLG")') <= SlotCap + FlightCap
      BY <1>5, <1>6, <1>7, <1>9, <2>1, <2>3, <3>2
    <3> QED BY <2>4, <3>1, <3>3
  <2> QED BY <1>15, <2>5, <2>6 DEF IsTry
<1> QED BY <1>1, <1>12, <1>13, <1>14, <1>15

(* The bounds of the commands bound what the server is asked. *)
LEMMA NextCaps == Inv /\ Caps /\ [Next]_vars => Caps'
<1> SUFFICES ASSUME Inv, Caps, [Next]_vars PROVE Caps'
  OBVIOUS
<1>1. CASE ~ UNCHANGED <<game, served>>
  BY <1>1, ServerSteps, ServeCaps
<1>2. CASE UNCHANGED <<game, served>>
  <2>1. CASE command_start
    BY <2>1, SendCaps DEF command_start
  <2>2. CASE command_play
    <3>1. PICK ch \in Letters : Send("PLG", <<ch>>, cur_attempt + 1)
      BY <2>2 DEF command_play
    <3>2. active /\ cur_attempt < AttemptCap /\ game.errors < ErrorCap /\ Len(game.letters) < SlotCap
      BY <2>2 DEF command_play, CanTry
    <3> QED BY <3>1, <3>2, SendCaps
  <2>3. CASE command_guess
    <3>1. PICK w \in Guesses : Send("PWG", w, cur_attempt + 1)
      BY <2>3 DEF command_guess
    <3>2. active /\ cur_attempt < AttemptCap /\ game.errors < ErrorCap /\ Len(game.words) < SlotCap
      BY <2>3 DEF command_guess, CanTry
    <3> QED BY <3>1, <3>2, SendCaps
  <2>4. CASE command_quit
    BY <2>4, SendCaps DEF command_quit
  <2>5. ASSUME requests' \in SUBSET requests, replies' \in SUBSET replies
        PROVE  Caps'
    <3>1. IsFiniteSet(requests') /\ IsFiniteSet(replies')
      BY <2>5, FS_Subset DEF Caps
    <3>2. /\ IsFiniteSet(Trials) /\ Trials' \in SUBSET Trials
          /\ \A kind : IsFiniteSet(Tries(kind)) /\ Tries(kind)' \in SUBSET Tries(kind)
      BY <2>5, TriesFinite DEF Caps, Trials, Tries
    <3>3. /\ Cardinality(Trials) \in Nat
          /\ Cardinality(Trials') \in Nat /\ Cardinality(Trials') <= Cardinality(Trials)
          /\ \A kind : /\ Cardinality(Tries(kind)) \in Nat
                       /\ Cardinality(Tries(kind)') \in Nat
                       /\ Cardinality(Tries(kind)') <= Cardinality(Tries(kind))
      BY <3>2, FS_Subset, FS_CardinalityType
    <3>4. \A req \in Trials' : req.out <= AttemptCap
      BY <3>2 DEF Caps
    <3>5. ASSUME HasGame'
          PROVE  /\ game.errors + Cardinality(Trials') <= ErrorCap + FlightCap
                 /\ Len(game.letters) + Cardinality(Tries("PLG")') <= SlotCap + FlightCap
                 /\ Len(game.words) + Cardinality(Tries("PWG")') <= SlotCap + FlightCap
      <4>1. HasGame
        BY <1>2, <3>5 DEF HasGame
      <4>2. game.errors \in Nat /\ Len(game.letters) \in Nat /\ Len(game.words) \in Nat
        BY <4>1, GameCounts DEF Inv, Base, GameKept
      <4>3. ErrorCap \in Nat /\ SlotCap \in Nat /\ FlightCap \in Nat
        BY SessionAssumption
      <4>4. \A n, c, d, cap, flight \in Nat : c <= d /\ n + d <= cap + flight => n + c <= cap + flight
        OBVIOUS
      <4>5. /\ game.errors + Cardinality(Trials) <= ErrorCap + FlightCap
            /\ Len(game.letters) + Cardinality(Tries("PLG")) <= SlotCap + FlightCap
            /\ Len(game.words) + Cardinality(Tries("PWG")) <= SlotCap + FlightCap
        BY <4>1 DEF Caps
      <4>6. game.errors + Cardinality(Trials') <= ErrorCap + FlightCap
        BY <3>3, <4>2, <4>3, <4>4, <4>5
      <4>7. Len(game.letters) + Cardinality(Tries("PLG")') <= SlotCap + FlightCap
        BY <3>3, <4>2, <4>3, <4>4, <4>5
      <4>8. Len(game.words) + Cardinality(Tries("PWG")') <= SlotCap + FlightCap
        BY <3>3, <4>2, <4>3, <4>4, <4>5
      <4> QED BY <4>6, <4>7, <4>8
    <3> QED BY <1>2, <3>1, <3>4, <3>5 DEF Caps
  <2>6. CASE command_exit
    <3>1. replies' = replies
          /\ requests' = IF active THEN requests \union {QuitRequest} ELSE requests
      BY <2>6 DEF command_exit, QuitRequest
    <3>2. CASE ~ active
      BY <2>5, <3>1, <3>2
    <3>3. CASE active
      <4>1. requests' = requests \union {QuitRequest}
        BY <3>1, <3>3
      <4>2. QuitRequest.op = "QUT"
        BY DEF QuitRequest
      <4>3. Trials' = Trials /\ Tries("PLG")' = Tries("PLG") /\ Tries("PWG")' = Tries("PWG")
        BY <4>1, <4>2 DEF Trials, Tries, IsTry
      <4>4. IsFiniteSet(requests')
        BY <4>1, FS_AddElement DEF Caps
      <4> QED BY <1>2, <3>1, <4>3, <4>4 DEF Caps, HasGame
    <3> QED BY <3>2, <3>3
  <2>7. CASE StartAgain
    BY <2>5, <2>7 DEF StartAgain
  <2>8. CASE Receive \/ ReceiveOther
    BY <2>5, <2>8 DEF Receive, ReceiveOther, Take
  <2>9. CASE Timeout \/ Lose \/ refuse_quit \/ UNCHANGED vars
    BY <2>5, <2>9 DEF Timeout, Lose, refuse_quit, vars
  <2>10. CASE ServeStart \/ ServeTrial \/ ServeQuit
    <3>1. PICK req \in requests : Serving(req)
      <4>1. CASE ServeStart
        BY <4>1 DEF ServeStart, StartResult, Serving
      <4>2. CASE ServeQuit
        BY <4>2 DEF ServeQuit, Serving
      <4>3. CASE ServeTrial
        BY <4>3 DEF ServeTrial, IsTry, TryResult, Serving
      <4> QED BY <2>10, <4>1, <4>2, <4>3
    <3> QED BY <3>1, ServeCaps
  <2> QED BY <2>1, <2>2, <2>3, <2>4, <2>6, <2>7, <2>8, <2>9, <2>10 DEF Next, Crash, Exit
<1> QED BY <1>1, <1>2

(* The game of ServGame: a file that is not there is one not played yet.   *)
RulesGame == IF game = NoFile THEN NewGame ELSE game

(* A request that is served is a step of ServGame.                         *)
LEMMA ServedStep ==
  ASSUME Inv, Caps, NEW req \in requests, Serving(req), game' # NoFile
  PROVE  Rules!Next
<1>1. PICK r :
        /\ Serve(req, r)
        /\ \/ req.op = "SNG" /\ r = StartResult
           \/ req.op = "QUT" /\ r = QuitGame(game)
           \/ IsTry(req) /\ game.finished # Running /\ r = [tok |-> "ERR", game |-> game]
           \/ IsTry(req) /\ game.finished = Running /\ r = TryResult(req)
  BY DEF Serving
<1>2. /\ game' = r.game /\ RulesGame' = r.game
      /\ served' = [op |-> req.op, arg |-> req.arg, out |-> req.out, tok |-> r.tok, trials |-> r.game.trials]
  BY <1>1 DEF Serve, RulesGame
<1>3. ASSUME NEW op, NEW arg, NEW out, NEW x,
             req.op = op, req.arg = arg, req.out = out, r = x
      PROVE  Rules!Serve(op, arg, out, x)
  BY <1>2, <1>3 DEF Rules!Serve, RulesGame
<1>4. Valid(req) /\ (req.op # "SNG" => HasGame)
  BY DEF Inv, Base, Requests
<1>5. HasGame => RulesGame = game
  BY DEF HasGame, RulesGame
<1>6. CASE req.op = "SNG" /\ r = StartResult
  <2>1. StartResult = StartOver(RulesGame)
    <3>1. StartOver(NewGame) = [tok |-> "OK", game |-> NewGame]
      BY DEF StartOver, NewGame
    <3> QED BY <3>1 DEF StartResult, RulesGame
  <2>2. req.arg = << >> /\ req.out = 0
    BY <1>4, <1>6 DEF Valid
  <2>3. Rules!Serve("SNG", << >>, 0, Rules!StartOver(RulesGame))
    BY <1>3, <1>6, <2>1, <2>2, SameRules
  <2> QED BY <2>3 DEF Rules!Next, Rules!Start, RulesGame
<1>7. CASE req.op = "QUT" /\ r = QuitGame(game)
  <2>1. req.arg = << >> /\ req.out = 0 /\ RulesGame = game
    BY <1>4, <1>5, <1>7 DEF Valid
  <2>2. Rules!Serve("QUT", << >>, 0, Rules!QuitGame(RulesGame))
    BY <1>3, <1>7, <2>1, SameRules
  <2> QED BY <2>2 DEF Rules!Next, Rules!Quit, RulesGame
<1>8. CASE IsTry(req)
  <2>1. /\ RulesGame = game /\ req.out \in Nat /\ req.out <= AttemptCap /\ HasGame
        /\ game.trials \in Nat
    BY <1>4, <1>5, <1>8 DEF IsTry, Valid, Caps, Trials, Inv, Base, GameKept, GameInv, GameRecord
  <2>2. req.out \in Rules!TrialNumbers
    <3>1. \A n, m, cap \in Nat : n <= cap => n \in 0..(m + cap)
      OBVIOUS
    <3>2. req.out \in 0..(RulesGame.trials + AttemptCap)
      BY <2>1, <3>1, SessionAssumption
    <3> QED BY <3>2 DEF Rules!TrialNumbers, RulesGame
  <2>3. CASE game.finished # Running /\ r = [tok |-> "ERR", game |-> game]
    <3>1. r = [tok |-> "ERR", game |-> RulesGame] /\ RulesGame.finished # Rules!Running
      BY <2>1, <2>3, SameRules
    <3>2. CASE req.op = "PLG"
      <4>1. PICK ch \in Letters : req.arg = <<ch>>
        BY <1>4, <3>2 DEF Valid
      <4>2. Rules!Serve("PLG", <<ch>>, req.out, [tok |-> "ERR", game |-> RulesGame])
        BY <1>3, <3>1, <3>2, <4>1
      <4> QED BY <2>2, <3>1, <4>2 DEF Rules!Next, Rules!TooLate, RulesGame
    <3>3. CASE req.op = "PWG"
      <4>1. req.arg \in Guesses
        BY <1>4, <3>3 DEF Valid
      <4>2. Rules!Serve("PWG", req.arg, req.out, [tok |-> "ERR", game |-> RulesGame])
        BY <1>3, <3>1, <3>3
      <4> QED BY <2>2, <3>1, <4>1, <4>2 DEF Rules!Next, Rules!TooLate, RulesGame
    <3> QED BY <1>8, <3>2, <3>3 DEF IsTry
  <2>4. CASE game.finished = Running /\ r = TryResult(req)
    <3>1. game.errors \in Nat /\ Len(game.letters) \in Nat /\ Len(game.words) \in Nat
      BY <2>1, GameCounts DEF Inv, Base, GameKept
    <3>2. /\ ErrorCap \in Nat /\ SlotCap \in Nat /\ FlightCap \in Nat
          /\ Cardinality(Trials) \in Nat /\ \A kind : Cardinality(Tries(kind)) \in Nat
      BY SessionAssumption, TriesFinite DEF Caps, Trials, Tries
    <3>3. \A n, c, cap, flight \in Nat : n + c <= cap + flight => n < cap + flight + 1
      OBVIOUS
    <3>4. /\ game.errors < ErrorCap + FlightCap + 1
          /\ Len(game.letters) < SlotCap + FlightCap + 1
          /\ Len(game.words) < SlotCap + FlightCap + 1
      BY <2>1, <3>1, <3>2, <3>3 DEF Caps
    <3>5. Rules!Playing
      BY <2>1, <2>4, <3>4, SameRules DEF Rules!Playing, RulesGame
    <3>6. CASE req.op = "PLG"
      <4>1. PICK ch \in Letters : req.arg = <<ch>>
        BY <1>4, <3>6 DEF Valid
      <4>2. r = PlayLetter(RulesGame, ch, req.out)
        BY <2>1, <2>4, <3>6, <4>1 DEF TryResult
      <4>3. Rules!Serve("PLG", <<ch>>, req.out, Rules!PlayLetter(RulesGame, ch, req.out))
        BY <1>3, <3>6, <4>1, <4>2, SameRules
      <4>4. Len(RulesGame.letters) < SlotCap + FlightCap + 1
        BY <2>1, <3>4
      <4> QED BY <2>2, <3>5, <4>3, <4>4 DEF Rules!Next, Rules!Play, RulesGame
    <3>7. CASE req.op = "PWG"
      <4>1. req.arg \in Guesses
        BY <1>4, <3>7 DEF Valid
      <4>2. r = GuessWord(RulesGame, req.arg, req.out)
        BY <2>1, <2>4, <3>7 DEF TryResult
      <4>3. Rules!Serve("PWG", req.arg, req.out, Rules!GuessWord(RulesGame, req.arg, req.out))
        BY <1>3, <3>7, <4>2, SameRules
      <4>4. Len(RulesGame.words) < SlotCap + FlightCap + 1
        BY <2>1, <3>4
      <4> QED BY <2>2, <3>5, <4>1, <4>3, <4>4 DEF Rules!Next, Rules!Guess, RulesGame
    <3> QED BY <1>8, <3>6, <3>7 DEF IsTry
  <2> QED BY <1>1, <1>8, <2>3, <2>4 DEF IsTry
<1> QED BY <1>1, <1>6, <1>7, <1>8

(* Whatever arrives late, out of order or from a client that is gone, the  *)
(* server plays by the rules, one request at a time.                       *)
THEOREM PlaysByRules == Spec => ServerPlaysByRules
<1>1. Init => Inv /\ Caps
  <2>1. Init => Caps
    BY FS_EmptySet DEF Init, Caps, Trials, HasGame
  <2> QED BY <2>1, InitBase, InitPrompt DEF Inv
<1>2. Inv /\ Caps /\ [Next]_vars => Inv' /\ Caps'
  BY NextBase, NextPrompt, NextCaps DEF Inv
<1>3. Init => Rules!Init
  BY SameRules DEF Init, Rules!Init, Rules!NoRequest, NoRequest
<1>4. Inv /\ Caps /\ Inv' /\ [Next]_vars => [Rules!Next]_(Rules!vars)
  <2> SUFFICES ASSUME Inv, Caps, Inv', [Next]_vars PROVE [Rules!Next]_(Rules!vars)
    OBVIOUS
  <2>1. CASE UNCHANGED <<game, served>>
    BY <2>1 DEF Rules!vars
  <2>2. CASE ~ UNCHANGED <<game, served>>
    <3>1. PICK req \in requests : Serving(req)
      BY <2>2, ServerSteps
    <3>2. game' # NoFile
      BY <3>1 DEF Inv, Base, Roles, Serving, Serve, HasGame
    <3> QED BY <3>1, <3>2, ServedStep
  <2> QED BY <2>1, <2>2
<1> QED BY <1>1, <1>2, <1>3, <1>4, PTL DEF Spec, ServerPlaysByRules, Rules!Spec
=============================================================================
