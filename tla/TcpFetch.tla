------------------------------ MODULE TcpFetch ------------------------------
(***************************************************************************)
(* How a client fetches a file over TCP: the commands scoreboard (GSB),    *)
(* hint (GHL) and state (STA), in a client that may have fetched others    *)
(* before.  The handler on the server writes an answer,                    *)
(* "<status> <name> <size> <data>\n", the network delivers it in pieces,   *)
(* and the client takes a pause between two pieces for the end of what it  *)
(* reads: get_file decides from the number of bytes whether that was the   *)
(* end, waits two seconds for more if it was not, and saves the data block *)
(* by block.                                                               *)
(*                                                                         *)
(* A character is a string here, and words of the protocol are shorter than*)
(* in the code, in the same proportions: the limit of the first read is one*)
(* more than the length of the answer without a file.  Sizes are written   *)
(* in base 2.                                                              *)
(***************************************************************************)
EXTENDS Integers, Sequences, SequencesExt

CONSTANTS
  Name,    \* the name of the file that is sent
  Files,   \* what may be in it
  OldFiles, \* what it may hold at the client before
  Big,     \* BIG_BUF_SZ
  CanDie   \* whether the handler may be interrupted or killed

NUL == "NUL"
SP  == " "
LF  == "LF"
Digits == {"0", "1"}

ASSUME TcpFetchAssumption ==
  /\ Name \in Seq(STRING) /\ Name # << >>
  /\ \A k \in DOMAIN Name : Name[k] \notin {NUL, SP, LF}
  /\ \A data \in Files : data \in Seq(STRING) /\ \A k \in DOMAIN data : data[k] # NUL
  /\ \A old \in OldFiles : old \in Seq(STRING)
  /\ Big \in Nat /\ CanDie \in BOOLEAN

VARIABLES
  request,  \* the command that is served and what is to be answered
  server,   \* the handler: how it stands with the connection
  writes,   \* the writes that it still has to make
  wire,     \* what was written and not delivered
  ready,    \* what was delivered and not read
  buf,      \* big_buffer
  c,        \* the variables of the client
  file,     \* the contents of the file called Name in the client's directory
  before,   \* history: what it was when the command was entered
  mishaps   \* history: what went wrong with this command

net  == <<server, writes, wire, ready>>
vars == <<request, server, writes, wire, ready, buf, c, file, before, mishaps>>

Commands == {"GSB", "GHL", "STA"}
Kinds    == {"OK", "NOK", "ERR"}

(* "RSB OK ", "RHL OK ", "RST ACT " *)
Status(cmd) == IF cmd = "STA" THEN <<"R", "A", SP>> ELSE <<"O", SP>>

(* "RSB EMPTY\n", "RHL NOK\n", and what command_state sends, "STA NOK\n".   *)
Nok == <<"R", "N", LF>>
NoFile(cmd) == IF cmd = "STA" THEN <<"S", "N", LF>> ELSE Nok
Error == <<"E", LF>>

(* lim: one more than the length of the answer that the client looks for. *)
Lim == 4

(* %zu, and the loop of strtol over the digits; the size of nothing is 0.   *)
printed[n \in Nat] == IF n < 2 THEN <<ToString(n)>> ELSE printed[n \div 2] \o <<ToString(n % 2)>>
number(tok) == FoldLeft(LAMBDA v, d : 2 * v + IF d = "1" THEN 1 ELSE 0, 0, tok)

Header(req) == Status(req.cmd) \o Name \o <<SP>> \o printed[Len(req.data)] \o <<SP>>

(* A file as it is sent; hint_impl writes the final LF by itself. *)
Answer(req) == Header(req) \o req.data \o <<LF>>
Answers     == [cmd : Commands, kind : {"OK"}, data : Files]
Writes(req) ==
  CASE req.kind = "NOK" -> <<NoFile(req.cmd)>>
    [] req.kind = "ERR" -> <<Error>>
    [] req.kind = "OK" /\ req.cmd = "GHL" -> <<Header(req) \o req.data, <<LF>> >>
    [] OTHER -> <<Answer(req)>>

(* "No file metadata will take 4MiB", as get_file says.                     *)
ASSUME HeaderAssumption == \A req \in Answers : Len(Header(req)) <= Big

(* strtoul reads the size that was printed, no more than it from less than  *)
(* all of its digits, and something unsigned from any digits.               *)
ASSUME NumbersAssumption ==
  /\ \A data \in Files :
       LET digits == printed[Len(data)] IN
         /\ digits \in Seq(Digits) /\ digits # << >>
         /\ number(digits) = Len(data)
         /\ \A k \in 0..Len(digits) : number(SubSeq(digits, 1, k)) \in 0..Len(data)
  /\ \A n \in 0..Big : \A tok \in [1..n -> Digits] : number(tok) \in Nat

Idle == [pc |-> "idle", whence |-> 0, from |-> 0, n |-> 0, cur |-> 0, full |-> 0,
         pos |-> 0, right |-> FALSE, result |-> "none"]

(* What an earlier answer has left in the buffer: its first block, in which *)
(* the two ends of tokens were overwritten, and over it the later ones.     *)
Left(req) ==
  LET text  == Answer(req)
      end1  == Len(Status(req.cmd) \o Name)
      end2  == Len(Header(req)) - 1
      at(i) == i + Big * ((Len(text) - 1 - i) \div Big)
  IN  [i \in 0..Big |->
         IF i < Len(text) /\ i # Big /\ at(i) \notin {end1, end2} THEN text[at(i) + 1] ELSE NUL]

Init ==
  /\ request = [cmd |-> "GSB", kind |-> "ERR", data |-> << >>]
  /\ server = "closed"
  /\ writes = << >> /\ wire = << >> /\ ready = << >>
  /\ buf \in {[i \in 0..Big |-> NUL]} \union {Left(req) : req \in Answers}
  /\ c = Idle
  /\ file \in OldFiles
  /\ before = file
  /\ mishaps = {}

----------------------------------------------------------------------------
(* The connection and the handler *)

(* The command is entered; accept, the request and the command's work (see  *)
(* GameStore.tla and Scoreboard.tla) lead to one of the answers.            *)
Ask ==
  /\ c = Idle
  /\ \E cmd \in Commands, kind \in Kinds, data \in Files :
       /\ kind # "OK" => data = << >>
       /\ request' = [cmd |-> cmd, kind |-> kind, data |-> data]
  /\ server' = "open"
  /\ writes' = Writes(request')
  /\ wire' = << >> /\ ready' = << >>
  /\ c' = [Idle EXCEPT !.pc = "status"]
  /\ before' = file
  /\ mishaps' = {}
  /\ UNCHANGED <<buf, file>>

(* tcp_sender_send *)
Write ==
  /\ server = "open" /\ writes # << >>
  /\ wire' = wire \o Head(writes)
  /\ writes' = Tail(writes)
  /\ UNCHANGED <<request, server, ready, buf, c, file, before, mishaps>>

(* A fault of Finish: the socket is closed and not shut down; the listener, *)
(* which accepted it, still has it open, and the connection stays.          *)
Finish_NotShut ==
  /\ server = "open" /\ writes = << >>
  /\ server' = "gone"
  /\ UNCHANGED <<request, writes, wire, ready, buf, c, file, before, mishaps>>

(* tcp_sender_fini: shutdown and close. *)
Finish ==
  /\ server = "open" /\ writes = << >>
  /\ server' = "closed"
  /\ UNCHANGED <<request, writes, wire, ready, buf, c, file, before, mishaps>>

(* SIGINT: sig_exit_subtcp_impl shuts the connection down.  A handler that  *)
(* is killed otherwise leaves it open, see Finish_NotShut.                  *)
Die ==
  /\ CanDie
  /\ server = "open"
  /\ server' \in {"closed", "gone"}
  /\ writes' = << >>
  /\ mishaps' = mishaps \union {IF server' = "gone" THEN "killed" ELSE "interrupted"}
  /\ UNCHANGED <<request, wire, ready, buf, c, file, before>>

(* TCP delivers any part of what was written. *)
Deliver ==
  /\ \E k \in 1..Len(wire) :
       /\ ready' = ready \o SubSeq(wire, 1, k)
       /\ wire' = SubSeq(wire, k + 1, Len(wire))
  /\ UNCHANGED <<request, server, writes, buf, c, file, before, mishaps>>

EOF == server = "closed" /\ wire = << >> /\ ready = << >>

----------------------------------------------------------------------------
(* The client reads *)

(* tcp_sender_recv_all: reads until the limit is reached or until, for one  *)
(* microsecond, nothing more is there, which is what "finished" says.  At   *)
(* the end of the connection it reads nothing, for ever.                    *)
Received(limit) == IF Len(ready) < limit THEN Len(ready) ELSE limit
finished(limit) == Len(ready) <= limit

Filled(at, k) == [i \in 0..Big |-> IF i \in at..(at + k - 1) THEN ready[i - at + 1] ELSE buf[i]]
Text(b, from, to) == [k \in 1..(to - from) |-> b[from + k - 1]]

RecvAll(limit) ==
  /\ ready # << >>
  /\ ready' = SubSeq(ready, Received(limit) + 1, Len(ready))
  /\ UNCHANGED <<request, server, writes, wire, before>>

(* History: too little was there for the first read. *)
IsCut(k) ==
  \/ k < Len(Status(request.cmd))
  \/ request.kind = "NOK" /\ k < Len(Nok)
  \/ request.kind = "OK" /\ request.cmd = "STA" /\ k < Lim

Result(tok) == [Idle EXCEPT !.result = tok]

(* big_buffer[sz] = 0; the fault: it is left out. *)
Ended_Not(b, k) == b
Ended(b, k) == [b EXCEPT ![k] = NUL]

(* scoreboard_impl, hint_impl and state_impl, up to the call of get_file.   *)
(* state_impl goes on behind the limit, the others behind what they read.   *)
ReadStatus ==
  /\ c.pc = "status"
  /\ RecvAll(Lim)
  /\ LET k  == Received(Lim)
         st == Status(request.cmd)
         b  == Ended(Filled(0, k), k)
     IN /\ buf' = b
        /\ mishaps' = IF IsCut(k) THEN mishaps \union {"cut"} ELSE mishaps
        /\ \/ /\ Text(b, 0, 4) = Append(Nok, NUL)
              /\ c' = Result(IF finished(Lim) THEN "no file" ELSE "failed")
           \/ /\ Text(b, 0, Len(st)) = st
              /\ c' = [Idle EXCEPT !.pc = "header", !.whence = IF request.cmd = "STA" THEN Lim ELSE k]
           \/ /\ Text(b, 0, 4) # Append(Nok, NUL) /\ Text(b, 0, Len(st)) # st
              /\ c' = Result("failed")
  /\ UNCHANGED file

(* BufTokenizeOpt: where the token ends, and where the next one begins. *)
EndOf(b, from) == CHOOSE i \in from..Big :
  b[i] \in {SP, NUL} /\ \A j \in from..(i - 1) : b[j] \notin {SP, NUL}
NextAt(b, end) == IF b[end] = SP THEN end + 1 ELSE end

(* A fault of Block: a pause is the end. *)
Block_NoDelay(d, fin) ==
  IF fin /\ d.cur = d.full + 1 THEN [d EXCEPT !.pc = "eof"]
  ELSE IF fin THEN Result("failed")
  ELSE [d EXCEPT !.pc = "write"]

(* What a block read by get_file leads to: n characters from "from" on.     *)
(* cur_sz is a size_t: when the header is not all there and the buffer holds*)
(* old text behind it, next may be behind what was read, and it is huge.    *)
Block(d, fin) ==
  LET more == d.cur >= 0 /\ d.cur < d.full + 1 IN
    IF fin /\ more THEN [d EXCEPT !.pc = "delay"]
    ELSE IF fin /\ d.cur = d.full + 1 THEN [d EXCEPT !.pc = "eof"]
    ELSE IF fin THEN Result("failed")
    ELSE [d EXCEPT !.pc = "write"]

(* The room for the first block; the fault: what was read is not subtracted.*)
Room_Whole == Big
Room == Big - c.whence

(* get_file: the first block, with the header.  The buffer is not cleared,  *)
(* nor ended behind what was read.                                          *)
ReadHeader ==
  /\ c.pc = "header"
  /\ RecvAll(Room)
  /\ LET k    == Received(Room)
         b    == Filled(c.whence, k)
         end1 == EndOf(b, Len(Status(request.cmd)))
         end2 == EndOf(b, NextAt(b, end1))
         next == NextAt(b, end2)
         name == Text(b, Len(Status(request.cmd)), end1)
         tok  == Text(b, NextAt(b, end1), end2)
         cur  == c.whence + k - next
     IN /\ buf' = [b EXCEPT ![end1] = NUL, ![end2] = NUL]
        /\ mishaps' = IF c.whence + k < Len(Header(request)) THEN mishaps \union {"cut"} ELSE mishaps
        /\ c' = IF name = << >> \/ Range(tok) \ Digits # {} THEN Result("failed")
                ELSE Block([c EXCEPT !.from = next, !.n = cur, !.cur = cur, !.full = number(tok),
                                     !.right = (name = Name)], finished(Room))
  /\ UNCHANGED file

(* The loop of get_file: a further block. *)
ReadMore ==
  /\ c.pc = "more"
  /\ RecvAll(Big)
  /\ LET k == Received(Big) IN
       /\ buf' = Filled(0, k)
       /\ c' = Block([c EXCEPT !.whence = 0, !.from = 0, !.n = k, !.cur = @ + k], finished(Big))
  /\ UNCHANGED <<file, mishaps>>

(* tcp_sender_delay: two seconds for more to come. *)
Delay ==
  /\ c.pc = "delay"
  /\ \/ ready # << >> /\ c' = [c EXCEPT !.pc = "write"] /\ UNCHANGED mishaps
     \/ EOF /\ c' = Result("failed") /\ UNCHANGED mishaps
     \/ /\ ready = << >>
        /\ c' = Result("failed")
        /\ mishaps' = mishaps \union {"slow"}
  /\ UNCHANGED <<request, net, buf, file, before>>

(* write(2), at the position of the file that open and the writes before    *)
(* left; O_TRUNC is not given.                                              *)
Over(old, pos, text) ==
  [k \in 1..(IF Len(old) < pos + Len(text) THEN pos + Len(text) ELSE Len(old)) |->
     IF k \in (pos + 1)..(pos + Len(text)) THEN text[k - pos] ELSE old[k]]
Save(n) ==
  file' = IF c.right THEN Over(file, c.pos, Text(buf, c.from, c.from + n)) ELSE file

(* A block that was not taken for the last one. *)
WriteBlock ==
  /\ c.pc = "write"
  /\ Save(c.n)
  /\ c' = IF c.cur = c.full + 1 THEN Result("failed")
          ELSE [c EXCEPT !.pc = "more", !.pos = @ + c.n, !.n = 0, !.from = 0]
  /\ UNCHANGED <<request, net, buf, before, mishaps>>

(* The last one: the end of the connection must follow.  A character that   *)
(* comes instead is an error, but not for the first block.  The LF is not   *)
(* written.                                                                 *)
IsLast == c.from + c.n > 0 /\ buf[c.from + c.n - 1] = LF

(* A fault of WriteLast: the LF is written. *)
WriteLast_WithLF ==
  /\ c.pc = "eof"
  /\ EOF
  /\ Save(c.n)
  /\ c' = Result(IF IsLast THEN "saved" ELSE "failed")
  /\ UNCHANGED <<request, net, buf, before, mishaps>>

WriteLast ==
  /\ c.pc = "eof"
  /\ \/ /\ EOF \/ (ready # << >> /\ c.whence > 0)
        /\ Save(c.n - 1)
        /\ c' = Result(IF IsLast THEN "saved" ELSE "failed")
     \/ /\ ready # << >> /\ c.whence = 0
        /\ c' = Result("failed")
        /\ UNCHANGED file
  /\ ready' = IF ready = << >> THEN ready ELSE Tail(ready)
  /\ UNCHANGED <<request, server, writes, wire, buf, before, mishaps>>

Client == ReadStatus \/ ReadHeader \/ ReadMore \/ Delay \/ WriteBlock \/ WriteLast

Next == Ask \/ Write \/ Finish \/ Die \/ Deliver \/ Client

(* Processes that can go on do, and what was written is delivered. *)
Spec == Init /\ [][Next]_vars /\ WF_vars(Write) /\ WF_vars(Finish) /\ WF_vars(Deliver) /\ WF_vars(Client)

----------------------------------------------------------------------------
(* Properties *)

Steps == {"idle", "status", "header", "delay", "eof", "write", "more"}
Results == {"none", "saved", "no file", "failed"}

TypeOK ==
  /\ request \in [cmd : Commands, kind : Kinds, data : Files \union {<< >>}]
  /\ server \in {"open", "closed", "gone"}
  /\ \A k \in DOMAIN writes : writes[k] # << >>
  /\ DOMAIN buf = 0..Big /\ buf[Big] = NUL
  /\ c.pc \in Steps /\ c.result \in Results
  /\ {c.whence, c.from, c.pos, c.full} \subseteq Nat /\ c.n <= Big
  /\ c.pc \in {"delay", "eof"} => c.n >= 0
  /\ mishaps \subseteq {"cut", "slow", "interrupted", "killed"}

(* When the client says that the file was saved, it holds what was sent,    *)
(* wherever the stream was cut, whatever an earlier answer left in          *)
(* big_buffer; what a longer file had behind it stays.  Two mishaps at once *)
(* are excepted: when the header is cut before the space behind the size,   *)
(* that space is taken for data, and when the handler is then interrupted   *)
(* before its last LF, one LF at the end of the file makes up the count.    *)
SavedIsSent ==
  c.result = "saved" /\ ~ {"cut", "interrupted"} \subseteq mishaps =>
    /\ request.kind = "OK"
    /\ file = request.data \o SubSeq(before, Len(request.data) + 1, Len(before))

(* A file that was sent is only refused for a reason: the header came in    *)
(* pieces, two seconds passed, or the handler died.  The data may be cut    *)
(* anywhere and the block that is full may end anywhere.                    *)
FailureHasCause ==
  c.result = "failed" /\ request.kind = "OK" => mishaps # {}

(* The client says that there is no file when, and, if nothing is cut and   *)
(* the question was not STA, whenever the server said so.                   *)
NoFileIsTold ==
  /\ c.result = "no file" => request.kind = "NOK"
  /\ request.kind = "NOK" /\ request.cmd # "STA" /\ mishaps = {} /\ c.result # "none" =>
       c.result = "no file"

(* Every command ends, unless its handler died. *)
FetchEnds ==
  c.pc = "status" ~> (c.pc = "idle" \/ mishaps \intersect {"interrupted", "killed"} # {})
=============================================================================
