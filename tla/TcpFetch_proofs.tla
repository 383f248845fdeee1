-------------------------- MODULE TcpFetch_proofs --------------------------
(***************************************************************************)
(* Proofs about TcpFetch: for any name, any files and any size of the      *)
(* buffer that takes a header, whatever an earlier answer has left in it   *)
(* and wherever the stream is cut.                                         *)
(*                                                                         *)
(* OnWay(r) says where the answer is when the client has read r of its     *)
(* characters.  From there the client's counts are related to the answer:  *)
(* Whole, when the header was read at once, and Partial, when it was cut;  *)
(* then the client waits for too few characters, and never saves what it   *)
(* has.                                                                    *)
(***************************************************************************)
EXTENDS TcpFetch, WellFoundedInduction, TLAPS

(* The provers do not know that these are strings. *)
Chars == STRING \union {NUL, SP, LF, "0", "1", "R", "N", "A", "O", "S", "E"}

(* What the handler sends when nothing goes wrong. *)
Stream(req) ==
  CASE req.kind = "NOK" -> NoFile(req.cmd)
    [] req.kind = "ERR" -> Error
    [] OTHER -> Answer(req)

Asked == [cmd : Commands, kind : Kinds, data : Files]

Died == mishaps \intersect {"interrupted", "killed"} # {}

(* The client has read r characters of S; those after them are ready or on *)
(* the wire.                                                               *)
InPlace(S, r) ==
  /\ r + Len(ready) + Len(wire) <= Len(S)
  /\ \A i \in 1..Len(ready) : ready[i] = S[r + i]
  /\ \A i \in 1..Len(wire) : wire[i] = S[r + Len(ready) + i]

(* Of S, w characters were written; the others still will be, unless the   *)
(* handler died.                                                           *)
ToWrite(S, w) ==
  /\ \/ writes = << >> /\ (w = Len(S) \/ Died)
     \/ writes = Writes(request) /\ server = "open" /\ w = 0
     \/ writes = << <<LF>> >> /\ server = "open" /\ w = Len(S) - 1 /\ request.kind = "OK"
  /\ server = "open" => ~ Died
  /\ server = "closed" => w = Len(S) \/ "interrupted" \in mishaps

OnWay(r) ==
  /\ InPlace(Stream(request), r)
  /\ ToWrite(Stream(request), r + Len(ready) + Len(wire))

(* The command was entered. *)
AtStatus(r) ==
  /\ r = 0
  /\ c = [Idle EXCEPT !.pc = "status"]
  /\ file = before
  /\ "cut" \notin mishaps

(* The status was read, and perhaps a little more; state_impl goes on      *)
(* behind the limit also when less was read.                               *)
AtHeader(r) ==
  /\ request.kind = "OK"
  /\ c.whence \in 1..Lim
  /\ c = [Idle EXCEPT !.pc = "header", !.whence = c.whence]
  /\ file = before
  /\ \/ /\ "cut" \notin mishaps
        /\ r = c.whence /\ Len(Status(request.cmd)) <= r
        /\ \A i \in 1..r : buf[i - 1] = Answer(request)[i]
     \/ /\ "cut" \in mishaps
        /\ request.cmd = "STA" /\ c.whence = Lim /\ buf[Lim - 1] = NUL
        /\ r = Lim - 1

(* The first pos characters of what was sent have been saved. *)
Kept ==
  /\ file \in Seq(Chars)
  /\ Len(file) = IF Len(before) < c.pos THEN c.pos ELSE Len(before)
  /\ \A k \in 1..Len(file) :
       file[k] = IF k <= c.pos THEN Answer(request)[Len(Header(request)) + k] ELSE before[k]

(* The header was read at once. *)
Whole(r) ==
  /\ "cut" \notin mishaps
  /\ request.kind = "OK" /\ c.right
  /\ c.full = Len(request.data)
  /\ c.cur = c.pos + c.n
  /\ r = Len(Header(request)) + c.cur
  /\ Kept
  /\ \A i \in 1..c.n : buf[c.from + i - 1] = Answer(request)[Len(Header(request)) + c.pos + i]
  /\ IF c.pc = "eof" THEN c.cur = c.full + 1 /\ c.n > 0 ELSE c.cur <= c.full
  /\ c.pc = "more" => c.n = 0

(* It was cut: after t characters the client believes that the next full + *)
(* 1 are the data, but more will come.                                     *)
Partial(r) ==
  /\ "cut" \in mishaps
  /\ request.kind = "OK"
  /\ \E t \in Nat : r = t + c.cur /\ t + c.full + 1 < Len(Answer(request))
  /\ c.pc = "eof" => c.cur = c.full + 1 /\ c.whence = 0

At(r) ==
  CASE c.pc = "status" -> AtStatus(r)
    [] c.pc = "header" -> AtHeader(r)
    [] OTHER -> Whole(r) \/ Partial(r)

(* The variables of the client, and the types of what is sent. *)
Variables ==
  [pc : Steps, whence : Nat, from : Nat, n : Nat, cur : Nat, full : Nat,
   pos : Nat, right : BOOLEAN, result : Results]

Types ==
  /\ TypeOK
  /\ c \in Variables
  /\ c.from + c.n <= Big
  /\ writes \in Seq(Seq(Chars)) /\ wire \in Seq(Chars) /\ ready \in Seq(Chars)
  /\ before \in OldFiles
  /\ c.pc # "idle" => request \in Asked /\ c.result = "none"
  /\ c = Idle => file = before

Progress == c.pc # "idle" => \E r \in Nat : OnWay(r) /\ At(r)

Inv == Types /\ Progress /\ SavedIsSent /\ FailureHasCause /\ NoFileIsTold

----------------------------------------------------------------------------
(* Sequences *)

(* What a concatenation holds. *)
LEMMA ConcatIs ==
  ASSUME NEW s \in Seq(Chars), NEW t \in Seq(Chars)
  PROVE  /\ s \o t \in Seq(Chars)
         /\ Len(s \o t) = Len(s) + Len(t)
         /\ \A i \in 1..Len(s) : (s \o t)[i] = s[i]
         /\ \A i \in 1..Len(t) : (s \o t)[Len(s) + i] = t[i]
OBVIOUS

(* One more character. *)
LEMMA OneMore ==
  ASSUME NEW s \in Seq(Chars), NEW x \in Chars
  PROVE  /\ s \o <<x>> \in Seq(Chars)
         /\ Len(s \o <<x>>) = Len(s) + 1
         /\ \A i \in 1..Len(s) : (s \o <<x>>)[i] = s[i]
         /\ (s \o <<x>>)[Len(s) + 1] = x
OBVIOUS

(* Short sequences. *)
LEMMA TwoChars ==
  ASSUME NEW x \in Chars, NEW y \in Chars
  PROVE  /\ <<x, y>> \in Seq(Chars) /\ Len(<<x, y>>) = 2
         /\ <<x, y>>[1] = x /\ <<x, y>>[2] = y
         /\ \A i \in 1..Len(<<x, y>>) : <<x, y>>[i] \in {x, y}
OBVIOUS

(* Short sequences. *)
LEMMA ThreeChars ==
  ASSUME NEW x \in Chars, NEW y \in Chars, NEW z \in Chars
  PROVE  /\ <<x, y, z>> \in Seq(Chars) /\ Len(<<x, y, z>>) = 3
         /\ <<x, y, z>>[1] = x /\ <<x, y, z>>[2] = y /\ <<x, y, z>>[3] = z
         /\ \A i \in 1..Len(<<x, y, z>>) : <<x, y, z>>[i] \in {x, y, z}
OBVIOUS

(* A sequence of members of a set is one of members of a larger set. *)
LEMMA SeqOfLarger ==
  ASSUME NEW S, NEW T, S \subseteq T, NEW s \in Seq(S)
  PROVE  s \in Seq(T)
<1>1. \A i \in 1..Len(s) : s[i] \in T
  OBVIOUS
<1>2. s = [i \in 1..Len(s) |-> s[i]] /\ Len(s) \in Nat
  OBVIOUS
<1> QED BY <1>1, <1>2

(* Functions from an interval that starts with one are sequences. *)
LEMMA IntervalIsSeq ==
  ASSUME NEW n \in Nat, NEW f, f = [i \in 1..n |-> f[i]], \A i \in 1..n : f[i] \in Chars
  PROVE  f \in Seq(Chars) /\ Len(f) = n
OBVIOUS

(* Sequences with the same elements are the same. *)
LEMMA SameSeq ==
  ASSUME NEW s \in Seq(Chars), NEW t \in Seq(Chars), Len(s) = Len(t), \A i \in 1..Len(s) : s[i] = t[i]
  PROVE  s = t
OBVIOUS

(* What a part of a sequence holds. *)
LEMMA SubSeqIs ==
  ASSUME NEW s \in Seq(Chars), NEW m \in 1..(Len(s) + 1), NEW n \in (m - 1)..Len(s)
  PROVE  /\ SubSeq(s, m, n) \in Seq(Chars)
         /\ Len(SubSeq(s, m, n)) = n - m + 1
         /\ \A i \in 1..(n - m + 1) : SubSeq(s, m, n)[i] = s[m + i - 1]
OBVIOUS

(* The end of a sequence. *)
LEMMA SubSeqEnd ==
  ASSUME NEW s \in Seq(Chars), NEW k \in 0..Len(s)
  PROVE  /\ SubSeq(s, k + 1, Len(s)) \in Seq(Chars)
         /\ Len(SubSeq(s, k + 1, Len(s))) = Len(s) - k
         /\ \A i \in 1..(Len(s) - k) : SubSeq(s, k + 1, Len(s))[i] = s[k + i]
OBVIOUS

----------------------------------------------------------------------------
(* What is sent *)

(* The characters of the protocol and of the files. *)
LEMMA CharsAre ==
  /\ {NUL, SP, LF, "R", "N", "A", "O", "S", "E"} \union Digits \subseteq Chars
  /\ Name \in Seq(Chars) /\ Len(Name) \in Nat \ {0}
  /\ \A i \in 1..Len(Name) : Name[i] \notin {NUL, SP, LF}
  /\ \A data \in Files : data \in Seq(Chars) /\ \A i \in 1..Len(data) : data[i] # NUL
  /\ \A old \in OldFiles : old \in Seq(Chars)
<1>1. STRING \subseteq Chars
  BY DEF Chars
<1>2. \A s \in Seq(STRING) : s \in Seq(Chars)
  BY <1>1, SeqOfLarger
<1>3. {NUL, SP, LF, "R", "N", "A", "O", "S", "E"} \union Digits \subseteq Chars
  BY DEF Chars, Digits
<1>4. \A s \in Seq(Chars) : DOMAIN s = 1..Len(s) /\ Len(s) \in Nat /\ (s # << >> => Len(s) \in Nat \ {0})
  OBVIOUS
<1> QED BY <1>2, <1>3, <1>4, TcpFetchAssumption

(* The size of a file, in digits. *)
Size(req) == printed[Len(req.data)]

(* A size has digits only, and it is read as it was printed. *)
LEMMA SizeIs ==
  ASSUME NEW req \in Answers
  PROVE  /\ Size(req) \in Seq(Chars) /\ Len(Size(req)) \in Nat \ {0}
         /\ \A i \in 1..Len(Size(req)) : Size(req)[i] \in Digits
         /\ number(Size(req)) = Len(req.data)
         /\ \A k \in 0..Len(Size(req)) : number(SubSeq(Size(req), 1, k)) \in 0..Len(req.data)
<1>1. req.data \in Files
  BY DEF Answers
<1> DEFINE digits == Size(req)
<1>2. /\ digits \in Seq(Digits) /\ digits # << >>
      /\ number(digits) = Len(req.data)
      /\ \A k \in 0..Len(digits) : number(SubSeq(digits, 1, k)) \in 0..Len(req.data)
  BY <1>1, NumbersAssumption DEF Size
<1> HIDE DEF digits
<1>3. Digits \subseteq Chars
  BY CharsAre
<1>4. /\ digits \in Seq(Chars) /\ Len(digits) \in Nat \ {0}
      /\ \A i \in 1..Len(digits) : digits[i] \in Digits
  BY <1>2, <1>3
<1> QED BY <1>2, <1>4 DEF digits

(* Characters that differ. *)
LEMMA CharsDiffer ==
  /\ \A x \in {SP, LF, "R", "N", "A", "O", "S", "E"} \union Digits : x # NUL
  /\ "O" # "R" /\ "O" # "S" /\ "O" # "E" /\ "R" # "S" /\ "R" # "E" /\ "A" # "N" /\ SP # "N"
  /\ SP \notin Digits /\ SP # LF
BY DEF NUL, SP, LF, Digits

(* The status has two or three characters, and no NUL. *)
LEMMA StatusIs ==
  ASSUME NEW cmd \in Commands
  PROVE  LET s == Status(cmd)
         IN /\ s \in Seq(Chars) /\ Len(s) \in 2..3
            /\ \A i \in 1..Len(s) : s[i] # NUL
            /\ cmd = "STA" => Len(s) = 3 /\ s[1] = "R" /\ s[2] = "A" /\ s[3] = SP
            /\ cmd # "STA" => Len(s) = 2 /\ s[1] = "O" /\ s[2] = SP
<1> DEFINE s == Status(cmd)
<1>1. "O" \in Chars /\ "R" \in Chars /\ "A" \in Chars /\ SP \in Chars
  BY CharsAre
<1>2. "O" # NUL /\ "R" # NUL /\ "A" # NUL /\ SP # NUL
  BY CharsDiffer
<1>3. CASE cmd = "STA"
  <2>1. s = <<"R", "A", SP>>
    BY <1>3 DEF Status
  <2> HIDE DEF s
  <2>2. /\ s \in Seq(Chars) /\ Len(s) = 3 /\ s[1] = "R" /\ s[2] = "A" /\ s[3] = SP
        /\ \A i \in 1..Len(s) : s[i] \in {"R", "A", SP}
    BY <1>1, <2>1, ThreeChars, Zenon
  <2>3. \A i \in 1..Len(s) : s[i] # NUL
    BY <1>2, <2>2
  <2> QED BY <1>3, <2>2, <2>3 DEF s
<1>4. CASE cmd # "STA"
  <2>1. s = <<"O", SP>>
    BY <1>4 DEF Status
  <2> HIDE DEF s
  <2>2. /\ s \in Seq(Chars) /\ Len(s) = 2 /\ s[1] = "O" /\ s[2] = SP
        /\ \A i \in 1..Len(s) : s[i] \in {"O", SP}
    BY <1>1, <2>1, TwoChars, Zenon
  <2>3. \A i \in 1..Len(s) : s[i] # NUL
    BY <1>2, <2>2
  <2> QED BY <1>4, <2>2, <2>3 DEF s
<1> QED BY <1>3, <1>4

(* The parts of a header. *)
LEMMA HeaderIs ==
  ASSUME NEW req \in Answers
  PROVE  LET ls == Len(Status(req.cmd))
             ln == Len(Name)
             ld == Len(Size(req))
             h  == Len(Header(req))
         IN /\ Header(req) \in Seq(Chars) /\ h = ls + ln + ld + 2 /\ h <= Big
            /\ \A i \in 1..ls : Header(req)[i] = Status(req.cmd)[i]
            /\ \A i \in 1..ln : Header(req)[ls + i] = Name[i]
            /\ Header(req)[ls + ln + 1] = SP
            /\ \A i \in 1..ld : Header(req)[ls + ln + 1 + i] = Size(req)[i]
            /\ Header(req)[h] = SP
<1> DEFINE s1 == Status(req.cmd)
           s4 == Size(req)
           t1 == s1 \o Name
           t2 == t1 \o <<SP>>
           t3 == t2 \o s4
           t4 == t3 \o <<SP>>
<1>1. s1 \in Seq(Chars) /\ Name \in Seq(Chars) /\ SP \in Chars /\ s4 \in Seq(Chars)
  BY StatusIs, SizeIs, CharsAre DEF Answers
<1>2. Header(req) = t4
  BY DEF Header, Size
<1>3. Len(Header(req)) <= Big
  BY HeaderAssumption
<1> HIDE DEF s1, s4
<1>4. /\ t1 \in Seq(Chars) /\ Len(t1) = Len(s1) + Len(Name)
      /\ \A i \in 1..Len(s1) : t1[i] = s1[i]
      /\ \A i \in 1..Len(Name) : t1[Len(s1) + i] = Name[i]
  BY <1>1, ConcatIs
<1> HIDE DEF t1
<1>5. /\ t2 \in Seq(Chars) /\ Len(t2) = Len(t1) + 1
      /\ \A i \in 1..Len(t1) : t2[i] = t1[i]
      /\ t2[Len(t1) + 1] = SP
  BY <1>1, <1>4, OneMore
<1> HIDE DEF t2
<1>6. /\ t3 \in Seq(Chars) /\ Len(t3) = Len(t2) + Len(s4)
      /\ \A i \in 1..Len(t2) : t3[i] = t2[i]
      /\ \A i \in 1..Len(s4) : t3[Len(t2) + i] = s4[i]
  BY <1>1, <1>5, ConcatIs
<1> HIDE DEF t3
<1>7. /\ t4 \in Seq(Chars) /\ Len(t4) = Len(t3) + 1
      /\ \A i \in 1..Len(t3) : t4[i] = t3[i]
      /\ t4[Len(t3) + 1] = SP
  BY <1>1, <1>6, OneMore
<1> HIDE DEF t4
<1>8. Len(s1) \in Nat /\ Len(Name) \in Nat /\ Len(s4) \in Nat
  BY <1>1
<1>9. /\ Len(t1) = Len(s1) + Len(Name) /\ Len(t2) = Len(s1) + Len(Name) + 1
       /\ Len(t3) = Len(s1) + Len(Name) + 1 + Len(s4) /\ Len(t4) = Len(s1) + Len(Name) + Len(s4) + 2
  BY <1>4, <1>5, <1>6, <1>7, <1>8
<1>10. \A i \in 1..Len(s1) : t4[i] = s1[i]
  <2> TAKE i \in 1..Len(s1)
  <2>1. i \in 1..Len(t1) /\ i \in 1..Len(t2) /\ i \in 1..Len(t3)
    BY <1>8, <1>9
  <2> QED BY <2>1, <1>4, <1>5, <1>6, <1>7
<1>11. \A i \in 1..Len(Name) : t4[Len(s1) + i] = Name[i]
  <2> TAKE i \in 1..Len(Name)
  <2>1. Len(s1) + i \in 1..Len(t1) /\ Len(s1) + i \in 1..Len(t2) /\ Len(s1) + i \in 1..Len(t3)
    BY <1>8, <1>9
  <2> QED BY <2>1, <1>4, <1>5, <1>6, <1>7
<1>12. t4[Len(s1) + Len(Name) + 1] = SP
  <2>1. Len(t1) + 1 \in 1..Len(t2) /\ Len(t1) + 1 \in 1..Len(t3)
    BY <1>8, <1>9
  <2> QED BY <2>1, <1>9, <1>5, <1>6, <1>7
<1>13. \A i \in 1..Len(s4) : t4[Len(s1) + Len(Name) + 1 + i] = s4[i]
  <2> TAKE i \in 1..Len(s4)
  <2>1. Len(t2) + i \in 1..Len(t3)
    BY <1>8, <1>9
  <2> QED BY <2>1, <1>9, <1>6, <1>7
<1>14. t4[Len(t4)] = SP
  BY <1>7
<1> QED BY <1>2, <1>3, <1>7, <1>9, <1>10, <1>11, <1>12, <1>13, <1>14 DEF s1, s4

(* An answer is a header, the file and a line feed. *)
LEMMA AnswerIs ==
  ASSUME NEW req \in Answers
  PROVE  LET h == Len(Header(req))
         IN /\ req.data \in Seq(Chars) /\ Answer(req) \in Seq(Chars)
            /\ Len(Answer(req)) = h + Len(req.data) + 1
            /\ \A i \in 1..h : Answer(req)[i] = Header(req)[i]
            /\ \A i \in 1..Len(req.data) : Answer(req)[h + i] = req.data[i]
            /\ Answer(req)[Len(Answer(req))] = LF
<1> DEFINE t1 == Header(req) \o req.data
           t2 == t1 \o <<LF>>
<1>1. Header(req) \in Seq(Chars) /\ req.data \in Seq(Chars) /\ LF \in Chars
  BY HeaderIs, CharsAre DEF Answers
<1>2. Answer(req) = t2
  BY DEF Answer
<1>3. /\ t1 \in Seq(Chars) /\ Len(t1) = Len(Header(req)) + Len(req.data)
      /\ \A i \in 1..Len(Header(req)) : t1[i] = Header(req)[i]
      /\ \A i \in 1..Len(req.data) : t1[Len(Header(req)) + i] = req.data[i]
  BY <1>1, ConcatIs
<1> HIDE DEF t1
<1>4. /\ t2 \in Seq(Chars) /\ Len(t2) = Len(t1) + 1
      /\ \A i \in 1..Len(t1) : t2[i] = t1[i]
      /\ t2[Len(t1) + 1] = LF
  BY <1>1, <1>3, OneMore
<1> HIDE DEF t2
<1>5. Len(Header(req)) \in Nat /\ Len(req.data) \in Nat
  BY <1>1
<1>6. \A i \in 1..Len(Header(req)) : i \in 1..Len(t1)
  BY <1>3, <1>5
<1>7. \A i \in 1..Len(req.data) : Len(Header(req)) + i \in 1..Len(t1)
  BY <1>3, <1>5
<1> QED BY <1>1, <1>2, <1>3, <1>4, <1>6, <1>7

(* The parts of an answer; none of its characters is a NUL. *)
LEMMA AnswerParts ==
  ASSUME NEW req \in Answers
  PROVE  LET ls == Len(Status(req.cmd))
             ln == Len(Name)
             ld == Len(Size(req))
             h  == Len(Header(req))
             S  == Answer(req)
         IN /\ ls \in 2..3 /\ ln \in Nat \ {0} /\ ld \in Nat \ {0} /\ h = ls + ln + ld + 2 /\ h <= Big
            /\ S \in Seq(Chars) /\ Len(S) = h + Len(req.data) + 1
            /\ Len(S) \in Nat /\ Len(req.data) \in Nat /\ h \in Nat
            /\ \A i \in 1..ls : S[i] = Status(req.cmd)[i]
            /\ \A i \in 1..ln : S[ls + i] = Name[i] /\ S[ls + i] \notin {SP, NUL}
            /\ S[ls + ln + 1] = SP
            /\ \A i \in 1..ld : S[ls + ln + 1 + i] = Size(req)[i] /\ S[ls + ln + 1 + i] \in Digits
            /\ S[h] = SP
            /\ \A i \in 1..Len(req.data) : S[h + i] = req.data[i]
            /\ S[Len(S)] = LF
            /\ \A i \in 1..Len(S) : S[i] # NUL
<1> DEFINE ls == Len(Status(req.cmd))
           ln == Len(Name)
           ld == Len(Size(req))
           h  == Len(Header(req))
           n  == Len(req.data)
           S  == Answer(req)
<1>1. /\ Header(req) \in Seq(Chars) /\ h = ls + ln + ld + 2 /\ h <= Big
      /\ \A i \in 1..ls : Header(req)[i] = Status(req.cmd)[i]
      /\ \A i \in 1..ln : Header(req)[ls + i] = Name[i]
      /\ Header(req)[ls + ln + 1] = SP
      /\ \A i \in 1..ld : Header(req)[ls + ln + 1 + i] = Size(req)[i]
      /\ Header(req)[h] = SP
  BY HeaderIs
<1>2. /\ req.data \in Seq(Chars) /\ S \in Seq(Chars) /\ Len(S) = h + n + 1
      /\ \A i \in 1..h : S[i] = Header(req)[i]
      /\ \A i \in 1..n : S[h + i] = req.data[i]
      /\ S[Len(S)] = LF
  BY AnswerIs
<1>3. /\ ls \in 2..3 /\ ln \in Nat \ {0} /\ ld \in Nat \ {0}
      /\ \A i \in 1..ls : Status(req.cmd)[i] # NUL
      /\ \A i \in 1..ln : Name[i] \notin {NUL, SP, LF}
      /\ \A i \in 1..ld : Size(req)[i] \in Digits
      /\ \A i \in 1..n : req.data[i] # NUL
  BY StatusIs, SizeIs, CharsAre DEF Answers
<1>4. h \in Nat /\ n \in Nat /\ Len(S) \in Nat
  <2>1. \A s \in Seq(Chars) : Len(s) \in Nat
    OBVIOUS
  <2> QED BY <1>1, <1>2, <2>1
<1> HIDE DEF ls, ln, ld, h, n, S
<1>5. \A i \in 1..ls : S[i] = Status(req.cmd)[i]
  <2> TAKE i \in 1..ls
  <2>1. i \in 1..h
    BY <1>1, <1>3
  <2> QED BY <1>1, <1>2, <2>1
<1>6. \A i \in 1..ln : S[ls + i] = Name[i] /\ S[ls + i] \notin {SP, NUL}
  <2> TAKE i \in 1..ln
  <2>1. ls + i \in 1..h
    BY <1>1, <1>3
  <2> QED BY <1>1, <1>2, <1>3, <2>1
<1>7. S[ls + ln + 1] = SP
  <2>1. ls + ln + 1 \in 1..h
    BY <1>1, <1>3
  <2> QED BY <1>1, <1>2, <2>1
<1>8. \A i \in 1..ld : S[ls + ln + 1 + i] = Size(req)[i] /\ S[ls + ln + 1 + i] \in Digits
  <2> TAKE i \in 1..ld
  <2>1. ls + ln + 1 + i \in 1..h
    BY <1>1, <1>3
  <2> QED BY <1>1, <1>2, <1>3, <2>1
<1>9. S[h] = SP
  <2>1. h \in 1..h
    BY <1>1, <1>3
  <2> QED BY <1>1, <1>2, <2>1
<1>10. \A i \in 1..Len(S) : S[i] # NUL
  <2> TAKE i \in 1..Len(S)
  <2>1. SP # NUL /\ LF # NUL /\ \A d \in Digits : d # NUL
    BY DEF SP, LF, NUL, Digits
  <2>2. CASE i \in 1..ls
    BY <1>3, <1>5, <2>2
  <2>3. CASE i - ls \in 1..ln
    <3>1. i = ls + (i - ls)
      BY <1>3
    <3> QED BY <1>6, <2>3, <3>1
  <2>4. CASE i = ls + ln + 1
    BY <1>7, <2>1, <2>4
  <2>5. CASE i - (ls + ln + 1) \in 1..ld
    <3>1. i = ls + ln + 1 + (i - (ls + ln + 1))
      BY <1>3
    <3> QED BY <1>8, <2>1, <2>5, <3>1
  <2>6. CASE i = h
    BY <1>9, <2>1, <2>6
  <2>7. CASE i - h \in 1..n
    <3>1. i = h + (i - h)
      BY <1>4
    <3> QED BY <1>2, <1>3, <2>7, <3>1
  <2>8. CASE i = Len(S)
    BY <1>2, <2>1, <2>8
  <2>9. i \in 1..ls \/ i - ls \in 1..ln \/ i = ls + ln + 1 \/ i - (ls + ln + 1) \in 1..ld \/ i = h
        \/ i - h \in 1..n \/ i = Len(S)
    BY <1>1, <1>2, <1>3, <1>4
  <2> QED BY <2>2, <2>3, <2>4, <2>5, <2>6, <2>7, <2>8, <2>9
<1> QED BY <1>1, <1>2, <1>3, <1>4, <1>5, <1>6, <1>7, <1>8, <1>9, <1>10 DEF ls, ln, ld, h, n, S

(* Answers without a file cannot be taken for one that has it, nor one that*)
(* has it for "no file".                                                   *)
LEMMA StreamIs ==
  ASSUME NEW req \in Asked
  PROVE  LET S == Stream(req)
         IN /\ S \in Seq(Chars) /\ Len(S) \in Nat \ {0}
            /\ \A i \in 1..Len(S) : S[i] # NUL
            /\ req.kind = "OK" => req \in Answers /\ S = Answer(req)
            /\ req.kind = "NOK" /\ req.cmd # "STA" => S = Nok
            /\ req.kind # "OK" => S[1] # Status(req.cmd)[1]
            /\ req.kind # "NOK" => Len(S) < 3 \/ S[1] # "R" \/ S[2] # "N"
<1> DEFINE S == Stream(req)
<1>1. req.cmd \in Commands /\ req.kind \in Kinds
  BY DEF Asked
<1>2. "E" \in Chars /\ "R" \in Chars /\ "N" \in Chars /\ "S" \in Chars /\ LF \in Chars
  BY CharsAre
<1>3. "E" # NUL /\ "R" # NUL /\ "N" # NUL /\ "S" # NUL /\ LF # NUL
  BY CharsDiffer
<1>4. Status(req.cmd)[1] \in {"R", "O"} /\ (Status(req.cmd)[1] = "R" => req.cmd = "STA")
  BY <1>1, StatusIs, CharsDiffer
<1>5. CASE req.kind = "OK"
  <2>1. S = Answer(req) /\ req \in Answers
    BY <1>5 DEF Stream, Asked, Answers
  <2>2. /\ S \in Seq(Chars) /\ Len(S) \in Nat \ {0} /\ \A i \in 1..Len(S) : S[i] # NUL
        /\ S[1] = Status(req.cmd)[1] /\ S[2] = Status(req.cmd)[2]
    <3>1. 1 \in 1..Len(Status(req.cmd)) /\ 2 \in 1..Len(Status(req.cmd))
      BY <1>1, StatusIs
    <3> QED BY <2>1, <3>1, AnswerParts
  <2>3. S[1] # "R" \/ S[2] # "N"
    BY <1>1, <2>2, StatusIs, CharsDiffer
  <2> HIDE DEF S
  <2> QED BY <1>5, <2>1, <2>2, <2>3 DEF S
<1>6. CASE req.kind = "NOK" /\ req.cmd = "STA"
  <2>1. S = <<"S", "N", LF>>
    BY <1>6 DEF Stream, NoFile
  <2> HIDE DEF S
  <2>2. /\ S \in Seq(Chars) /\ Len(S) = 3 /\ S[1] = "S"
        /\ \A i \in 1..Len(S) : S[i] \in {"S", "N", LF}
    BY <1>2, <2>1, ThreeChars, Zenon
  <2>3. \A i \in 1..Len(S) : S[i] # NUL
    BY <1>3, <2>2
  <2>4. S[1] # Status(req.cmd)[1]
    BY <1>4, <2>2, CharsDiffer
  <2> QED BY <1>6, <2>2, <2>3, <2>4 DEF S
<1>7. CASE req.kind = "NOK" /\ req.cmd # "STA"
  <2>1. S = Nok
    BY <1>7 DEF Stream, NoFile
  <2>2. S = <<"R", "N", LF>>
    BY <2>1 DEF Nok
  <2> HIDE DEF S
  <2>3. /\ S \in Seq(Chars) /\ Len(S) = 3 /\ S[1] = "R"
        /\ \A i \in 1..Len(S) : S[i] \in {"R", "N", LF}
    BY <1>2, <2>2, ThreeChars, Zenon
  <2>4. \A i \in 1..Len(S) : S[i] # NUL
    BY <1>3, <2>3
  <2>5. S[1] # Status(req.cmd)[1]
    BY <1>4, <1>7, <2>3, CharsDiffer
  <2> QED BY <1>7, <2>1, <2>3, <2>4, <2>5 DEF S
<1>8. CASE req.kind = "ERR"
  <2>1. S = <<"E", LF>>
    BY <1>8 DEF Stream, Error
  <2> HIDE DEF S
  <2>2. /\ S \in Seq(Chars) /\ Len(S) = 2 /\ S[1] = "E"
        /\ \A i \in 1..Len(S) : S[i] \in {"E", LF}
    BY <1>2, <2>1, TwoChars, Zenon
  <2>3. \A i \in 1..Len(S) : S[i] # NUL
    BY <1>3, <2>2
  <2>4. S[1] # Status(req.cmd)[1]
    BY <1>4, <2>2, CharsDiffer
  <2> QED BY <1>8, <2>2, <2>3, <2>4 DEF S
<1> QED BY <1>1, <1>5, <1>6, <1>7, <1>8 DEF Kinds

(* An answer is written at once, or a hint without its last LF first. *)
LEMMA WritesAre ==
  ASSUME NEW req \in Asked
  PROVE  LET S == Stream(req)
         IN /\ Writes(req) \in Seq(Seq(Chars))
            /\ \A k \in DOMAIN Writes(req) : Writes(req)[k] # << >>
            /\ \/ Writes(req) = <<S>>
               \/ /\ req.kind = "OK" /\ Len(S) > 1
                  /\ \E first \in Seq(Chars) :
                       /\ Writes(req) = <<first, <<LF>> >>
                       /\ Len(first) = Len(S) - 1 /\ \A i \in 1..Len(first) : first[i] = S[i]
<1> DEFINE S == Stream(req)
<1>1. S \in Seq(Chars) /\ Len(S) \in Nat \ {0}
  BY StreamIs
<1>2. CASE ~ (req.kind = "OK" /\ req.cmd = "GHL")
  <2>1. Writes(req) = <<S>>
    BY <1>2 DEF Writes, Stream, Asked, Kinds
  <2> HIDE DEF S
  <2>2. S # << >>
    BY <1>1
  <2>3. Writes(req) \in Seq(Seq(Chars)) /\ \A k \in DOMAIN Writes(req) : Writes(req)[k] # << >>
    BY <1>1, <2>1, <2>2
  <2> QED BY <2>1, <2>3 DEF S
<1>3. CASE req.kind = "OK" /\ req.cmd = "GHL"
  <2> DEFINE first == Header(req) \o req.data
  <2>1. Writes(req) = <<first, <<LF>> >>
    BY <1>3 DEF Writes
  <2>2. req \in Answers /\ S = first \o <<LF>>
    BY <1>3 DEF Asked, Answers, Stream, Answer
  <2>3. Header(req) \in Seq(Chars) /\ req.data \in Seq(Chars) /\ LF \in Chars
    BY <2>2, HeaderIs, AnswerIs, CharsAre
  <2>4. first \in Seq(Chars) /\ Len(first) = Len(Header(req)) + Len(req.data)
    BY <2>3, ConcatIs
  <2>5. Len(first) \in Nat \ {0}
    BY <2>2, <2>3, <2>4, AnswerParts
  <2>6. Len(S) = Len(first) + 1 /\ \A i \in 1..Len(first) : S[i] = first[i]
    BY <2>2, <2>3, <2>4, OneMore
  <2> HIDE DEF first, S
  <2>7. <<LF>> \in Seq(Chars) /\ <<LF>> # << >> /\ first # << >>
    BY <2>3, <2>5
  <2>8. Writes(req) \in Seq(Seq(Chars)) /\ \A k \in DOMAIN Writes(req) : Writes(req)[k] # << >>
    <3>1. \A T, x, y : x \in T /\ y \in T /\ x # << >> /\ y # << >> =>
            <<x, y>> \in Seq(T) /\ \A k \in DOMAIN <<x, y>> : <<x, y>>[k] # << >>
      OBVIOUS
    <3> QED BY <2>1, <2>4, <2>7, <3>1
  <2>9. Len(S) > 1 /\ Len(first) = Len(S) - 1 /\ \A i \in 1..Len(first) : first[i] = S[i]
    BY <2>5, <2>6
  <2>10. \E f \in Seq(Chars) : /\ Writes(req) = <<f, <<LF>> >>
                               /\ Len(f) = Len(S) - 1 /\ \A i \in 1..Len(f) : f[i] = S[i]
    BY <2>1, <2>4, <2>9
  <2> QED BY <1>3, <2>8, <2>9, <2>10 DEF S
<1> QED BY <1>2, <1>3

----------------------------------------------------------------------------
(* The connection and the handler *)

(* What the steps of the server and of the network leave alone. *)
NetFrame ==
  /\ UNCHANGED <<request, buf, c, file, before>>
  /\ mishaps \subseteq mishaps' /\ mishaps' \subseteq mishaps \union {"interrupted", "killed"}

(* The types of what is under way. *)
Flow == /\ writes \in Seq(Seq(Chars)) /\ \A k \in DOMAIN writes : writes[k] # << >>
        /\ wire \in Seq(Chars) /\ ready \in Seq(Chars)
        /\ server \in {"open", "closed", "gone"}

(* A write. *)
LEMMA WriteNet ==
  ASSUME Flow, Write
  PROVE  /\ NetFrame /\ Flow'
         /\ request \in Asked => \A r \in Nat : OnWay(r) => OnWay(r)'
<1> USE DEF Flow
<1>1. Head(writes) \in Seq(Chars) /\ Tail(writes) \in Seq(Seq(Chars)) /\ writes # << >>
      /\ \A k \in DOMAIN Tail(writes) : Tail(writes)[k] # << >>
  <2>1. writes # << >> /\ writes \in Seq(Seq(Chars)) /\ \A k \in 1..Len(writes) : writes[k] # << >>
    BY DEF Write
  <2>2. \A T : \A s \in Seq(T) : s # << >> =>
          /\ Head(s) \in T /\ Tail(s) \in Seq(T)
          /\ \A k \in DOMAIN Tail(s) : k + 1 \in 1..Len(s) /\ Tail(s)[k] = s[k + 1]
    OBVIOUS
  <2> QED BY <2>1, <2>2
<1>2. /\ server = "open" /\ server' = server /\ ready' = ready /\ mishaps' = mishaps /\ request' = request
      /\ wire' = wire \o Head(writes) /\ writes' = Tail(writes)
      /\ UNCHANGED <<buf, c, file, before>>
  BY DEF Write
<1>3. NetFrame
  BY <1>2 DEF NetFrame
<1>4. /\ wire' \in Seq(Chars) /\ Len(wire') = Len(wire) + Len(Head(writes))
      /\ \A i \in 1..Len(wire) : wire'[i] = wire[i]
      /\ \A i \in 1..Len(Head(writes)) : wire'[Len(wire) + i] = Head(writes)[i]
  BY <1>1, <1>2, ConcatIs
<1>5. Flow'
  BY <1>1, <1>2, <1>4
<1>6. ASSUME request \in Asked, NEW r \in Nat, OnWay(r) PROVE OnWay(r)'
  <2> DEFINE S == Stream(request)
             w == r + Len(ready) + Len(wire)
  <2>1. S \in Seq(Chars) /\ Len(S) \in Nat /\ S' = S
    BY <1>2, <1>6, StreamIs
  <2>2. Died' <=> Died
    BY <1>2 DEF Died
  <2>3. ~ Died /\ InPlace(S, r) /\ ToWrite(S, w)
    BY <1>2, <1>6 DEF OnWay, ToWrite
  <2> HIDE DEF S
  <2>4. Len(ready) \in Nat /\ Len(wire) \in Nat /\ Len(Head(writes)) \in Nat
    BY <1>1
  <2>5. CASE writes = Writes(request) /\ w = 0
    <3>1. r = 0 /\ Len(ready) = 0 /\ Len(wire) = 0
      BY <2>4, <2>5
    <3>2. CASE writes = <<S>>
      <4>1. Head(writes) = S /\ writes' = << >>
        BY <1>2, <3>2
      <4>2. Len(wire') = Len(S) /\ \A i \in 1..Len(S) : wire'[i] = S[i]
        BY <1>4, <2>1, <3>1, <4>1
      <4>3. InPlace(S, r)'
        BY <1>2, <2>1, <3>1, <4>2 DEF InPlace
      <4>4. ToWrite(S, w)'
        BY <1>2, <2>1, <2>2, <2>3, <3>1, <4>1, <4>2 DEF ToWrite
      <4> QED BY <1>2, <2>1, <4>3, <4>4 DEF OnWay, S
    <3>3. ASSUME request.kind = "OK", Len(S) > 1,
                 NEW first \in Seq(Chars), writes = <<first, <<LF>> >>,
                 Len(first) = Len(S) - 1, \A i \in 1..Len(first) : first[i] = S[i]
          PROVE  OnWay(r)'
      <4>1. Head(writes) = first /\ writes' = << <<LF>> >>
        BY <1>2, <3>3
      <4>2. Len(wire') = Len(S) - 1 /\ \A i \in 1..Len(wire') : wire'[i] = S[i]
        BY <1>4, <2>1, <3>1, <3>3, <4>1
      <4>3. InPlace(S, r)'
        BY <1>2, <2>1, <3>1, <4>2 DEF InPlace
      <4>4. ToWrite(S, w)'
        BY <1>2, <2>1, <2>2, <2>3, <3>1, <3>3, <4>1, <4>2 DEF ToWrite
      <4> QED BY <1>2, <2>1, <4>3, <4>4 DEF OnWay, S
    <3> QED BY <1>6, <2>5, <3>2, <3>3, WritesAre DEF S
  <2>6. CASE writes = << <<LF>> >> /\ w = Len(S) - 1 /\ request.kind = "OK"
    <3>1. Head(writes) = <<LF>> /\ writes' = << >>
      BY <1>2, <2>6
    <3>2. S[Len(S)] = LF
      BY <1>6, <2>6, StreamIs, AnswerParts DEF S
    <3>3. /\ Len(wire') = Len(wire) + 1 /\ wire'[Len(wire) + 1] = LF
          /\ \A i \in 1..Len(wire) : wire'[i] = wire[i]
      <4>1. wire' = wire \o <<LF>> /\ wire \in Seq(Chars) /\ LF \in Chars
        BY <1>2, <3>1, CharsAre
      <4> QED BY <4>1, OneMore
    <3>4. r + Len(ready) + (Len(wire) + 1) = Len(S)
      BY <2>1, <2>4, <2>6
    <3>5. \A i \in 1..(Len(wire) + 1) : wire'[i] = S[r + Len(ready) + i]
      <4> TAKE i \in 1..(Len(wire) + 1)
      <4>1. CASE i \in 1..Len(wire)
        BY <2>3, <3>3, <4>1 DEF InPlace
      <4>2. CASE i = Len(wire) + 1
        BY <2>4, <3>2, <3>3, <3>4, <4>2
      <4> QED BY <2>4, <4>1, <4>2
    <3>6. InPlace(S, r)'
      <4>1. r + Len(ready') + Len(wire') <= Len(S)
        <5>1. r + Len(ready') + Len(wire') = Len(S)
          BY <1>2, <3>3, <3>4
        <5> QED BY <2>1, <5>1
      <4>2. \A i \in 1..Len(ready') : ready'[i] = S[r + i]
        BY <1>2, <2>3 DEF InPlace
      <4>3. \A i \in 1..Len(wire') : wire'[i] = S[r + Len(ready') + i]
        BY <1>2, <3>3, <3>5
      <4> QED BY <2>1, <4>1, <4>2, <4>3 DEF InPlace
    <3>7. ToWrite(S, w)'
      BY <1>2, <2>1, <2>2, <2>3, <3>1, <3>3, <3>4 DEF ToWrite
    <3> QED BY <1>2, <2>1, <3>6, <3>7 DEF OnWay, S
  <2> QED BY <1>1, <2>3, <2>5, <2>6 DEF ToWrite
<1> QED BY <1>3, <1>5, <1>6

(* The handler ends, or is ended. *)
LEMMA FinishNet ==
  ASSUME Flow, Finish
  PROVE  /\ NetFrame /\ Flow'
         /\ request \in Asked => \A r \in Nat : OnWay(r) => OnWay(r)'
<1> USE DEF Flow
<1>1. /\ server = "open" /\ server' = "closed" /\ writes = << >> /\ writes' = writes
      /\ ready' = ready /\ wire' = wire /\ mishaps' = mishaps /\ request' = request
      /\ UNCHANGED <<buf, c, file, before>>
  BY DEF Finish
<1>2. NetFrame /\ Flow'
  BY <1>1 DEF NetFrame
<1>3. ASSUME NEW r \in Nat, OnWay(r) PROVE OnWay(r)'
  <2> DEFINE S == Stream(request)
             w == r + Len(ready) + Len(wire)
  <2>1. S' = S /\ w' = w /\ (Died' <=> Died)
    BY <1>1 DEF Died
  <2>2. ~ Died /\ InPlace(S, r) /\ ToWrite(S, w)
    BY <1>1, <1>3 DEF OnWay, ToWrite
  <2> HIDE DEF S, w
  <2>3. InPlace(S, r)'
    BY <1>1, <2>1, <2>2 DEF InPlace
  <2>4. w = Len(S)
    <3>1. << <<LF>> >> # << >>
      OBVIOUS
    <3>2. Writes(request) # << >>
      BY DEF Writes
    <3> QED BY <1>1, <2>2, <3>1, <3>2 DEF ToWrite
  <2>5. ToWrite(S, w)'
    BY <1>1, <2>1, <2>4 DEF ToWrite
  <2> QED BY <2>1, <2>3, <2>5 DEF OnWay, S, w
<1> QED BY <1>2, <1>3

(* A handler that is interrupted or killed writes no more. *)
LEMMA DieNet ==
  ASSUME Flow, Die
  PROVE  /\ NetFrame /\ Flow' /\ Died'
         /\ request \in Asked => \A r \in Nat : OnWay(r) => OnWay(r)'
<1> USE DEF Flow
<1>1. /\ server = "open" /\ server' \in {"closed", "gone"} /\ writes' = << >>
      /\ ready' = ready /\ wire' = wire /\ request' = request
      /\ mishaps' = mishaps \union {IF server' = "gone" THEN "killed" ELSE "interrupted"}
      /\ UNCHANGED <<buf, c, file, before>>
  BY DEF Die
<1>2. NetFrame
  BY <1>1 DEF NetFrame
<1>3. Flow'
  BY <1>1
<1>4. Died' /\ (server' = "closed" => "interrupted" \in mishaps')
  BY <1>1 DEF Died
<1>5. ASSUME NEW r \in Nat, OnWay(r) PROVE OnWay(r)'
  <2> DEFINE S == Stream(request)
             w == r + Len(ready) + Len(wire)
  <2>1. S' = S /\ w' = w
    BY <1>1
  <2>2. InPlace(S, r)
    BY <1>5 DEF OnWay
  <2> HIDE DEF S, w
  <2>3. InPlace(S, r)'
    BY <1>1, <2>1, <2>2 DEF InPlace
  <2>4. ToWrite(S, w)'
    BY <1>1, <1>4, <2>1 DEF ToWrite
  <2> QED BY <2>1, <2>3, <2>4 DEF OnWay, S, w
<1> QED BY <1>2, <1>3, <1>4, <1>5

(* A delivery. *)
LEMMA DeliverNet ==
  ASSUME Flow, Deliver
  PROVE  /\ NetFrame /\ Flow'
         /\ request \in Asked => \A r \in Nat : OnWay(r) => OnWay(r)'
<1> USE DEF Flow
<1>1. PICK k \in 1..Len(wire) : ready' = ready \o SubSeq(wire, 1, k) /\ wire' = SubSeq(wire, k + 1, Len(wire))
  BY DEF Deliver
<1>2. UNCHANGED <<request, server, writes, buf, c, file, before, mishaps>>
  BY DEF Deliver
<1> DEFINE x == SubSeq(wire, 1, k)
           a == Len(ready)
           b == Len(wire)
<1>3. a \in Nat /\ b \in Nat /\ k \in 1..b
  OBVIOUS
<1>4. x \in Seq(Chars) /\ Len(x) = k /\ \A i \in 1..k : x[i] = wire[i]
  <2>1. 1 \in 1..(Len(wire) + 1) /\ k \in (1 - 1)..Len(wire) /\ k - 1 + 1 = k /\ \A i \in 1..k : 1 + i - 1 = i
    BY <1>3
  <2> QED BY <2>1, SubSeqIs
<1>5. wire' \in Seq(Chars) /\ Len(wire') = b - k /\ \A i \in 1..(b - k) : wire'[i] = wire[k + i]
  BY <1>1, <1>3, SubSeqEnd
<1> HIDE DEF x
<1>6. /\ ready' \in Seq(Chars) /\ Len(ready') = a + k
      /\ \A i \in 1..a : ready'[i] = ready[i]
      /\ \A i \in 1..k : ready'[a + i] = wire[i]
  <2>1. ready' = ready \o x /\ ready \in Seq(Chars)
    BY <1>1 DEF x
  <2>2. /\ ready \o x \in Seq(Chars) /\ Len(ready \o x) = Len(ready) + Len(x)
        /\ \A i \in 1..Len(ready) : (ready \o x)[i] = ready[i]
        /\ \A i \in 1..Len(x) : (ready \o x)[Len(ready) + i] = x[i]
    BY <1>4, <2>1, ConcatIs
  <2> QED BY <1>4, <2>1, <2>2
<1>7. NetFrame /\ Flow'
  <2>1. NetFrame
    BY <1>2 DEF NetFrame
  <2>2. writes' = writes /\ server' = server
    BY <1>2
  <2> QED BY <1>5, <1>6, <2>1, <2>2
<1> HIDE DEF a, b
<1>8. ASSUME NEW r \in Nat, OnWay(r) PROVE OnWay(r)'
  <2> DEFINE S == Stream(request)
             w == r + Len(ready) + Len(wire)
  <2>1. S' = S /\ (Died' <=> Died)
    BY <1>2 DEF Died
  <2>2. w = r + a + b /\ w' = w
    <3>1. w' = r + (a + k) + (b - k)
      BY <1>5, <1>6
    <3> QED BY <1>3, <3>1 DEF a, b
  <2>3. InPlace(S, r) /\ ToWrite(S, w)
    BY <1>8 DEF OnWay
  <2> HIDE DEF S, w
  <2>4. w <= Len(S)
    BY <2>3 DEF InPlace, w
  <2>5. \A i \in 1..(a + k) : ready'[i] = S[r + i]
    <3> TAKE i \in 1..(a + k)
    <3>1. CASE i \in 1..a
      BY <1>6, <2>3, <3>1 DEF InPlace, a
    <3>2. CASE i - a \in 1..k
      <4>1. i = a + (i - a) /\ i - a \in 1..b /\ r + a + (i - a) = r + i
        BY <1>3, <3>2
      <4>2. wire[i - a] = S[r + a + (i - a)]
        BY <2>3, <4>1 DEF InPlace, a, b
      <4> QED BY <1>6, <3>2, <4>1, <4>2
    <3> QED BY <1>3, <3>1, <3>2
  <2>6. \A i \in 1..(b - k) : wire'[i] = S[r + (a + k) + i]
    <3> TAKE i \in 1..(b - k)
    <3>1. k + i \in 1..b /\ r + a + (k + i) = r + (a + k) + i
      BY <1>3
    <3>2. wire[k + i] = S[r + a + (k + i)]
      BY <2>3, <3>1 DEF InPlace, a, b
    <3> QED BY <1>5, <3>1, <3>2
  <2>7. InPlace(S, r)'
    <3>1. r + Len(ready') + Len(wire') <= Len(S)
      BY <2>2, <2>4 DEF w
    <3> QED BY <1>5, <1>6, <2>1, <2>5, <2>6, <3>1 DEF InPlace
  <2>8. ToWrite(S, w)'
    BY <1>2, <2>1, <2>2, <2>3 DEF ToWrite
  <2> QED BY <2>1, <2>7, <2>8 DEF OnWay, S, w
<1> QED BY <1>7, <1>8

(* Flow is a part of Types. *)
LEMMA FlowIs == Types => Flow
BY DEF Types, TypeOK, Flow

(* What the server and the network do is not seen by the client. *)
LEMMA NetKeeps ==
  ASSUME Inv, NetFrame, Flow', request \in Asked => \A r \in Nat : OnWay(r) => OnWay(r)'
  PROVE  Inv'
<1>1. /\ request' = request /\ buf' = buf /\ c' = c /\ file' = file /\ before' = before
      /\ mishaps \subseteq mishaps' /\ mishaps' \subseteq mishaps \union {"interrupted", "killed"}
  BY DEF NetFrame
<1>2. Types
  BY DEF Inv
<1>3. Types'
  <2>1. TypeOK'
    BY <1>1, <1>2 DEF Types, TypeOK, Flow
  <2> QED BY <1>1, <1>2, <2>1 DEF Types, Flow
<1>4. "cut" \in mishaps' <=> "cut" \in mishaps
  BY <1>1
<1>5. ASSUME NEW r \in Nat, At(r) PROVE At(r)'
  <2>1. AtStatus(r) => AtStatus(r)'
    BY <1>1, <1>4 DEF AtStatus
  <2>2. AtHeader(r) => AtHeader(r)'
    BY <1>1, <1>4 DEF AtHeader
  <2>3. Kept => Kept'
    BY <1>1 DEF Kept
  <2>4. Whole(r) => Whole(r)'
    BY <1>1, <1>4, <2>3 DEF Whole
  <2>5. Partial(r) => Partial(r)'
    BY <1>1, <1>4 DEF Partial
  <2> QED BY <1>1, <1>5, <2>1, <2>2, <2>4, <2>5 DEF At
<1>6. Progress'
  <2> SUFFICES ASSUME c.pc # "idle" PROVE \E r \in Nat : OnWay(r)' /\ At(r)'
    BY <1>1 DEF Progress
  <2>1. PICK r \in Nat : OnWay(r) /\ At(r)
    BY DEF Inv, Progress
  <2>2. request \in Asked
    BY <1>2 DEF Types
  <2> QED BY <1>5, <2>1, <2>2
<1>7. SavedIsSent'
  BY <1>1 DEF Inv, SavedIsSent
<1>8. FailureHasCause'
  BY <1>1 DEF Inv, FailureHasCause
<1>9. NoFileIsTold'
  BY <1>1 DEF Inv, NoFileIsTold
<1> QED BY <1>3, <1>6, <1>7, <1>8, <1>9 DEF Inv

----------------------------------------------------------------------------
(* The client *)

(* The types, after a step of the client. *)
LEMMA ClientTypes ==
  ASSUME Types, c.pc # "idle",
         UNCHANGED <<request, server, writes, wire, before>>,
         ready' \in Seq(Chars),
         DOMAIN buf' = 0..Big, buf'[Big] = NUL,
         c' \in Variables, c'.from + c'.n <= Big, c' # Idle, c'.pc # "idle" => c'.result = "none",
         mishaps' \subseteq mishaps \union {"cut", "slow"}
  PROVE  Types'
<1>1. c'.n <= Big /\ c'.n >= 0 /\ {c'.whence, c'.from, c'.pos, c'.full} \subseteq Nat
      /\ c'.pc \in Steps /\ c'.result \in Results
  <2>1. c'.from \in Nat /\ c'.n \in Nat /\ c'.whence \in Nat /\ c'.pos \in Nat /\ c'.full \in Nat
        /\ c'.pc \in Steps /\ c'.result \in Results
    BY DEF Variables
  <2> QED BY <2>1, TcpFetchAssumption
<1>2. TypeOK'
  BY <1>1 DEF Types, TypeOK
<1> QED BY <1>2 DEF Types

(* A step after which the client goes on. *)
LEMMA GoesOn ==
  ASSUME Types', c'.pc # "idle", NEW r \in Nat, OnWay(r)', At(r)'
  PROVE  Inv'
<1>1. c'.result = "none"
  BY DEF Types
<1>2. Progress'
  BY DEF Progress
<1> QED BY <1>1, <1>2 DEF Inv, SavedIsSent, FailureHasCause, NoFileIsTold

(* What the client does when it ends: its variables are those of Idle. *)
LEMMA ResultIs ==
  ASSUME NEW tok \in Results \ {"none"}
  PROVE  /\ Result(tok) \in Variables /\ Result(tok) # Idle
         /\ Result(tok).pc = "idle" /\ Result(tok).result = tok
         /\ Result(tok).from = 0 /\ Result(tok).n = 0
BY DEF Result, Idle, Variables, Steps, Results

(* A step with which the client fails, for a reason. *)
LEMMA Fails ==
  ASSUME Types', c' = Result("failed"), request'.kind = "OK", mishaps' # {}
  PROVE  Inv'
<1>1. c'.pc = "idle" /\ c'.result = "failed"
  BY ResultIs DEF Results
<1> QED BY <1>1 DEF Inv, Progress, SavedIsSent, FailureHasCause, NoFileIsTold

(* The client reads k characters more. *)
LEMMA Receive ==
  ASSUME Flow, request \in Asked, NEW limit \in Nat \ {0}, RecvAll(limit),
         mishaps \subseteq mishaps', mishaps' \subseteq mishaps \union {"cut"},
         NEW r \in Nat, OnWay(r)
  PROVE  LET k == Received(limit)
             S == Stream(request)
         IN /\ k \in 1..limit /\ k <= Len(ready) /\ r + k <= Len(S)
            /\ \A i \in 1..k : ready[i] = S[r + i]
            /\ ready' \in Seq(Chars)
            /\ \A m \in Nat : m = r + k => OnWay(m)'
            /\ k < limit => finished(limit)
            /\ ~ finished(limit) => k = limit /\ r + k < Len(S)
<1> USE DEF Flow
<1> DEFINE k == Received(limit)
           S == Stream(request)
           a == Len(ready)
           b == Len(wire)
           w == r + Len(ready) + Len(wire)
<1>1. /\ ready # << >> /\ ready' = SubSeq(ready, k + 1, Len(ready))
      /\ UNCHANGED <<request, server, writes, wire, before>>
  BY DEF RecvAll
<1>2. a \in Nat \ {0} /\ b \in Nat
  BY <1>1
<1>3. S \in Seq(Chars) /\ Len(S) \in Nat /\ S' = S
  BY <1>1, StreamIs
<1>4. InPlace(S, r) /\ ToWrite(S, w)
  BY DEF OnWay
<1>5. k = IF a < limit THEN a ELSE limit
  BY DEF Received
<1>6. finished(limit) <=> a <= limit
  BY DEF finished
<1>7. r + a + b <= Len(S) /\ (\A i \in 1..a : ready[i] = S[r + i]) /\ \A i \in 1..b : wire[i] = S[r + a + i]
  BY <1>4 DEF InPlace
<1>8. k \in 1..limit /\ k \in 1..a
  <2> HIDE DEF k, a
  <2> QED BY <1>2, <1>5
<1>9. ready' \in Seq(Chars) /\ Len(ready') = a - k /\ \A i \in 1..(a - k) : ready'[i] = ready[k + i]
  <2>1. k \in 0..Len(ready)
    BY <1>2, <1>8
  <2> HIDE DEF k
  <2> QED BY <1>1, <2>1, SubSeqEnd
<1>10. Died' <=> Died
  BY DEF Died
<1>11. "interrupted" \in mishaps' <=> "interrupted" \in mishaps
  OBVIOUS
<1>12. wire' = wire /\ server' = server /\ writes' = writes /\ request' = request
  BY <1>1
<1>13. w = r + a + b
  OBVIOUS
<1> HIDE DEF k, S, a, w
<1>14. r + k \in Nat /\ r + k <= Len(S) /\ (~ a <= limit => k = limit /\ r + k < Len(S)) /\ (k < limit => a <= limit)
  <2> HIDE DEF b
  <2> QED BY <1>2, <1>3, <1>5, <1>7, <1>8
<1>15. (r + k) + Len(ready') + Len(wire') = w
  <2>1. Len(wire') = b
    BY <1>12
  <2> HIDE DEF b
  <2>2. (r + k) + (a - k) + b = r + a + b
    BY <1>2, <1>8
  <2> QED BY <1>9, <1>13, <2>1, <2>2
<1>16. ASSUME NEW m \in Nat, m = r + k PROVE OnWay(m)'
  <2>1. m + Len(ready') + Len(wire') = w /\ w <= Len(S)
    BY <1>7, <1>13, <1>15, <1>16
  <2>2. \A i \in 1..(a - k) : ready'[i] = S[m + i]
    <3> TAKE i \in 1..(a - k)
    <3>1. k + i \in 1..a /\ r + (k + i) = m + i
      BY <1>2, <1>8, <1>16
    <3> QED BY <1>7, <1>9, <3>1
  <2>3. \A i \in 1..b : wire[i] = S[m + (a - k) + i]
    <3> HIDE DEF b
    <3> TAKE i \in 1..b
    <3>1. m + (a - k) + i = r + a + i
      BY <1>2, <1>8, <1>16
    <3> QED BY <1>7, <3>1
  <2>4. \A i \in 1..Len(wire') : wire'[i] = S[m + Len(ready') + i]
    BY <1>9, <1>12, <2>3
  <2>5. \A i \in 1..Len(ready') : ready'[i] = S[m + i]
    BY <1>9, <2>2
  <2>6. InPlace(S, m)'
    BY <1>3, <2>1, <2>4, <2>5 DEF InPlace
  <2> DEFINE v == m + Len(ready) + Len(wire)
  <2>7. v' = w
    BY <2>1
  <2> HIDE DEF v
  <2>8. ToWrite(S, v)'
    <3>1. writes' = writes /\ server' = server /\ request' = request
      BY <1>12
    <3> QED BY <1>3, <1>4, <1>10, <1>11, <2>7, <3>1 DEF ToWrite
  <2> QED BY <1>3, <1>12, <2>6, <2>8 DEF OnWay, S, v
<1> QED BY <1>2, <1>3, <1>6, <1>7, <1>8, <1>9, <1>14, <1>16 DEF k, S, a

(* At the start nothing is asked; an earlier answer does not reach the end *)
(* of the buffer.                                                          *)
LEMMA InitInv == Init => Inv
<1> SUFFICES ASSUME Init PROVE Inv
  OBVIOUS
<1>1. /\ request = [cmd |-> "GSB", kind |-> "ERR", data |-> << >>]
      /\ server = "closed" /\ writes = << >> /\ wire = << >> /\ ready = << >>
      /\ c = Idle /\ file \in OldFiles /\ before = file /\ mishaps = {}
  BY DEF Init
<1>2. DOMAIN buf = 0..Big /\ buf[Big] = NUL
  <2>1. Big \in 0..Big
    BY TcpFetchAssumption
  <2>2. \A req : DOMAIN Left(req) = 0..Big /\ Left(req)[Big] = NUL
    BY <2>1 DEF Left
  <2>3. CASE buf = [i \in 0..Big |-> NUL]
    BY <2>1, <2>3
  <2>4. CASE buf \in {Left(req) : req \in Answers}
    BY <2>2, <2>4
  <2> QED BY <2>3, <2>4 DEF Init
<1>3. /\ Idle \in Variables /\ Idle.pc = "idle" /\ Idle.result = "none"
      /\ Idle.whence = 0 /\ Idle.from = 0 /\ Idle.n = 0 /\ Idle.pos = 0 /\ Idle.full = 0
  BY DEF Idle, Variables, Steps, Results
<1>4. request \in [cmd : Commands, kind : Kinds, data : Files \union {<< >>}]
  BY <1>1 DEF Commands, Kinds
<1>5. 0 <= Big /\ 0 + 0 <= Big
  BY TcpFetchAssumption
<1>6. TypeOK
  BY <1>1, <1>2, <1>3, <1>4, <1>5 DEF TypeOK, Steps, Results
<1>7. writes \in Seq(Seq(Chars)) /\ wire \in Seq(Chars) /\ ready \in Seq(Chars)
  BY <1>1
<1>8. Types
  BY <1>1, <1>3, <1>5, <1>6, <1>7 DEF Types
<1>9. Progress
  BY <1>1, <1>3 DEF Progress
<1>10. SavedIsSent
  BY <1>1, <1>3 DEF SavedIsSent
<1>11. FailureHasCause
  BY <1>1, <1>3 DEF FailureHasCause
<1>12. NoFileIsTold
  BY <1>1, <1>3 DEF NoFileIsTold
<1> QED BY <1>8, <1>9, <1>10, <1>11, <1>12 DEF Inv

(* A command is entered. *)
LEMMA AskInv ==
  ASSUME Inv, Ask
  PROVE  Inv'
<1>1. Types
  BY DEF Inv
<1>2. PICK cmd \in Commands, kind \in Kinds, data \in Files :
        request' = [cmd |-> cmd, kind |-> kind, data |-> data]
  BY DEF Ask
<1>3. /\ c = Idle /\ server' = "open" /\ writes' = Writes(request') /\ wire' = << >> /\ ready' = << >>
      /\ c' = [Idle EXCEPT !.pc = "status"] /\ before' = file /\ mishaps' = {}
      /\ buf' = buf /\ file' = file
  BY DEF Ask
<1>4. request' \in Asked
  BY <1>2 DEF Asked
<1>5. /\ c' \in Variables /\ c'.pc = "status" /\ c'.result = "none" /\ c' # Idle
      /\ c'.whence = 0 /\ c'.from = 0 /\ c'.n = 0 /\ c'.pos = 0 /\ c'.full = 0
  BY <1>3 DEF Idle, Variables, Steps, Results
<1>6. Writes(request') \in Seq(Seq(Chars)) /\ \A k \in DOMAIN Writes(request') : Writes(request')[k] # << >>
  BY <1>4, WritesAre
<1>7. Types'
  <2>1. 0 <= Big /\ 0 + 0 <= Big
    BY TcpFetchAssumption
  <2>2. request' \in [cmd : Commands, kind : Kinds, data : Files \union {<< >>}]
    BY <1>4 DEF Asked
  <2>3. DOMAIN buf = 0..Big /\ buf[Big] = NUL
    BY <1>1 DEF Types, TypeOK
  <2>4. TypeOK'
    <3>1. server' \in {"open", "closed", "gone"} /\ mishaps' = {}
      BY <1>3
    <3>2. \A k \in DOMAIN writes' : writes'[k] # << >>
      BY <1>3, <1>6
    <3>3. buf' = buf
      BY <1>3
    <3>4. c'.pc \in Steps /\ c'.result \in Results
      BY <1>5 DEF Steps, Results
    <3> QED BY <1>5, <2>1, <2>2, <2>3, <3>1, <3>2, <3>3, <3>4 DEF TypeOK
  <2>5. before' \in OldFiles
    BY <1>1, <1>3 DEF Types
  <2>6. wire' \in Seq(Chars) /\ ready' \in Seq(Chars)
    BY <1>3
  <2> QED BY <1>3, <1>4, <1>5, <1>6, <2>1, <2>4, <2>5, <2>6 DEF Types
<1>8. OnWay(0)'
  <2> DEFINE S == Stream(request)
             w == 0 + Len(ready) + Len(wire)
  <2>1. Len(S') \in Nat
    BY <1>4, StreamIs
  <2>2. Len(ready') = 0 /\ Len(wire') = 0
    BY <1>3
  <2>3. 0 + Len(ready') + Len(wire') = 0 /\ w' = 0
    BY <2>2
  <2> HIDE DEF S, w
  <2>4. InPlace(S, 0)'
    BY <2>1, <2>2, <2>3 DEF InPlace
  <2>5. ~ Died'
    BY <1>3 DEF Died
  <2>6. ToWrite(S, w)'
    BY <1>3, <2>3, <2>5 DEF ToWrite
  <2> QED BY <2>4, <2>6 DEF OnWay, S, w
<1>9. At(0)'
  <2>1. AtStatus(0)'
    BY <1>3 DEF AtStatus
  <2> QED BY <1>5, <2>1 DEF At
<1> QED BY <1>5, <1>7, <1>8, <1>9, GoesOn

(* The text between two places of the buffer. *)
LEMMA TextIs ==
  ASSUME NEW b, NEW from \in Nat, NEW to \in Nat, NEW s \in Seq(Chars), from + Len(s) = to
  PROVE  Text(b, from, to) = s <=> \A i \in 1..Len(s) : b[from + i - 1] = s[i]
<1>1. to - from = Len(s) /\ Len(s) \in Nat
  OBVIOUS
<1>2. Text(b, from, to) = [i \in 1..Len(s) |-> b[from + i - 1]]
  BY <1>1 DEF Text
<1>3. s = [i \in 1..Len(s) |-> s[i]]
  OBVIOUS
<1> HIDE DEF Text
<1>4. ASSUME Text(b, from, to) = s PROVE \A i \in 1..Len(s) : b[from + i - 1] = s[i]
  BY <1>2, <1>4
<1>5. ASSUME \A i \in 1..Len(s) : b[from + i - 1] = s[i] PROVE Text(b, from, to) = s
  BY <1>2, <1>3, <1>5
<1> QED BY <1>4, <1>5

(* A text is found where its characters are. *)
FoundIn(b) ==
  \A from, to \in Nat, s \in Seq(Chars) :
    from + Len(s) = to /\ (\A i \in 1..Len(s) : b[from + i - 1] = s[i]) => Text(b, from, to) = s

(* In whatever the buffer holds. *)
LEMMA TextFound == \A b : FoundIn(b)
<1> SUFFICES ASSUME NEW b, NEW from \in Nat, NEW to \in Nat, NEW s \in Seq(Chars)
             PROVE  from + Len(s) = to /\ (\A i \in 1..Len(s) : b[from + i - 1] = s[i]) => Text(b, from, to) = s
  BY DEF FoundIn
<1>1. ASSUME from + Len(s) = to PROVE Text(b, from, to) = s <=> \A i \in 1..Len(s) : b[from + i - 1] = s[i]
  BY <1>1, TextIs
<1> QED BY <1>1

(* Where the client looks for "no file" and for the status. *)
LEMMA StatusText ==
  ASSUME NEW b
  PROVE  /\ Text(b, 0, 4) = Append(Nok, NUL) <=> b[0] = "R" /\ b[1] = "N" /\ b[2] = LF /\ b[3] = NUL
         /\ \A cmd \in Commands : LET st == Status(cmd)
              IN  Text(b, 0, Len(st)) = st <=> \A i \in 1..Len(st) : b[i - 1] = st[i]
<1>1. Text(b, 0, 4) = Append(Nok, NUL) <=> b[0] = "R" /\ b[1] = "N" /\ b[2] = LF /\ b[3] = NUL
  <2> DEFINE t == Append(Nok, NUL)
  <2>1. Nok \in Seq(Chars) /\ Len(Nok) = 3 /\ Nok[1] = "R" /\ Nok[2] = "N" /\ Nok[3] = LF
    <3>1. "R" \in Chars /\ "N" \in Chars /\ LF \in Chars
      BY CharsAre
    <3> QED BY <3>1, ThreeChars, Zenon DEF Nok
  <2>2. NUL \in Chars
    BY CharsAre
  <2>3. t \in Seq(Chars) /\ Len(t) = 4 /\ t[1] = "R" /\ t[2] = "N" /\ t[3] = LF /\ t[4] = NUL
    <3>1. /\ t \in Seq(Chars) /\ Len(t) = Len(Nok) + 1 /\ t[Len(Nok) + 1] = NUL
          /\ \A i \in 1..Len(Nok) : t[i] = Nok[i]
      <4>1. ASSUME NEW s \in Seq(Chars), NEW x \in Chars
            PROVE  /\ Append(s, x) \in Seq(Chars) /\ Len(Append(s, x)) = Len(s) + 1
                   /\ Append(s, x)[Len(s) + 1] = x
                   /\ \A i \in 1..Len(s) : Append(s, x)[i] = s[i]
        OBVIOUS
      <4>2. Nok \in Seq(Chars) /\ NUL \in Chars
        BY <2>1, <2>2
      <4> QED BY <4>1, <4>2, Zenon
    <3> HIDE DEF t
    <3> QED BY <2>1, <3>1
  <2> HIDE DEF t
  <2>4. Text(b, 0, 4) = t <=> \A i \in 1..4 : b[0 + i - 1] = t[i]
    <3>1. 0 \in Nat /\ 4 \in Nat /\ 0 + Len(t) = 4
      BY <2>3
    <3>2. \A from, to \in Nat, s \in Seq(Chars) : from + Len(s) = to =>
            (Text(b, from, to) = s <=> \A i \in 1..Len(s) : b[from + i - 1] = s[i])
      BY TextIs
    <3>3. Text(b, 0, 4) = t <=> \A i \in 1..Len(t) : b[0 + i - 1] = t[i]
      BY <2>3, <3>1, <3>2, Zenon
    <3> QED BY <2>3, <3>3
  <2>5. (\A i \in 1..4 : b[0 + i - 1] = t[i]) <=> b[0] = t[1] /\ b[1] = t[2] /\ b[2] = t[3] /\ b[3] = t[4]
    <3>1. \A i \in 1..4 : i = 1 \/ i = 2 \/ i = 3 \/ i = 4
      OBVIOUS
    <3> QED BY <3>1
  <2> QED BY <2>3, <2>4, <2>5 DEF t
<1>2. ASSUME NEW cmd \in Commands
      PROVE  LET st == Status(cmd)
             IN  Text(b, 0, Len(st)) = st <=> \A i \in 1..Len(st) : b[i - 1] = st[i]
  <2> DEFINE st == Status(cmd)
  <2>1. st \in Seq(Chars) /\ Len(st) \in Nat
    BY StatusIs
  <2> HIDE DEF st
  <2>2. 0 + Len(st) = Len(st) /\ \A i \in 1..Len(st) : 0 + i - 1 = i - 1
    BY <2>1
  <2>3. Text(b, 0, Len(st)) = st <=> \A i \in 1..Len(st) : b[0 + i - 1] = st[i]
    <3>1. \A from, to \in Nat, s \in Seq(Chars) : from + Len(s) = to =>
            (Text(b, from, to) = s <=> \A i \in 1..Len(s) : b[from + i - 1] = s[i])
      BY TextIs
    <3>2. 0 \in Nat
      OBVIOUS
    <3> QED BY <2>1, <2>2, <3>1, <3>2, Zenon
  <2> QED BY <2>2, <2>3 DEF st
<1> QED BY <1>1, <1>2

(* The buffer is large enough for the limit of the first read. *)
LEMMA BigIsEnough == Asked # {} => Big \in Nat /\ Lim < Big
<1>1. ASSUME NEW req \in Asked PROVE Lim < Big
  <2> DEFINE ok == [req EXCEPT !.kind = "OK"]
  <2>1. ok \in Answers
    BY DEF Asked, Answers
  <2>2. Len(Header(ok)) \in Nat /\ 6 <= Len(Header(ok)) /\ Len(Header(ok)) <= Big
    <3> DEFINE ls == Len(Status(ok.cmd))
               ln == Len(Name)
               ld == Len(Size(ok))
               h  == Len(Header(ok))
    <3>1. ls \in 2..3 /\ ln \in Nat \ {0} /\ ld \in Nat \ {0} /\ h = ls + ln + ld + 2 /\ h <= Big /\ h \in Nat
      BY <2>1, AnswerParts
    <3> HIDE DEF ls, ln, ld, h
    <3>2. 6 <= h
      BY <3>1
    <3> QED BY <3>1, <3>2 DEF h
  <2> HIDE DEF ok
  <2> QED BY <2>2, TcpFetchAssumption DEF Lim
<1> QED BY <1>1, TcpFetchAssumption

(* What was read is in the buffer, and the rest is as it was. *)
LEMMA FilledIs ==
  ASSUME Types, NEW at \in Nat, NEW k \in Nat, at + k <= Big
  PROVE  LET b == Filled(at, k)
         IN /\ DOMAIN b = 0..Big /\ b[Big] = NUL
            /\ \A i \in 1..k : b[at + i - 1] = ready[i]
            /\ \A i \in 0..Big : i < at \/ at + k <= i => b[i] = buf[i]
<1> DEFINE b == Filled(at, k)
<1>1. Big \in Nat /\ buf[Big] = NUL
  BY TcpFetchAssumption DEF Types, TypeOK
<1>2. b = [i \in 0..Big |-> IF i \in at..(at + k - 1) THEN ready[i - at + 1] ELSE buf[i]]
  BY DEF Filled
<1> HIDE DEF b
<1>3. \A i \in 1..k : b[at + i - 1] = ready[i]
  <2> TAKE i \in 1..k
  <2>1. at + i - 1 \in 0..Big /\ at + i - 1 \in at..(at + k - 1) /\ (at + i - 1) - at + 1 = i
    BY <1>1
  <2> QED BY <1>2, <2>1
<1>4. \A i \in 0..Big : i < at \/ at + k <= i => b[i] = buf[i]
  BY <1>1, <1>2
<1> QED BY <1>1, <1>2, <1>3, <1>4 DEF b

(* The first read: what it leaves in the buffer. *)
LEMMA StatusBuffer ==
  ASSUME Inv, ReadStatus
  PROVE  LET k == Received(Lim)
             S == Stream(request)
             b == Ended(Filled(0, k), k)
         IN /\ request \in Asked /\ "cut" \notin mishaps /\ file = before
            /\ k \in 1..Lim /\ k <= Len(S) /\ Len(S) \in Nat /\ Lim < Big
            /\ DOMAIN b = 0..Big /\ b[Big] = NUL /\ b[k] = NUL
            /\ \A i \in 1..k : b[i - 1] = S[i]
            /\ ready' \in Seq(Chars)
            /\ \A m \in Nat : m = k => OnWay(m)'
            /\ Len(S) < Lim => finished(Lim)
<1> DEFINE k == Received(Lim)
           S == Stream(request)
           a == Filled(0, k)
           b == Ended(a, k)
<1>1. Types /\ Flow /\ c.pc = "status" /\ request \in Asked
  BY FlowIs DEF Inv, Types, ReadStatus
<1>2. PICK r \in Nat : OnWay(r) /\ At(r)
  BY <1>1 DEF Inv, Progress
<1>3. r = 0 /\ "cut" \notin mishaps /\ file = before
  BY <1>1, <1>2 DEF At, AtStatus
<1>4. RecvAll(Lim) /\ mishaps \subseteq mishaps' /\ mishaps' \subseteq mishaps \union {"cut"}
  BY DEF ReadStatus
<1>5. Lim \in Nat \ {0} /\ Lim < Big /\ Big \in Nat
  BY <1>1, BigIsEnough DEF Lim
<1>6. /\ k \in 1..Lim /\ r + k <= Len(S)
      /\ \A i \in 1..k : ready[i] = S[r + i]
      /\ ready' \in Seq(Chars)
      /\ \A m \in Nat : m = r + k => OnWay(m)'
      /\ k < Lim => finished(Lim)
  BY <1>1, <1>2, <1>4, <1>5, Receive
<1>7. Len(S) \in Nat
  BY <1>1, StreamIs
<1> HIDE DEF k, S
<1>8. k \in 1..Lim /\ k <= Len(S) /\ k \in Nat /\ 0 + k = k /\ r + k = k /\ k < Big /\ \A i \in 1..k : r + i = i
  BY <1>3, <1>5, <1>6, <1>7
<1>9. DOMAIN a = 0..Big /\ a[Big] = NUL /\ \A i \in 1..k : a[0 + i - 1] = ready[i]
  <2>1. 0 \in Nat /\ k \in Nat /\ 0 + k <= Big
    BY <1>5, <1>8
  <2> QED BY <1>1, <2>1, FilledIs
<1> HIDE DEF a
<1>10. b = [a EXCEPT ![k] = NUL]
  BY DEF Ended
<1> HIDE DEF b
<1>11. DOMAIN b = 0..Big /\ b[Big] = NUL /\ b[k] = NUL /\ \A i \in 1..k : b[i - 1] = S[i]
  <2>1. k \in 0..Big /\ Big \in 0..Big
    BY <1>5, <1>8
  <2>2. \A i \in 1..k : i - 1 \in 0..Big /\ i - 1 # k /\ 0 + i - 1 = i - 1
    BY <1>8, <2>1
  <2>3. \A i \in 1..k : a[i - 1] = S[i]
    BY <1>6, <1>8, <1>9, <2>2
  <2> QED BY <1>9, <1>10, <2>1, <2>2, <2>3
<1>12. Len(S) < Lim => finished(Lim)
  BY <1>5, <1>6, <1>7, <1>8
<1> QED BY <1>1, <1>3, <1>5, <1>6, <1>7, <1>8, <1>11, <1>12 DEF k, S, a, b

(* The first read. *)
LEMMA ReadStatusInv ==
  ASSUME Inv, ReadStatus
  PROVE  Inv'
<1> DEFINE k  == Received(Lim)
           S  == Stream(request)
           b  == Ended(Filled(0, k), k)
           st == Status(request.cmd)
<1>1. /\ request \in Asked /\ "cut" \notin mishaps /\ file = before
      /\ k \in 1..Lim /\ k <= Len(S) /\ Len(S) \in Nat /\ Lim < Big
      /\ DOMAIN b = 0..Big /\ b[Big] = NUL /\ b[k] = NUL
      /\ \A i \in 1..k : b[i - 1] = S[i]
      /\ ready' \in Seq(Chars)
      /\ \A m \in Nat : m = k => OnWay(m)'
      /\ Len(S) < Lim => finished(Lim)
  BY StatusBuffer
<1>2. /\ buf' = b
      /\ mishaps' = IF IsCut(k) THEN mishaps \union {"cut"} ELSE mishaps
      /\ \/ /\ Text(b, 0, 4) = Append(Nok, NUL)
            /\ c' = Result(IF finished(Lim) THEN "no file" ELSE "failed")
         \/ /\ Text(b, 0, Len(st)) = st
            /\ c' = [Idle EXCEPT !.pc = "header", !.whence = IF request.cmd = "STA" THEN Lim ELSE k]
         \/ /\ Text(b, 0, 4) # Append(Nok, NUL) /\ Text(b, 0, Len(st)) # st
            /\ c' = Result("failed")
      /\ UNCHANGED <<request, server, writes, wire, before, file>>
  BY DEF ReadStatus, RecvAll
<1>3. Types /\ c.pc = "status"
  BY DEF Inv, ReadStatus
<1>4. /\ Text(b, 0, 4) = Append(Nok, NUL) <=> b[0] = "R" /\ b[1] = "N" /\ b[2] = LF /\ b[3] = NUL
      /\ Text(b, 0, Len(st)) = st <=> \A i \in 1..Len(st) : b[i - 1] = st[i]
  BY <1>1, StatusText DEF Asked
<1>5. /\ Len(st) \in 2..3 /\ \A i \in 1..Len(st) : st[i] # NUL
      /\ request.cmd = "STA" => Len(st) = 3
  BY <1>1, StatusIs DEF Asked
<1>6. /\ \A i \in 1..Len(S) : S[i] # NUL
      /\ request.kind = "OK" => request \in Answers /\ S = Answer(request)
      /\ request.kind = "NOK" /\ request.cmd # "STA" => S = Nok
      /\ request.kind # "OK" => S[1] # st[1]
      /\ request.kind # "NOK" => Len(S) < 3 \/ S[1] # "R" \/ S[2] # "N"
  BY <1>1, StreamIs
<1>7. IsCut(k) <=> \/ k < Len(st)
                   \/ request.kind = "NOK" /\ k < Len(Nok)
                   \/ request.kind = "OK" /\ request.cmd = "STA" /\ k < Lim
  BY DEF IsCut
<1>8. k \in {1, 2, 3, 4} /\ Lim = 4
  BY <1>1 DEF Lim
<1> HIDE DEF k, S, b, st
<1>9. ASSUME c' \in Variables, c'.from + c'.n <= Big, c' # Idle, c'.pc # "idle" => c'.result = "none"
      PROVE  Types'
  <2>1. mishaps' \subseteq mishaps \union {"cut", "slow"} /\ c.pc # "idle"
    BY <1>2, <1>3
  <2> QED BY <1>1, <1>2, <1>3, <1>9, <2>1, ClientTypes
<1>10. ASSUME NEW tok \in Results \ {"none"}, c' = Result(tok) PROVE Types'
  <2>1. 0 + 0 <= Big
    BY TcpFetchAssumption
  <2> QED BY <1>9, <1>10, <2>1, ResultIs
<1>11. k > 0 /\ 1 \in 1..k /\ b[0] = S[1] /\ (k > 1 => b[1] = S[2]) /\ (k > 2 => b[2] = S[3])
  BY <1>1, <1>8
<1>12. CASE /\ Text(b, 0, 4) = Append(Nok, NUL)
            /\ c' = Result(IF finished(Lim) THEN "no file" ELSE "failed")
  <2>1. b[0] = "R" /\ b[1] = "N" /\ b[2] = LF /\ "N" # NUL /\ LF # NUL
    BY <1>4, <1>12, CharsDiffer
  <2>2. k > 2 /\ Len(S) >= 3
    BY <1>1, <1>8, <2>1
  <2>3. request.kind = "NOK"
    BY <1>1, <1>6, <1>11, <2>1, <2>2
  <2>4. request.cmd # "STA" => finished(Lim)
    <3>1. Len(Nok) = 3
      BY DEF Nok
    <3> QED BY <1>1, <1>6, <1>8, <2>3, <3>1
  <2>5. Types' /\ c'.pc = "idle" /\ c'.result = IF finished(Lim) THEN "no file" ELSE "failed"
    <3> DEFINE tok == IF finished(Lim) THEN "no file" ELSE "failed"
    <3>1. tok \in Results \ {"none"} /\ c' = Result(tok)
      BY <1>12 DEF Results
    <3> HIDE DEF tok
    <3>2. c'.pc = "idle" /\ c'.result = tok
      BY <3>1, ResultIs
    <3>3. Types'
      BY <1>10, <3>1
    <3> QED BY <3>2, <3>3 DEF tok
  <2>6. request' = request
    BY <1>2
  <2> QED BY <2>3, <2>4, <2>5, <2>6 DEF Inv, Progress, SavedIsSent, FailureHasCause, NoFileIsTold
<1>13. CASE /\ Text(b, 0, Len(st)) = st
            /\ c' = [Idle EXCEPT !.pc = "header", !.whence = IF request.cmd = "STA" THEN Lim ELSE k]
  <2>1. \A i \in 1..Len(st) : b[i - 1] = st[i]
    BY <1>4, <1>13
  <2>2. request.kind = "OK"
    <3>1. 1 \in 1..Len(st) /\ 1 - 1 = 0
      BY <1>5
    <3> QED BY <1>6, <1>11, <2>1, <3>1
  <2>3. k >= Len(st)
    <3> SUFFICES ASSUME k < Len(st) PROVE FALSE
      BY <1>5, <1>8
    <3>1. k + 1 \in 1..Len(st) /\ (k + 1) - 1 = k
      BY <1>5, <1>8
    <3> QED BY <1>1, <1>5, <2>1, <3>1
  <2>4. IsCut(k) <=> request.cmd = "STA" /\ k = 3
    <3>1. ~ (k < Len(st)) /\ (request.cmd = "STA" => (k < Lim <=> k = 3))
      <4>1. Len(st) \in 2..3
        BY <1>5
      <4>2. \A l \in 2..3, n \in {1, 2, 3, 4} : n >= l => ~ (n < l) /\ (l = 3 => (n < 4 <=> n = 3))
        OBVIOUS
      <4> QED BY <1>5, <1>8, <2>3, <4>1, <4>2
    <3> QED BY <1>7, <2>2, <3>1
  <2>5. "cut" \in mishaps' <=> request.cmd = "STA" /\ k = 3
    BY <1>1, <1>2, <2>4
  <2> DEFINE w == IF request.cmd = "STA" THEN Lim ELSE k
  <2>6. w \in 1..Lim /\ w \in Nat
    BY <1>8
  <2> HIDE DEF w
  <2>7. /\ c' \in Variables /\ c'.pc = "header" /\ c'.result = "none" /\ c'.whence = w
        /\ c'.from = 0 /\ c'.n = 0 /\ c' # Idle
        /\ c' = [Idle EXCEPT !.pc = "header", !.whence = c'.whence]
    BY <1>13, <2>6 DEF Idle, Variables, Steps, Results, w
  <2>8. Types'
    <3>1. 0 + 0 <= Big
      BY TcpFetchAssumption
    <3> QED BY <1>9, <2>7, <3>1
  <2>9. PICK r \in Nat : r = k
    BY <1>8
  <2>10. OnWay(r)'
    BY <1>1, <2>9
  <2>11. AtHeader(r)'
    <3>1. request' = request /\ file' = before' /\ buf' = b
      BY <1>1, <1>2
    <3>2. CASE request.cmd = "STA" /\ k = 3
      <4>1. w = Lim /\ r = Lim - 1
        BY <1>8, <2>9, <3>2 DEF w
      <4>2. buf'[Lim - 1] = NUL
        BY <1>1, <1>8, <3>1, <3>2
      <4> QED BY <2>2, <2>5, <2>6, <2>7, <3>1, <3>2, <4>1, <4>2 DEF AtHeader
    <3>3. CASE ~ (request.cmd = "STA" /\ k = 3)
      <4>1. w = r
        BY <1>5, <1>8, <2>3, <2>9, <3>3 DEF w
      <4>2. \A i \in 1..r : buf'[i - 1] = Answer(request)[i]
        BY <1>1, <1>6, <2>2, <2>9, <3>1
      <4>3. Len(st) <= r
        BY <1>5, <1>8, <2>3, <2>9
      <4> QED BY <2>2, <2>5, <2>6, <2>7, <3>1, <3>3, <4>1, <4>2, <4>3 DEF AtHeader, st
    <3> QED BY <3>2, <3>3
  <2>12. At(r)'
    BY <2>7, <2>11 DEF At
  <2>13. c'.pc # "idle"
    BY <2>7
  <2> QED BY <2>8, <2>10, <2>12, <2>13, GoesOn
<1>14. CASE /\ Text(b, 0, 4) # Append(Nok, NUL) /\ Text(b, 0, Len(st)) # st
            /\ c' = Result("failed")
  <2>1. Types' /\ c'.pc = "idle" /\ c'.result = "failed" /\ request' = request
    BY <1>2, <1>10, <1>14, ResultIs DEF Results
  <2>2. request.kind = "OK" => mishaps' # {}
    <3> SUFFICES ASSUME request.kind = "OK" PROVE k < Len(st)
      BY <1>2, <1>7
    <3>1. \A i \in 1..Len(st) : S[i] = st[i]
      BY <1>6, AnswerParts DEF st
    <3>2. ~ \A i \in 1..Len(st) : b[i - 1] = st[i]
      BY <1>4, <1>14
    <3>3. PICK i \in 1..Len(st) : b[i - 1] # S[i]
      BY <3>1, <3>2
    <3>4. ~ i \in 1..k
      BY <1>1, <3>3
    <3> QED BY <1>5, <1>8, <3>4
  <2>3. ~ (request.kind = "NOK" /\ request.cmd # "STA" /\ mishaps' = {})
    <3> SUFFICES ASSUME request.kind = "NOK", request.cmd # "STA", ~ IsCut(k) PROVE FALSE
      BY <1>2
    <3>1. S = Nok /\ Len(Nok) = 3 /\ Nok[1] = "R" /\ Nok[2] = "N" /\ Nok[3] = LF
      BY <1>6 DEF Nok
    <3>2. k = 3
      BY <1>1, <1>7, <1>8, <3>1
    <3> QED BY <1>1, <1>4, <1>11, <1>14, <3>1, <3>2
  <2> QED BY <2>1, <2>2, <2>3 DEF Inv, Progress, SavedIsSent, FailureHasCause, NoFileIsTold
<1> QED BY <1>2, <1>12, <1>13, <1>14

(* A set of naturals that is not empty has a least element. *)
LEMMA LeastElement ==
  ASSUME NEW T \in SUBSET Nat, T # {}
  PROVE  \E m \in T : \A n \in T : m <= n
<1>1. PICK m \in T : \A n \in T : ~ (<<n, m>> \in OpToRel(<, Nat))
  BY NatLessThanWellFounded, WFMin
<1>2. \A n \in T : <<n, m>> \in OpToRel(<, Nat) <=> n < m
  BY DEF OpToRel
<1>3. \A n \in T : n \in Nat /\ m \in Nat /\ ~ (n < m)
  BY <1>1, <1>2
<1> QED BY <1>3

(* A token ends at the first space or NUL, at the latest at the end of the *)
(* buffer.                                                                 *)
LEMMA EndIs ==
  ASSUME NEW b, b[Big] = NUL, Big \in Nat, NEW from \in 0..Big
  PROVE  LET e == EndOf(b, from)
         IN /\ e \in from..Big /\ b[e] \in {SP, NUL} /\ \A j \in from..(e - 1) : b[j] \notin {SP, NUL}
            /\ \A i \in from..Big : b[i] \in {SP, NUL} /\ (\A j \in from..(i - 1) : b[j] \notin {SP, NUL}) => e = i
            /\ NextAt(b, e) \in 0..Big /\ e <= NextAt(b, e)
<1> DEFINE T == {i \in from..Big : b[i] \in {SP, NUL}}
           e == EndOf(b, from)
<1>1. T \in SUBSET Nat /\ Big \in T
  OBVIOUS
<1>2. PICK m \in T : \A n \in T : m <= n
  BY <1>1, LeastElement
<1>3. m \in from..Big /\ b[m] \in {SP, NUL} /\ \A j \in from..(m - 1) : b[j] \notin {SP, NUL}
  <2>1. m \in from..Big /\ b[m] \in {SP, NUL}
    OBVIOUS
  <2>2. ASSUME NEW j \in from..(m - 1), b[j] \in {SP, NUL} PROVE FALSE
    <3>1. j \in T /\ ~ (m <= j)
      BY <2>1, <2>2
    <3> QED BY <1>2, <3>1
  <2> QED BY <2>1, <2>2
<1>4. e \in from..Big /\ b[e] \in {SP, NUL} /\ \A j \in from..(e - 1) : b[j] \notin {SP, NUL}
  BY <1>3 DEF EndOf
<1> HIDE DEF e
<1>5. ASSUME NEW i \in from..Big, b[i] \in {SP, NUL}, \A j \in from..(i - 1) : b[j] \notin {SP, NUL}
      PROVE  e = i
  <2>1. ~ (e < i)
    <3> SUFFICES ASSUME e < i PROVE FALSE
      OBVIOUS
    <3>1. e \in from..(i - 1)
      BY <1>4
    <3> QED BY <1>4, <1>5, <3>1
  <2>2. ~ (i < e)
    <3> SUFFICES ASSUME i < e PROVE FALSE
      OBVIOUS
    <3>1. i \in from..(e - 1)
      BY <1>4
    <3> QED BY <1>4, <1>5, <3>1
  <2> QED BY <1>4, <2>1, <2>2
<1>6. NextAt(b, e) \in 0..Big /\ e <= NextAt(b, e)
  <2>1. b[e] = SP => e # Big
    BY CharsDiffer
  <2> QED BY <1>4, <2>1 DEF NextAt
<1> QED BY <1>4, <1>5, <1>6 DEF e

(* Where it ends when the first space is known. *)
LEMMA EndFound ==
  ASSUME NEW b, b[Big] = NUL, Big \in Nat, NEW from \in 0..Big, NEW i \in from..Big,
         b[i] = SP, \A j \in from..(i - 1) : b[j] \notin {SP, NUL}
  PROVE  EndOf(b, from) = i
<1>1. b[i] \in {SP, NUL}
  OBVIOUS
<1> QED BY <1>1, EndIs

(* Tokens of digits are numbers. *)
LEMMA NumberIs ==
  ASSUME NEW n \in 0..Big, NEW tok, tok = [i \in 1..n |-> tok[i]], Range(tok) \ Digits = {}
  PROVE  number(tok) \in Nat
<1>1. \A i \in 1..n : tok[i] \in Range(tok)
  BY DEF Range
<1>2. tok \in [1..n -> Digits]
  BY <1>1
<1> QED BY <1>2, NumbersAssumption

(* Where the variables of the client go after a block. *)
LEMMA BlockGoes ==
  ASSUME NEW d \in Variables, NEW fin \in BOOLEAN, d.cur <= d.full + 1, d.cur = d.full + 1 => fin
  PROVE  LET e == Block(d, fin)
         IN /\ e \in Variables /\ e.pc \in {"delay", "eof", "write"}
            /\ e.pc = "eof" <=> d.cur = d.full + 1
            /\ e.whence = d.whence /\ e.from = d.from /\ e.n = d.n /\ e.cur = d.cur /\ e.full = d.full
            /\ e.pos = d.pos /\ e.right = d.right /\ e.result = d.result
<1>1. ASSUME NEW p \in {"delay", "eof", "write"}
      PROVE  LET e == [d EXCEPT !.pc = p]
             IN /\ e \in Variables /\ e.pc = p
                /\ e.whence = d.whence /\ e.from = d.from /\ e.n = d.n /\ e.cur = d.cur /\ e.full = d.full
                /\ e.pos = d.pos /\ e.right = d.right /\ e.result = d.result
  BY DEF Variables, Steps
<1>2. d.cur \in Nat /\ d.full \in Nat
  BY DEF Variables
<1>3. CASE ~ fin
  <2>1. Block(d, fin) = [d EXCEPT !.pc = "write"] /\ d.cur # d.full + 1
    BY <1>3 DEF Block
  <2> QED BY <1>1, <2>1
<1>4. CASE fin /\ d.cur = d.full + 1
  <2>1. Block(d, fin) = [d EXCEPT !.pc = "eof"]
    BY <1>2, <1>4 DEF Block
  <2> QED BY <1>1, <1>4, <2>1
<1>5. CASE fin /\ d.cur # d.full + 1
  <2>1. Block(d, fin) = [d EXCEPT !.pc = "delay"]
    BY <1>2, <1>5 DEF Block
  <2> QED BY <1>1, <1>5, <2>1
<1> QED BY <1>3, <1>4, <1>5

(* It fails when the counts do not fit. *)
LEMMA BlockFails ==
  ASSUME NEW d, d.cur \in Int, d.full \in Nat, d.cur < 0
  PROVE  Block(d, TRUE) = Result("failed")
BY DEF Block

(* The variables after a header. *)
LEMMA HeaderVariables ==
  ASSUME NEW v \in Variables, NEW f, NEW n, NEW m, NEW rt
  PROVE  LET d == [v EXCEPT !.from = f, !.n = n, !.cur = n, !.full = m, !.right = rt]
         IN /\ d.whence = v.whence /\ d.from = f /\ d.n = n /\ d.cur = n /\ d.full = m
            /\ d.pos = v.pos /\ d.right = rt /\ d.result = v.result
            /\ f \in Nat /\ n \in Nat /\ m \in Nat /\ rt \in BOOLEAN => d \in Variables
BY DEF Variables

(* The tokens of a header that is all there. *)
LEMMA WholeHeader ==
  ASSUME NEW req \in Answers, NEW b, b[Big] = NUL, Big \in Nat, NEW t \in Nat,
         Len(Header(req)) <= t, t <= Len(Answer(req)), \A i \in 1..t : b[i - 1] = Answer(req)[i]
  PROVE  LET end1 == EndOf(b, Len(Status(req.cmd)))
             n1   == NextAt(b, end1)
             end2 == EndOf(b, n1)
             h    == Len(Header(req))
         IN /\ NextAt(b, end2) = h /\ end1 \in 0..(h - 1) /\ end2 \in 0..(h - 1)
            /\ Text(b, Len(Status(req.cmd)), end1) = Name
            /\ Text(b, n1, end2) = Size(req)
<1> DEFINE ls == Len(Status(req.cmd))
           ln == Len(Name)
           ld == Len(Size(req))
           h  == Len(Header(req))
           S  == Answer(req)
           end1 == EndOf(b, ls)
           n1   == NextAt(b, end1)
           end2 == EndOf(b, n1)
<1>1. /\ ls \in 2..3 /\ ln \in Nat \ {0} /\ ld \in Nat \ {0} /\ h = ls + ln + ld + 2 /\ h <= Big
      /\ Len(S) \in Nat /\ h \in Nat
      /\ \A i \in 1..ln : S[ls + i] = Name[i] /\ S[ls + i] \notin {SP, NUL}
      /\ S[ls + ln + 1] = SP
      /\ \A i \in 1..ld : S[ls + ln + 1 + i] = Size(req)[i] /\ S[ls + ln + 1 + i] \in Digits
      /\ S[h] = SP
  BY AnswerParts, Zenon
<1>2. \A from, to \in Nat, s \in Seq(Chars) :
        from + Len(s) = to /\ (\A i \in 1..Len(s) : b[from + i - 1] = s[i]) => Text(b, from, to) = s
  <2>1. FoundIn(b)
    BY TextFound
  <2> QED BY <2>1 DEF FoundIn
<1>3. Name \in Seq(Chars) /\ Size(req) \in Seq(Chars)
  BY CharsAre, SizeIs
<1>4. h <= t /\ t <= Len(S) /\ \A i \in 1..t : b[i - 1] = S[i]
  OBVIOUS
<1> HIDE DEF ls, h, S
<1>5. end1 = ls + ln /\ n1 = ls + ln + 1
  <2> HIDE DEF ln, ld
  <2>1. ls \in 0..Big /\ ls + ln \in ls..Big
    <3>1. \A i, j, k, n \in Nat : i + j + k + 2 <= n => i \in 0..n /\ i + j \in i..n
      OBVIOUS
    <3>2. ls \in Nat /\ ln \in Nat /\ ld \in Nat /\ Big \in Nat /\ ls + ln + ld + 2 <= Big
      BY <1>1
    <3> QED BY <3>1, <3>2
  <2>2. b[ls + ln] = SP
    <3>1. ls + ln + 1 \in 1..t /\ (ls + ln + 1) - 1 = ls + ln
      BY <1>1, <1>4
    <3>2. b[(ls + ln + 1) - 1] = S[ls + ln + 1]
      BY <1>4, <3>1, Zenon
    <3>3. S[ls + ln + 1] = SP
      BY <1>1
    <3> QED BY <3>1, <3>2, <3>3, Zenon
  <2>3. \A j \in ls..((ls + ln) - 1) : b[j] \notin {SP, NUL}
    <3> TAKE j \in ls..((ls + ln) - 1)
    <3>1. j + 1 \in 1..t /\ (j + 1) - 1 = j /\ j + 1 - ls \in 1..ln /\ ls + (j + 1 - ls) = j + 1
      <4>1. \A x, y, z, u, v \in Nat : \A i \in x..((x + y) - 1) :
              x + y + z + 2 = u /\ u <= v =>
                i + 1 \in 1..v /\ (i + 1) - 1 = i /\ i + 1 - x \in 1..y /\ x + (i + 1 - x) = i + 1
        OBVIOUS
      <4> QED BY <1>1, <1>4, <4>1
    <3>2. b[j] = S[j + 1]
      BY <1>4, <3>1
    <3>3. PICK i \in 1..ln : ls + i = j + 1
      BY <3>1, Zenon
    <3>4. S[ls + i] \notin {SP, NUL}
      BY <1>1, Zenon
    <3> QED BY <3>2, <3>3, <3>4, Zenon
  <2>4. end1 = ls + ln
    <3> DEFINE e == ls + ln
    <3>1. ls \in 0..Big /\ e \in ls..Big /\ b[e] = SP /\ \A j \in ls..(e - 1) : b[j] \notin {SP, NUL}
      BY <2>1, <2>2, <2>3, Zenon
    <3> HIDE DEF e
    <3>2. end1 = e
      BY <3>1, EndFound
    <3> QED BY <3>2 DEF e
  <2> HIDE DEF end1
  <2> QED BY <2>2, <2>4 DEF NextAt
<1> HIDE DEF end1
<1>6. end2 = h - 1 /\ NextAt(b, end2) = h
  <2> HIDE DEF ln, ld, n1
  <2>1. n1 \in 0..Big /\ h - 1 \in n1..Big
    <3>1. \A x, y, z, u, v, n \in Nat :
            n = x + y + 1 /\ u = x + y + z + 2 /\ u <= v => n \in 0..v /\ u - 1 \in n..v
      OBVIOUS
    <3>2. ls \in Nat /\ ln \in Nat /\ ld \in Nat /\ h \in Nat /\ Big \in Nat
          /\ h = ls + ln + ld + 2 /\ h <= Big
      BY <1>1
    <3>3. ls + ln + 1 \in Nat /\ n1 = ls + ln + 1
      <4>1. ls + ln + 1 \in Nat
        BY <3>2
      <4> QED BY <1>5, <4>1
    <3> HIDE DEF h
    <3>4. n1 \in Nat
      BY <3>3
    <3> QED BY <3>1, <3>2, <3>3, <3>4
  <2>2. b[h - 1] = SP
    <3>1. h \in 1..t
      BY <1>1, <1>4
    <3> QED BY <1>1, <1>4, <3>1
  <2>3. \A j \in n1..(h - 1 - 1) : b[j] \notin {SP, NUL}
    <3> TAKE j \in n1..(h - 1 - 1)
    <3>1. /\ j + 1 \in 1..t /\ (j + 1) - 1 = j
          /\ j + 1 - (ls + ln + 1) \in 1..ld /\ ls + ln + 1 + (j + 1 - (ls + ln + 1)) = j + 1
      BY <1>1, <1>4, <1>5
    <3>2. b[j] = S[j + 1] /\ S[j + 1] \in Digits
      BY <1>1, <1>4, <3>1
    <3> QED BY <3>2, CharsDiffer
  <2>4. end2 = h - 1
    BY <2>1, <2>2, <2>3, EndFound
  <2>5. (h - 1) + 1 = h
    BY <1>1
  <2> HIDE DEF end2
  <2> QED BY <2>2, <2>4, <2>5 DEF NextAt
<1> HIDE DEF n1, end2
<1>7. Text(b, ls, end1) = Name
  <2>1. ls \in Nat /\ end1 \in Nat /\ ls + Len(Name) = end1
    BY <1>1, <1>5
  <2>2. \A i \in 1..Len(Name) : b[ls + i - 1] = Name[i]
    <3> TAKE i \in 1..Len(Name)
    <3> HIDE DEF ld
    <3>1. ls + i \in 1..t
      BY <1>1, <1>4
    <3> QED BY <1>1, <1>4, <3>1
  <2> QED BY <1>3, <2>1, <2>2, <1>2, Zenon
<1>8. Text(b, n1, end2) = Size(req)
  <2>1. n1 \in Nat /\ end2 \in Nat /\ n1 + Len(Size(req)) = end2
    BY <1>1, <1>5, <1>6
  <2>2. \A i \in 1..Len(Size(req)) : b[n1 + i - 1] = Size(req)[i]
    <3> TAKE i \in 1..Len(Size(req))
    <3> HIDE DEF ln
    <3>1. n1 + i \in 1..t /\ n1 + i = ls + ln + 1 + i /\ i \in 1..ld
      <4>1. i \in 1..ld
        OBVIOUS
      <4> HIDE DEF ld
      <4>2. \A x, y, z, u, v \in Nat : \A m \in 1..z :
              x + y + z + 2 = u /\ u <= v => x + y + 1 + m \in 1..v
        OBVIOUS
      <4>3. ls + ln + 1 + i \in 1..t
        <5>1. ls \in Nat /\ ln \in Nat /\ ld \in Nat /\ h \in Nat /\ h = ls + ln + ld + 2
          BY <1>1
        <5>2. h <= t /\ ls + ln + ld + 2 = h
          BY <1>4, <5>1
        <5> HIDE DEF ls, ln, h
        <5> QED BY <4>1, <4>2, <5>1, <5>2
      <4>4. n1 + i = ls + ln + 1 + i
        BY <1>5
      <4>5. n1 + i \in 1..t
        BY <4>3, <4>4, Zenon
      <4> QED BY <4>1, <4>4, <4>5, Zenon
    <3>2. b[n1 + i - 1] = S[n1 + i]
      <4>1. PICK m \in 1..t : m = n1 + i
        BY <3>1
      <4>2. b[m - 1] = S[m]
        BY <1>4
      <4>3. m - 1 = n1 + i - 1
        BY <2>1, <4>1
      <4> QED BY <4>1, <4>2, <4>3
    <3>3. S[ls + ln + 1 + i] = Size(req)[i]
      BY <1>1, <3>1
    <3> QED BY <3>1, <3>2, <3>3
  <2> QED BY <1>3, <2>1, <2>2, <1>2, Zenon
<1>9. end1 \in 0..(h - 1) /\ end2 \in 0..(h - 1)
  <2> HIDE DEF ln, ld
  <2>1. \A x, y, z, u \in Nat : u = x + y + z + 2 => x + y \in 0..(u - 1) /\ u - 1 \in 0..(u - 1)
    OBVIOUS
  <2>2. ls \in Nat /\ ln \in Nat /\ ld \in Nat /\ h \in Nat /\ h = ls + ln + ld + 2
    BY <1>1
  <2> QED BY <1>5, <1>6, <2>1, <2>2
<1> QED BY <1>6, <1>7, <1>8, <1>9 DEF ls, h, S, end1, n1, end2

(* Of a header that is cut before the space behind the size, no more than  *)
(* the whole size is read, when nothing of what the buffer held before is. *)
LEMMA CutHeader ==
  ASSUME NEW req \in Answers, NEW b, b[Big] = NUL, Big \in Nat, NEW t \in Nat,
         Len(Status(req.cmd)) <= t, t < Len(Header(req)), \A i \in 1..t : b[i - 1] = Answer(req)[i]
  PROVE  LET n1   == NextAt(b, EndOf(b, Len(Status(req.cmd))))
             end2 == EndOf(b, n1)
             next == NextAt(b, end2)
         IN /\ t <= next /\ next \in 0..Big /\ n1 \in 0..Big /\ end2 \in n1..Big
            /\ next = t => number(Text(b, n1, end2)) \in 0..Len(req.data)
<1> DEFINE ls == Len(Status(req.cmd))
           ln == Len(Name)
           ld == Len(Size(req))
           h  == Len(Header(req))
           S  == Answer(req)
           end1 == EndOf(b, ls)
           n1   == NextAt(b, end1)
           end2 == EndOf(b, n1)
           next == NextAt(b, end2)
<1>1. /\ ls \in 2..3 /\ ln \in Nat \ {0} /\ ld \in Nat \ {0} /\ h = ls + ln + ld + 2 /\ h <= Big
      /\ Len(S) \in Nat /\ h \in Nat /\ h <= Len(S)
      /\ \A i \in 1..ln : S[ls + i] = Name[i] /\ S[ls + i] \notin {SP, NUL}
      /\ S[ls + ln + 1] = SP
      /\ \A i \in 1..ld : S[ls + ln + 1 + i] = Size(req)[i] /\ S[ls + ln + 1 + i] \in Digits
      /\ \A i \in 1..Len(S) : S[i] # NUL
  <2>1. Len(S) = h + Len(req.data) + 1 /\ Len(req.data) \in Nat /\ h \in Nat
    BY AnswerParts
  <2>2. h <= Len(S)
    <3> HIDE DEF h, S
    <3> QED BY <2>1
  <2> QED BY <2>2, AnswerParts
<1>2. \A from, to \in Nat, s \in Seq(Chars) :
        from + Len(s) = to /\ (\A i \in 1..Len(s) : b[from + i - 1] = s[i]) => Text(b, from, to) = s
  <2>1. FoundIn(b)
    BY TextFound
  <2> QED BY <2>1 DEF FoundIn
<1>3. /\ Size(req) \in Seq(Chars)
      /\ \A k \in 0..ld : number(SubSeq(Size(req), 1, k)) \in 0..Len(req.data)
  BY SizeIs
<1>4. ls <= t /\ t < h /\ \A i \in 1..t : b[i - 1] = S[i]
  OBVIOUS
<1> HIDE DEF ls, ln, ld, h, S
<1>5. ls \in 0..Big
  BY <1>1
<1>6. /\ end1 \in ls..Big /\ b[end1] \in {SP, NUL} /\ \A j \in ls..(end1 - 1) : b[j] \notin {SP, NUL}
      /\ n1 \in 0..Big /\ end1 <= n1
  BY <1>5, EndIs
<1> HIDE DEF n1
<1>7. /\ end2 \in n1..Big /\ b[end2] \in {SP, NUL} /\ \A j \in n1..(end2 - 1) : b[j] \notin {SP, NUL}
      /\ next \in 0..Big /\ end2 <= next
  BY <1>6, EndIs
<1> HIDE DEF end1, end2, next
<1>8. CASE t <= end1
  <2>1. t <= next
    BY <1>6, <1>7, <1>8
  <2>2. ASSUME next = t PROVE number(Text(b, n1, end2)) \in 0..Len(req.data)
    <3>1. n1 = t /\ end2 = t
      BY <1>6, <1>7, <1>8, <2>2
    <3>2. 0 \in 0..ld /\ 1 \in 1..(Len(Size(req)) + 1) /\ 0 \in (1 - 1)..Len(Size(req)) /\ 0 - 1 + 1 = 0
      BY <1>1 DEF ld
    <3> DEFINE s == SubSeq(Size(req), 1, 0)
    <3>3. s \in Seq(Chars) /\ Len(s) = 0
      BY <1>3, <3>2, SubSeqIs
    <3> HIDE DEF s
    <3>4. t \in Nat /\ t + Len(s) = t /\ \A i \in 1..Len(s) : b[t + i - 1] = s[i]
      BY <3>3
    <3>5. Text(b, t, t) = s
      BY <3>3, <3>4, <1>2, Zenon
    <3> QED BY <1>3, <3>1, <3>2, <3>5 DEF s
  <2> QED BY <1>6, <1>7, <2>1, <2>2 DEF next, end2, n1, end1, ls
<1>9. CASE end1 < t
  <2>1. end1 + 1 \in 1..t /\ (end1 + 1) - 1 = end1 /\ end1 + 1 \in 1..Len(S)
    BY <1>1, <1>4, <1>6, <1>9
  <2>2. S[end1 + 1] = SP /\ b[end1] = SP
    BY <1>1, <1>4, <1>6, <2>1
  <2>3. end1 = ls + ln
    <3>1. ~ (end1 < ls + ln)
      <4> SUFFICES ASSUME end1 < ls + ln PROVE FALSE
        OBVIOUS
      <4>1. end1 + 1 - ls \in 1..ln /\ ls + (end1 + 1 - ls) = end1 + 1
        BY <1>1, <1>6
      <4> QED BY <1>1, <2>2, <4>1
    <3>2. ~ (ls + ln < end1)
      <4> SUFFICES ASSUME ls + ln < end1 PROVE FALSE
        OBVIOUS
      <4>1. ls + ln + 1 \in 1..t /\ (ls + ln + 1) - 1 = ls + ln /\ ls + ln \in ls..(end1 - 1)
        BY <1>1, <1>6, <1>9
      <4>2. b[ls + ln] = SP
        BY <1>1, <1>4, <4>1
      <4>3. b[ls + ln] \notin {SP, NUL}
        BY <1>6, <4>1
      <4> QED BY <4>2, <4>3
    <3>3. end1 \in Nat /\ ls + ln \in Nat
      <4>1. ls \in Nat /\ ln \in Nat
        BY <1>1
      <4> QED BY <1>6, <4>1
    <3> QED BY <3>1, <3>2, <3>3
  <2>4. n1 = ls + ln + 1
    BY <2>2, <2>3 DEF n1, NextAt
  <2>5. t <= end2
    <3> SUFFICES ASSUME end2 < t PROVE FALSE
      BY <1>7
    <3>1. /\ end2 + 1 \in 1..t /\ (end2 + 1) - 1 = end2
          /\ end2 + 1 - (ls + ln + 1) \in 1..ld /\ ls + ln + 1 + (end2 + 1 - (ls + ln + 1)) = end2 + 1
      BY <1>1, <1>4, <1>7, <2>4
    <3>2. b[end2] = S[end2 + 1] /\ S[end2 + 1] \in Digits
      BY <1>1, <1>4, <3>1
    <3> QED BY <1>7, <3>2, CharsDiffer
  <2>6. t <= next
    BY <1>6, <1>7, <2>5
  <2>7. ASSUME next = t PROVE number(Text(b, n1, end2)) \in 0..Len(req.data)
    <3>1. end2 = t
      BY <1>6, <1>7, <2>5, <2>7
    <3> DEFINE q == t - n1
               s == SubSeq(Size(req), 1, q)
    <3>2. q \in 0..ld /\ n1 \in Nat
      BY <1>1, <1>4, <1>7, <2>4, <3>1
    <3> HIDE DEF q
    <3>3. s \in Seq(Chars) /\ Len(s) = q /\ \A i \in 1..q : s[i] = Size(req)[i]
      <4>1. 1 \in 1..(Len(Size(req)) + 1) /\ q \in (1 - 1)..Len(Size(req))
            /\ q - 1 + 1 = q /\ \A i \in 1..q : 1 + i - 1 = i
        BY <1>1, <3>2 DEF ld
      <4> QED BY <1>3, <4>1, SubSeqIs
    <3> HIDE DEF s
    <3>4. n1 + Len(s) = t
      BY <1>6, <3>2, <3>3 DEF q
    <3>5. \A i \in 1..Len(s) : b[n1 + i - 1] = s[i]
      <4> TAKE i \in 1..Len(s)
      <4>1. n1 + i \in 1..t /\ i \in 1..ld /\ n1 + i = ls + ln + 1 + i
        <5>1. i \in 1..q /\ n1 + q = t /\ q <= ld
          BY <1>1, <3>2, <3>3, <3>4
        <5>2. q \in Nat /\ ld \in Nat /\ n1 \in Nat /\ t \in Nat
          BY <1>1, <3>2
        <5>3. \A x, y, z, u \in Nat : \A m \in 1..y : x + y = u /\ y <= z => x + m \in 1..u /\ m \in 1..z
          OBVIOUS
        <5>4. n1 + i \in 1..t /\ i \in 1..ld
          BY <5>1, <5>2, <5>3
        <5>5. n1 + i = ls + ln + 1 + i
          BY <2>4
        <5> QED BY <5>4, <5>5
      <4>2. b[n1 + i - 1] = S[n1 + i]
        <5>1. PICK m \in 1..t : m = n1 + i
          BY <4>1
        <5>2. b[m - 1] = S[m]
          BY <1>4
        <5>3. m - 1 = n1 + i - 1
          BY <3>2, <5>1
        <5> QED BY <5>1, <5>2, <5>3
      <4>3. S[ls + ln + 1 + i] = Size(req)[i] /\ s[i] = Size(req)[i]
        BY <1>1, <3>3, <4>1
      <4> QED BY <4>1, <4>2, <4>3
    <3>6. Text(b, n1, t) = s
      BY <3>2, <3>3, <3>4, <3>5, <1>2, Zenon
    <3> QED BY <1>3, <3>1, <3>2, <3>6 DEF s
  <2> QED BY <1>6, <1>7, <2>6, <2>7 DEF next, end2, n1, end1, ls
<1> QED BY <1>6, <1>8, <1>9

(* The first block: what it leaves in the buffer.  The client has t        *)
(* characters of the answer there, when the status was not cut.            *)
LEMMA HeaderBuffer ==
  ASSUME Inv, ReadHeader, NEW r \in Nat, OnWay(r), AtHeader(r)
  PROVE  LET k == Received(Room)
             S == Answer(request)
             b == Filled(c.whence, k)
             t == c.whence + k
         IN /\ request \in Answers /\ Big \in Nat /\ Lim < Big
            /\ c.whence \in 1..Lim /\ k \in Nat /\ t \in 0..Big /\ r + k <= Len(S) /\ Len(S) \in Nat
            /\ DOMAIN b = 0..Big /\ b[Big] = NUL
            /\ ready' \in Seq(Chars)
            /\ \A m \in Nat : m = r + k => OnWay(m)'
            /\ t < Big => finished(Room)
            /\ ~ finished(Room) => t = Big /\ r + k < Len(S)
            /\ "cut" \notin mishaps => /\ r = c.whence /\ Len(Status(request.cmd)) <= t
                                       /\ \A i \in 1..t : b[i - 1] = S[i]
            /\ "cut" \in mishaps => request.cmd = "STA" /\ b[3] = NUL
<1> DEFINE k == Received(Room)
           S == Answer(request)
           w == c.whence
           b == Filled(w, k)
<1>1. Types /\ Flow /\ request \in Asked
  BY FlowIs DEF Inv, Types, ReadHeader
<1>2. RecvAll(Room) /\ mishaps \subseteq mishaps' /\ mishaps' \subseteq mishaps \union {"cut"}
  BY DEF ReadHeader
<1>3. /\ request \in Answers /\ S = Stream(request) /\ S \in Seq(Chars) /\ Len(S) \in Nat
  BY <1>1, StreamIs DEF AtHeader
<1>4. w \in 1..Lim /\ Lim < Big /\ Big \in Nat
  BY <1>1, BigIsEnough DEF AtHeader
<1>5. Room = Big - w /\ Room \in Nat \ {0}
  BY <1>4 DEF Room, Lim
<1>6. /\ k \in 1..Room /\ r + k <= Len(S)
      /\ \A i \in 1..k : ready[i] = S[r + i]
      /\ ready' \in Seq(Chars)
      /\ \A m \in Nat : m = r + k => OnWay(m)'
      /\ k < Room => finished(Room)
      /\ ~ finished(Room) => k = Room /\ r + k < Len(S)
  BY <1>1, <1>2, <1>3, <1>5, Receive
<1> HIDE DEF k, S, w
<1>7. k \in Nat /\ w \in Nat /\ w + k \in 0..Big /\ w + k <= Big
      /\ (w + k < Big => k < Room) /\ (k = Room => w + k = Big)
  BY <1>4, <1>5, <1>6 DEF Lim
<1>8. /\ DOMAIN b = 0..Big /\ b[Big] = NUL
      /\ \A i \in 1..k : b[w + i - 1] = ready[i]
      /\ \A i \in 0..Big : i < w \/ w + k <= i => b[i] = buf[i]
  BY <1>1, <1>7, FilledIs
<1> HIDE DEF b
<1>9. ASSUME "cut" \notin mishaps
      PROVE  r = w /\ Len(Status(request.cmd)) <= w + k /\ \A i \in 1..(w + k) : b[i - 1] = S[i]
  <2>1. r = w /\ Len(Status(request.cmd)) <= r /\ \A i \in 1..r : buf[i - 1] = S[i]
    BY <1>9 DEF AtHeader, S, w
  <2>2. Len(Status(request.cmd)) <= w + k
    <3>1. Len(Status(request.cmd)) \in Nat
      BY <1>3, AnswerParts
    <3> QED BY <1>7, <2>1, <3>1
  <2>3. ASSUME NEW i \in 1..(w + k) PROVE b[i - 1] = S[i]
    <3>1. CASE i <= w
      <4>1. i \in 1..r /\ i - 1 \in 0..Big /\ i - 1 < w
        BY <1>4, <1>7, <2>1, <3>1
      <4> QED BY <1>8, <2>1, <4>1
    <3>2. CASE w < i
      <4>1. PICK j \in 1..k : i = w + j /\ i - 1 = w + j - 1
        <5>1. i - w \in 1..k /\ i = w + (i - w) /\ i - 1 = w + (i - w) - 1
          BY <1>7, <3>2
        <5> QED BY <5>1
      <4>2. b[w + j - 1] = ready[j] /\ ready[j] = S[r + j]
        BY <1>6, <1>8
      <4> QED BY <2>1, <4>1, <4>2
    <3> QED BY <1>7, <3>1, <3>2
  <2> QED BY <2>1, <2>2, <2>3
<1>10. ASSUME "cut" \in mishaps PROVE request.cmd = "STA" /\ b[3] = NUL
  <2>1. request.cmd = "STA" /\ w = Lim /\ buf[Lim - 1] = NUL
    BY <1>10 DEF AtHeader, w
  <2>2. 3 \in 0..Big /\ 3 < w /\ Lim - 1 = 3
    BY <1>4, <2>1 DEF Lim
  <2> QED BY <1>8, <2>1, <2>2
<1> QED BY <1>3, <1>4, <1>6, <1>7, <1>8, <1>9, <1>10 DEF k, S, b, w

(* The ends of tokens are overwritten. *)
LEMMA TwoEnds ==
  ASSUME NEW f, DOMAIN f = 0..Big, f[Big] = NUL, Big \in Nat, NEW x \in 0..Big, NEW y \in 0..Big
  PROVE  LET g == [f EXCEPT ![x] = NUL, ![y] = NUL]
         IN DOMAIN g = 0..Big /\ g[Big] = NUL /\ \A i \in 0..Big : i # x /\ i # y => g[i] = f[i]
<1> DEFINE g1 == [f EXCEPT ![x] = NUL]
           g2 == [g1 EXCEPT ![y] = NUL]
<1>1. DOMAIN g1 = 0..Big /\ \A i \in 0..Big : g1[i] = IF i = x THEN NUL ELSE f[i]
  OBVIOUS
<1> HIDE DEF g1
<1>2. DOMAIN g2 = 0..Big /\ \A i \in 0..Big : g2[i] = IF i = y THEN NUL ELSE g1[i]
  BY <1>1
<1>3. [f EXCEPT ![x] = NUL, ![y] = NUL] = g2
  BY DEF g1
<1> HIDE DEF g2
<1> QED BY <1>1, <1>2, <1>3

(* The first block. *)
LEMMA ReadHeaderInv ==
  ASSUME Inv, ReadHeader
  PROVE  Inv'
<1> DEFINE k    == Received(Room)
           S    == Answer(request)
           b    == Filled(c.whence, k)
           t    == c.whence + k
           st   == Status(request.cmd)
           h    == Len(Header(request))
           end1 == EndOf(b, Len(st))
           n1   == NextAt(b, end1)
           end2 == EndOf(b, n1)
           next == NextAt(b, end2)
           name == Text(b, Len(st), end1)
           tok  == Text(b, n1, end2)
           cur  == c.whence + k - next
           isIt == name = Name
           d    == [c EXCEPT !.from = next, !.n = cur, !.cur = cur, !.full = number(tok), !.right = (name = Name)]
<1>1. Types /\ c.pc = "header"
  BY DEF Inv, ReadHeader
<1>2. PICK r \in Nat : OnWay(r) /\ AtHeader(r)
  BY <1>1 DEF Inv, Progress, At
<1>3. /\ request.kind = "OK" /\ file = before
      /\ c = [Idle EXCEPT !.pc = "header", !.whence = c.whence]
  BY <1>2 DEF AtHeader
<1>4. /\ request \in Answers /\ Big \in Nat /\ Lim < Big
      /\ c.whence \in 1..Lim /\ k \in Nat /\ t \in 0..Big /\ r + k <= Len(S) /\ Len(S) \in Nat
      /\ DOMAIN b = 0..Big /\ b[Big] = NUL
      /\ ready' \in Seq(Chars)
      /\ \A m \in Nat : m = r + k => OnWay(m)'
      /\ t < Big => finished(Room)
      /\ ~ finished(Room) => t = Big /\ r + k < Len(S)
      /\ "cut" \notin mishaps => r = c.whence /\ Len(st) <= t /\ \A i \in 1..t : b[i - 1] = S[i]
      /\ "cut" \in mishaps => request.cmd = "STA" /\ b[3] = NUL
  BY <1>2, HeaderBuffer
<1>5. /\ buf' = [b EXCEPT ![end1] = NUL, ![end2] = NUL]
      /\ mishaps' = IF t < h THEN mishaps \union {"cut"} ELSE mishaps
      /\ c' = IF name = << >> \/ Range(tok) \ Digits # {} THEN Result("failed") ELSE Block(d, finished(Room))
      /\ UNCHANGED <<request, server, writes, wire, before, file>>
  <2>1. buf' = [b EXCEPT ![end1] = NUL, ![end2] = NUL]
    BY Zenon DEF ReadHeader
  <2>2. mishaps' = IF t < h THEN mishaps \union {"cut"} ELSE mishaps
    BY DEF ReadHeader
  <2>3. c' = IF name = << >> \/ Range(tok) \ Digits # {} THEN Result("failed") ELSE Block(d, finished(Room))
    BY Zenon DEF ReadHeader
  <2>4. UNCHANGED <<request, server, writes, wire, before, file>>
    BY DEF ReadHeader, RecvAll
  <2> HIDE DEF b, t, h, end1, end2, name, tok, d
  <2> QED BY <2>1, <2>2, <2>3, <2>4
<1>6. /\ Len(st) \in 2..3 /\ h \in Nat /\ h <= Big /\ Len(Name) \in Nat \ {0}
      /\ request.data \in Seq(Chars) /\ Len(request.data) \in Nat /\ Len(S) = h + Len(request.data) + 1
      /\ \A i \in 1..Len(request.data) : S[h + i] = request.data[i]
  BY <1>4, AnswerParts, AnswerIs
<1>7. /\ c \in Variables /\ c.pos = 0 /\ c.result = "none"
  BY <1>1, <1>3 DEF Types, Idle
<1> HIDE DEF k, S, b, t, st, h, end1, n1, end2, next, name, tok, cur, isIt, d
<1>8. end1 \in 0..Big /\ n1 \in 0..Big /\ end2 \in n1..Big /\ next \in 0..Big
  <2>1. Len(st) \in 0..Big
    <3>1. \A l \in 2..3, n \in Nat : 4 < n => l \in 0..n
      OBVIOUS
    <3> QED BY <1>4, <1>6, <3>1 DEF Lim
  <2>2. end1 \in Len(st)..Big /\ n1 \in 0..Big
    BY <1>4, <2>1, EndIs DEF end1, n1
  <2>3. end2 \in n1..Big /\ next \in 0..Big
    BY <1>4, <2>2, EndIs DEF end2, next
  <2> QED BY <2>1, <2>2, <2>3
<1>9. cur = t - next /\ cur \in Int /\ t \in Nat /\ next \in Nat
  <2>1. c.whence \in Nat
    BY <1>4 DEF Lim
  <2>2. k \in Nat /\ next \in Nat
    BY <1>4, <1>8
  <2>3. t = c.whence + k
    BY DEF t
  <2> QED BY <2>1, <2>2, <2>3 DEF cur
<1>10. DOMAIN buf' = 0..Big /\ buf'[Big] = NUL /\ \A i \in 0..Big : i # end1 /\ i # end2 => buf'[i] = b[i]
  <2>1. end1 \in 0..Big /\ end2 \in 0..Big
    BY <1>8
  <2>2. DOMAIN b = 0..Big /\ b[Big] = NUL /\ Big \in Nat
    BY <1>4
  <2>3. buf' = [b EXCEPT ![end1] = NUL, ![end2] = NUL]
    BY <1>5
  <2> QED BY <2>1, <2>2, <2>3, TwoEnds
<1>11. ASSUME c' \in Variables, c'.from + c'.n <= Big, c' # Idle, c'.pc # "idle" => c'.result = "none"
       PROVE  Types'
  <2>1. mishaps' \subseteq mishaps \union {"cut", "slow"} /\ c.pc # "idle"
    BY <1>1, <1>5
  <2> QED BY <1>1, <1>4, <1>5, <1>10, <1>11, <2>1, ClientTypes
<1>12. ASSUME c' = Result("failed"), mishaps' # {} PROVE Inv'
  <2>1. "failed" \in Results \ {"none"} /\ 0 + 0 <= Big
    BY <1>4 DEF Results
  <2>2. Types'
    BY <1>11, <1>12, <2>1, ResultIs
  <2>3. request'.kind = "OK"
    BY <1>3, <1>5
  <2> QED BY <1>12, <2>2, <2>3, Fails
<1>13. PICK m \in Nat : m = r + k /\ OnWay(m)'
  BY <1>4
<1>14. /\ d.whence = c.whence /\ d.from = next /\ d.n = cur /\ d.cur = cur /\ d.full = number(tok)
       /\ d.pos = 0 /\ d.right = isIt /\ d.result = "none"
       /\ cur \in Nat /\ number(tok) \in Nat => d \in Variables
  <2>1. next \in Nat
    BY <1>8
  <2>2. isIt \in BOOLEAN
    BY DEF isIt
  <2>3. /\ d.whence = c.whence /\ d.from = next /\ d.n = cur /\ d.cur = cur /\ d.full = number(tok)
        /\ d.pos = c.pos /\ d.right = isIt /\ d.result = c.result
        /\ next \in Nat /\ cur \in Nat /\ number(tok) \in Nat /\ isIt \in BOOLEAN => d \in Variables
    <3> DEFINE e == [c EXCEPT !.from = next, !.n = cur, !.cur = cur, !.full = number(tok), !.right = isIt]
    <3>1. d = e
      BY DEF d, isIt
    <3>2. /\ e.whence = c.whence /\ e.from = next /\ e.n = cur /\ e.cur = cur /\ e.full = number(tok)
          /\ e.pos = c.pos /\ e.right = isIt /\ e.result = c.result
          /\ next \in Nat /\ cur \in Nat /\ number(tok) \in Nat /\ isIt \in BOOLEAN => e \in Variables
      BY <1>7, HeaderVariables
    <3> HIDE DEF e
    <3> QED BY <3>1, <3>2
  <2> QED BY <1>7, <2>1, <2>2, <2>3
<1>15. ASSUME d \in Variables, next + cur <= Big, d.cur <= d.full + 1, d.cur = d.full + 1 => finished(Room),
              c' = Block(d, finished(Room))
       PROVE  /\ Types' /\ c'.pc \in {"delay", "eof", "write"} /\ (c'.pc = "eof" <=> d.cur = d.full + 1)
              /\ c'.whence = d.whence /\ c'.from = next /\ c'.n = cur /\ c'.cur = cur /\ c'.full = d.full
              /\ c'.pos = 0 /\ c'.right = d.right
  <2>1. finished(Room) \in BOOLEAN
    BY DEF finished
  <2>2. /\ c' \in Variables /\ c'.pc \in {"delay", "eof", "write"} /\ (c'.pc = "eof" <=> d.cur = d.full + 1)
        /\ c'.whence = d.whence /\ c'.from = d.from /\ c'.n = d.n /\ c'.cur = d.cur /\ c'.full = d.full
        /\ c'.pos = d.pos /\ c'.right = d.right /\ c'.result = d.result
    BY <1>15, <2>1, BlockGoes
  <2>3. c' # Idle
    BY <2>2 DEF Idle
  <2>4. Types'
    BY <1>11, <1>14, <1>15, <2>2, <2>3
  <2> QED BY <1>14, <2>2, <2>4
<1>16. CASE "cut" \in mishaps
  <2>1. Len(st) = 3
    BY <1>4, <1>16, StatusIs DEF st, Answers
  <2>2. end1 = 3
    <3>1. 3 \in 0..Big /\ 3 \in 3..Big /\ b[3] \in {SP, NUL} /\ \A j \in 3..(3 - 1) : b[j] \notin {SP, NUL}
      BY <1>4, <1>16 DEF Lim
    <3>2. EndOf(b, 3) = 3
      BY <1>4, <3>1, EndIs
    <3> QED BY <2>1, <3>2 DEF end1
  <2>3. name = << >>
    <3>1. 3 - 3 = 0
      OBVIOUS
    <3>2. Text(b, 3, 3) = [i \in 1..0 |-> b[3 + i - 1]]
      BY <3>1 DEF Text
    <3>3. [i \in 1..0 |-> b[3 + i - 1]] = << >>
      OBVIOUS
    <3> QED BY <2>1, <2>2, <3>2, <3>3 DEF name
  <2>4. mishaps' # {}
    BY <1>5, <1>16
  <2> QED BY <1>5, <1>12, <2>3, <2>4
<1>17. CASE "cut" \notin mishaps /\ t < h
  <2>1. "cut" \in mishaps' /\ mishaps' # {} /\ finished(Room)
    BY <1>4, <1>5, <1>6, <1>17
  <2>2. m = t
    BY <1>4, <1>13, <1>17 DEF t
  <2> SUFFICES ASSUME name # << >>, Range(tok) \ Digits = {}, c' = Block(d, finished(Room)) PROVE Inv'
    BY <1>5, <1>12, <2>1
  <2>3. number(tok) \in Nat
    <3> DEFINE n == end2 - n1
    <3>1. n \in 0..Big
      BY <1>4, <1>8
    <3>2. tok = [i \in 1..n |-> b[n1 + i - 1]]
      BY DEF tok, Text
    <3> HIDE DEF n
    <3>3. tok = [i \in 1..n |-> tok[i]]
      BY <3>2
    <3> QED BY <3>1, <3>3, NumberIs
  <2>4. t <= next /\ (next = t => number(tok) \in 0..Len(request.data))
    BY <1>4, <1>17, CutHeader DEF next, end2, n1, end1, tok, st, h, S
  <2>5. CASE next # t
    <3>1. cur \in Int /\ cur < 0
      BY <1>9, <2>4, <2>5
    <3>2. Block(d, TRUE) = Result("failed")
      BY <1>14, <2>3, <3>1, BlockFails
    <3>3. c' = Result("failed")
      BY <2>1, <3>2
    <3> QED BY <1>12, <2>1, <3>3
  <2>6. CASE next = t
    <3>1. cur = 0 /\ d \in Variables /\ next + cur <= Big
      BY <1>4, <1>14, <1>9, <2>3, <2>6
    <3>2. d.cur <= d.full + 1 /\ d.cur # d.full + 1
      BY <1>14, <2>3, <3>1
    <3>3. /\ Types' /\ c'.pc \in {"delay", "eof", "write"} /\ c'.pc # "eof"
          /\ c'.cur = 0 /\ c'.full = number(tok)
      BY <1>14, <1>15, <3>1, <3>2
    <3>4. m = m + 0 /\ m + number(tok) + 1 < Len(S)
      BY <1>4, <1>6, <1>17, <2>2, <2>3, <2>4, <2>6
    <3>5. request' = request /\ Answer(request') = S
      BY <1>5 DEF S
    <3>6. Partial(m)'
      BY <1>3, <2>1, <3>3, <3>4, <3>5 DEF Partial
    <3>7. At(m)'
      BY <3>3, <3>6 DEF At
    <3>8. c'.pc # "idle"
      BY <3>3
    <3> QED BY <1>13, <3>3, <3>7, <3>8, GoesOn
  <2> QED BY <2>5, <2>6
<1>18. CASE "cut" \notin mishaps /\ ~ (t < h)
  <2>1. h <= t /\ mishaps' = mishaps /\ m = t /\ t <= Len(S)
    BY <1>4, <1>5, <1>6, <1>13, <1>18 DEF t
  <2>2. next = h /\ end1 \in 0..(h - 1) /\ end2 \in 0..(h - 1) /\ name = Name /\ tok = Size(request)
    BY <1>4, <1>18, <2>1, WholeHeader DEF next, end2, n1, end1, tok, name, st, h, S
  <2>3. number(tok) = Len(request.data) /\ Range(tok) \ Digits = {} /\ name # << >>
    <3>1. /\ Size(request) \in Seq(Chars) /\ \A i \in 1..Len(Size(request)) : Size(request)[i] \in Digits
          /\ number(Size(request)) = Len(request.data)
      BY <1>4, SizeIs
    <3>2. Range(Size(request)) \subseteq Digits
      BY <3>1 DEF Range
    <3> QED BY <2>2, <3>1, <3>2, TcpFetchAssumption
  <2>4. c' = Block(d, finished(Room))
    BY <1>5, <2>3
  <2>5. cur = t - h /\ cur \in Nat /\ next + cur = t /\ cur <= Len(request.data) + 1
    BY <1>4, <1>6, <1>9, <2>1, <2>2
  <2>6. d \in Variables /\ d.full = Len(request.data) /\ d.cur = cur /\ d.right = TRUE
    <3>1. isIt = TRUE
      BY <2>2 DEF isIt
    <3> QED BY <1>6, <1>14, <2>2, <2>3, <2>5, <3>1
  <2>7. cur = Len(request.data) + 1 => finished(Room)
    BY <1>4, <1>6, <1>13, <2>1, <2>5
  <2>8. /\ Types' /\ c'.pc \in {"delay", "eof", "write"} /\ (c'.pc = "eof" <=> cur = Len(request.data) + 1)
        /\ c'.from = h /\ c'.n = cur /\ c'.cur = cur /\ c'.full = Len(request.data)
        /\ c'.pos = 0 /\ c'.right = TRUE
    BY <1>4, <1>15, <2>2, <2>4, <2>5, <2>6, <2>7
  <2>9. /\ request' = request /\ file' = before' /\ before' = before
        /\ Answer(request') = S /\ Len(Header(request')) = h
    BY <1>3, <1>5 DEF S, h
  <2>10. Kept'
    <3>1. before \in Seq(Chars)
      BY <1>1, CharsAre DEF Types
    <3>2. Len(before) \in Nat
      BY <3>1
    <3>3. ~ (Len(before) < 0) /\ \A i \in 1..Len(before) : ~ (i <= 0)
      BY <3>2
    <3> QED BY <2>8, <2>9, <3>1, <3>3 DEF Kept
  <2>11. \A i \in 1..cur : buf'[h + i - 1] = S[h + i]
    <3> TAKE i \in 1..cur
    <3>1. PICK j \in 1..t : j = h + i /\ j - 1 = h + i - 1 /\ j - 1 \in 0..Big /\ j - 1 # end1 /\ j - 1 # end2
      <4>1. /\ h + i \in 1..t /\ (h + i) - 1 = h + i - 1 /\ h + i - 1 \in 0..Big
            /\ h + i - 1 # end1 /\ h + i - 1 # end2
        <5>1. \A x, y, z, n \in Nat : \A e \in 1..y, f, g \in 0..(x - 1) : x + y = z /\ z <= n =>
                /\ x + e \in 1..z /\ (x + e) - 1 = x + e - 1 /\ x + e - 1 \in 0..n
                /\ x + e - 1 # f /\ x + e - 1 # g
          OBVIOUS
        <5>2. h \in Nat /\ cur \in Nat /\ t \in Nat /\ Big \in Nat /\ h + cur = t /\ t <= Big
          BY <1>4, <1>6, <2>2, <2>5
        <5> QED BY <2>2, <5>1, <5>2
      <4> QED BY <4>1
    <3>2. b[j - 1] = S[j]
      BY <1>4, <1>18
    <3> QED BY <1>10, <3>1, <3>2
  <2>12. \A i \in 1..cur : buf'[h + i - 1] = S[h + 0 + i]
    <3>1. h + 0 = h
      BY <1>6
    <3> QED BY <2>11, <3>1
  <2>13. Whole(m)'
    <3>1. cur = 0 + cur /\ m = h + cur
      BY <1>6, <2>1, <2>5
    <3>2. c'.pc = "eof" => c'.cur = c'.full + 1 /\ c'.n > 0
      BY <1>6, <2>8
    <3>3. c'.pc # "eof" => c'.cur <= c'.full
      BY <1>6, <2>5, <2>8
    <3>4. "cut" \notin mishaps' /\ request'.kind = "OK" /\ c'.pc # "more"
      BY <1>3, <1>18, <2>1, <2>8, <2>9
    <3> QED BY <2>8, <2>9, <2>10, <2>12, <3>1, <3>2, <3>3, <3>4 DEF Whole
  <2>14. At(m)'
    BY <2>8, <2>13 DEF At
  <2>15. c'.pc # "idle"
    BY <2>8
  <2> QED BY <1>13, <2>8, <2>14, <2>15, GoesOn
<1> QED BY <1>16, <1>17, <1>18

(* A further block. *)
LEMMA ReadMoreInv ==
  ASSUME Inv, ReadMore
  PROVE  Inv'
<1> DEFINE k == Received(Big)
           S == Answer(request)
           h == Len(Header(request))
           d == [c EXCEPT !.whence = 0, !.from = 0, !.n = k, !.cur = @ + k]
<1>1. Types /\ Flow /\ c.pc = "more" /\ request \in Asked /\ c \in Variables /\ c.result = "none"
  BY FlowIs DEF Inv, Types, ReadMore
<1>2. PICK r \in Nat : OnWay(r) /\ (Whole(r) \/ Partial(r))
  BY <1>1 DEF Inv, Progress, At
<1>3. request.kind = "OK" /\ request \in Answers /\ Stream(request) = S /\ Len(S) \in Nat
  BY <1>1, <1>2, StreamIs DEF Whole, Partial
<1>4. Big \in Nat \ {0}
  BY <1>1, BigIsEnough DEF Lim
<1>5. /\ RecvAll(Big) /\ buf' = Filled(0, k) /\ c' = Block(d, finished(Big))
      /\ UNCHANGED <<request, server, writes, wire, before, file, mishaps>>
  BY DEF ReadMore, RecvAll
<1>6. /\ k \in 1..Big /\ r + k <= Len(S)
      /\ \A i \in 1..k : ready[i] = S[r + i]
      /\ ready' \in Seq(Chars)
      /\ \A m \in Nat : m = r + k => OnWay(m)'
      /\ ~ finished(Big) => r + k < Len(S)
  <2>1. mishaps \subseteq mishaps' /\ mishaps' \subseteq mishaps \union {"cut"}
    BY <1>5
  <2> QED BY <1>1, <1>2, <1>3, <1>4, <1>5, <2>1, Receive
<1>7. /\ h \in Nat /\ Len(request.data) \in Nat /\ Len(S) = h + Len(request.data) + 1
  BY <1>3, AnswerParts
<1> HIDE DEF k, S, h
<1>8. DOMAIN buf' = 0..Big /\ buf'[Big] = NUL /\ \A i \in 1..k : buf'[0 + i - 1] = S[r + i]
  <2>1. 0 \in Nat /\ k \in Nat /\ 0 + k <= Big
    BY <1>4, <1>6
  <2> QED BY <1>1, <1>5, <1>6, <2>1, FilledIs
<1>9. /\ d \in Variables /\ d.whence = 0 /\ d.from = 0 /\ d.n = k /\ d.cur = c.cur + k /\ d.full = c.full
      /\ d.pos = c.pos /\ d.right = c.right /\ d.result = "none"
  <2>1. k \in Nat /\ c.cur \in Nat /\ c.cur + k \in Nat
    BY <1>1, <1>6 DEF Variables
  <2> QED BY <1>1, <2>1 DEF Variables
<1> HIDE DEF d
<1>10. ASSUME d.cur <= d.full + 1, d.cur = d.full + 1 => finished(Big)
       PROVE  /\ Types' /\ c'.pc \in {"delay", "eof", "write"} /\ (c'.pc = "eof" <=> d.cur = d.full + 1)
              /\ c'.whence = 0 /\ c'.from = 0 /\ c'.n = k /\ c'.cur = c.cur + k /\ c'.full = c.full
              /\ c'.pos = c.pos /\ c'.right = c.right
  <2>1. finished(Big) \in BOOLEAN
    BY DEF finished
  <2>2. /\ c' \in Variables /\ c'.pc \in {"delay", "eof", "write"} /\ (c'.pc = "eof" <=> d.cur = d.full + 1)
        /\ c'.whence = d.whence /\ c'.from = d.from /\ c'.n = d.n /\ c'.cur = d.cur /\ c'.full = d.full
        /\ c'.pos = d.pos /\ c'.right = d.right /\ c'.result = d.result
    BY <1>5, <1>9, <1>10, <2>1, BlockGoes
  <2>3. c' # Idle
    BY <2>2 DEF Idle
  <2>4. c'.from + c'.n <= Big
    BY <1>4, <1>6, <1>9, <2>2
  <2>5. mishaps' \subseteq mishaps \union {"cut", "slow"}
    BY <1>5
  <2>6. Types'
    BY <1>1, <1>5, <1>6, <1>8, <1>9, <2>2, <2>3, <2>4, <2>5, ClientTypes
  <2> QED BY <1>9, <2>2, <2>6
<1>11. PICK m \in Nat : m = r + k /\ OnWay(m)'
  <2>1. r + k \in Nat
    BY <1>6
  <2> QED BY <1>6, <2>1
<1>12. request' = request /\ Answer(request') = S /\ Len(Header(request')) = h
  BY <1>5 DEF S, h
<1>13. CASE Whole(r)
  <2>1. /\ "cut" \notin mishaps /\ c.right = TRUE /\ c.full = Len(request.data) /\ c.cur = c.pos + 0
        /\ r = h + c.cur /\ Kept
    BY <1>1, <1>13 DEF Whole, h, Variables
  <2>2. c.pos \in Nat /\ c.cur \in Nat /\ c.cur = c.pos /\ r = h + c.pos /\ k \in Nat
    BY <1>1, <1>6, <2>1 DEF Variables
  <2>3. /\ c.cur + k <= c.full + 1
        /\ (c.cur + k = c.full + 1 => finished(Big))
    <3>1. (h + c.cur) + k <= h + c.full + 1 /\ (~ finished(Big) => (h + c.cur) + k < h + c.full + 1)
      BY <1>6, <1>7, <2>1
    <3>2. h \in Nat /\ c.cur \in Nat /\ c.full \in Nat /\ k \in Nat
      BY <1>7, <2>1, <2>2
    <3>3. \A w, x, y, z \in Nat : /\ (w + x) + z <= w + y + 1 => x + z <= y + 1
                                 /\ (w + x) + z < w + y + 1 => x + z # y + 1
      OBVIOUS
    <3> QED BY <3>1, <3>2, <3>3
  <2>4. /\ Types' /\ c'.pc \in {"delay", "eof", "write"} /\ (c'.pc = "eof" <=> c.cur + k = c.full + 1)
        /\ c'.whence = 0 /\ c'.from = 0 /\ c'.n = k /\ c'.cur = c.cur + k /\ c'.full = c.full
        /\ c'.pos = c.pos /\ c'.right = c.right
    BY <1>9, <1>10, <2>3
  <2>5. Kept'
    BY <1>5, <2>1, <2>4 DEF Kept
  <2>6. \A i \in 1..k : buf'[0 + i - 1] = S[h + c.pos + i]
    BY <1>8, <2>2
  <2>7. m = h + (c.cur + k) /\ c.cur + k = c.pos + k
    BY <1>7, <1>11, <2>2
  <2>8. Whole(m)'
    <3>1. c'.pc = "eof" => c'.cur = c'.full + 1 /\ c'.n > 0
      BY <1>6, <2>4
    <3>2. c'.pc # "eof" => c'.cur <= c'.full
      <4>1. c.full \in Nat /\ c.cur + k \in Nat
        BY <1>7, <2>1, <2>2
      <4> QED BY <2>3, <2>4, <4>1
    <3>3. "cut" \notin mishaps' /\ request'.kind = "OK" /\ c'.pc # "more"
      BY <1>3, <1>5, <2>1, <2>4
    <3> QED BY <1>12, <2>1, <2>4, <2>5, <2>6, <2>7, <3>1, <3>2, <3>3 DEF Whole
  <2>9. At(m)'
    BY <2>4, <2>8 DEF At
  <2>10. c'.pc # "idle"
    BY <2>4
  <2> QED BY <1>11, <2>4, <2>9, <2>10, GoesOn
<1>14. CASE Partial(r)
  <2>1. "cut" \in mishaps
    BY <1>14 DEF Partial
  <2>2. PICK t \in Nat : r = t + c.cur /\ t + c.full + 1 < Len(S)
    BY <1>14 DEF Partial, S
  <2>3. c.cur \in Nat /\ c.full \in Nat /\ k \in Nat
    BY <1>1, <1>6 DEF Variables
  <2>4. CASE d.cur <= d.full + 1 /\ (d.cur = d.full + 1 => finished(Big))
    <3>1. /\ Types' /\ c'.pc \in {"delay", "eof", "write"} /\ (c'.pc = "eof" <=> c.cur + k = c.full + 1)
          /\ c'.whence = 0 /\ c'.from = 0 /\ c'.n = k /\ c'.cur = c.cur + k /\ c'.full = c.full
      BY <1>9, <1>10, <2>4
    <3>2. m = t + (c.cur + k)
      BY <1>11, <2>2, <2>3
    <3>3. Partial(m)'
      BY <1>3, <1>5, <1>12, <2>1, <2>2, <3>1, <3>2 DEF Partial
    <3>4. At(m)'
      BY <3>1, <3>3 DEF At
    <3>5. c'.pc # "idle"
      BY <3>1
    <3> QED BY <1>11, <3>1, <3>4, <3>5, GoesOn
  <2>5. CASE ~ finished(Big)
    <3>1. c' = [d EXCEPT !.pc = "write"]
      BY <1>5, <2>5 DEF Block
    <3>2. /\ c' \in Variables /\ c'.pc = "write" /\ c'.whence = 0 /\ c'.from = 0 /\ c'.n = k
          /\ c'.cur = c.cur + k /\ c'.full = c.full /\ c'.result = "none"
      BY <1>9, <3>1 DEF Variables, Steps
    <3>3. Types'
      <4>1. c' # Idle
        BY <3>2 DEF Idle
      <4>2. c'.from + c'.n <= Big
        BY <1>4, <1>6, <3>2
      <4>3. mishaps' \subseteq mishaps \union {"cut", "slow"}
        BY <1>5
      <4> QED BY <1>1, <1>5, <1>6, <1>8, <3>2, <4>1, <4>2, <4>3, ClientTypes
    <3>4. m = t + (c.cur + k)
      BY <1>11, <2>2, <2>3
    <3>5. Partial(m)'
      BY <1>3, <1>5, <1>12, <2>1, <2>2, <3>2, <3>4 DEF Partial
    <3>6. At(m)'
      BY <3>2, <3>5 DEF At
    <3>7. c'.pc # "idle"
      BY <3>2
    <3> QED BY <1>11, <3>3, <3>6, <3>7, GoesOn
  <2>6. CASE finished(Big) /\ ~ (d.cur <= d.full + 1)
    <3>1. c' = Result("failed")
      <4>1. ~ (d.cur < d.full + 1) /\ d.cur # d.full + 1
        BY <1>9, <2>3, <2>6
      <4> QED BY <1>5, <2>6, <4>1 DEF Block
    <3>2. "failed" \in Results \ {"none"} /\ 0 + 0 <= Big
      BY <1>4 DEF Results
    <3>3. Types'
      <4>1. mishaps' \subseteq mishaps \union {"cut", "slow"}
        BY <1>5
      <4> QED BY <1>1, <1>5, <1>6, <1>8, <3>1, <3>2, <4>1, ResultIs, ClientTypes
    <3>4. request'.kind = "OK" /\ mishaps' # {}
      BY <1>3, <1>5, <2>1
    <3> QED BY <3>1, <3>3, <3>4, Fails
  <2> QED BY <2>4, <2>5, <2>6
<1> QED BY <1>2, <1>13, <1>14

(* Waiting for more. *)
LEMMA DelayInv ==
  ASSUME Inv, Delay
  PROVE  Inv'
<1>1. Types /\ c.pc = "delay" /\ request \in Asked /\ c \in Variables /\ c.result = "none"
  BY DEF Inv, Types, Delay
<1>2. PICK r \in Nat : OnWay(r) /\ (Whole(r) \/ Partial(r))
  BY <1>1 DEF Inv, Progress, At
<1>3. /\ request' = request /\ server' = server /\ writes' = writes /\ wire' = wire /\ ready' = ready
      /\ buf' = buf /\ file' = file /\ before' = before
      /\ mishaps \subseteq mishaps' /\ mishaps' \subseteq mishaps \union {"slow"}
  BY DEF Delay, net
<1>4. request.kind = "OK" /\ request \in Answers /\ Stream(request) = Answer(request)
  BY <1>1, <1>2, StreamIs DEF Whole, Partial
<1>5. DOMAIN buf' = 0..Big /\ buf'[Big] = NUL /\ ready' \in Seq(Chars) /\ c.from + c.n <= Big
  BY <1>1, <1>3 DEF Types, TypeOK
<1>6. mishaps' \subseteq mishaps \union {"cut", "slow"}
  BY <1>3
<1>7. ASSUME c' = Result("failed"), mishaps' # {} PROVE Inv'
  <2>1. "failed" \in Results \ {"none"} /\ 0 + 0 <= Big
    BY TcpFetchAssumption DEF Results
  <2>2. Types'
    BY <1>1, <1>3, <1>5, <1>6, <1>7, <2>1, ResultIs, ClientTypes
  <2> QED BY <1>3, <1>4, <1>7, <2>2, Fails
<1>8. CASE ready # << >> /\ c' = [c EXCEPT !.pc = "write"] /\ UNCHANGED mishaps
  <2>1. /\ c' \in Variables /\ c'.pc = "write" /\ c'.whence = c.whence /\ c'.from = c.from /\ c'.n = c.n
        /\ c'.cur = c.cur /\ c'.full = c.full /\ c'.pos = c.pos /\ c'.right = c.right /\ c'.result = "none"
    BY <1>1, <1>8 DEF Variables, Steps
  <2>2. Types'
    <3>1. c' # Idle
      BY <2>1 DEF Idle
    <3> QED BY <1>1, <1>3, <1>5, <1>6, <2>1, <3>1, ClientTypes
  <2>3. OnWay(r)'
    <3>1. mishaps' = mishaps
      BY <1>8
    <3> QED BY <1>2, <1>3, <3>1 DEF OnWay, InPlace, ToWrite, Died
  <2>4. Whole(r) => Whole(r)'
    <3>1. Kept => Kept'
      BY <1>3, <2>1 DEF Kept
    <3> QED BY <1>1, <1>3, <1>8, <2>1, <3>1 DEF Whole
  <2>5. Partial(r) => Partial(r)'
    BY <1>3, <1>8, <2>1 DEF Partial
  <2>6. At(r)'
    BY <1>2, <2>1, <2>4, <2>5 DEF At
  <2>7. c'.pc # "idle"
    BY <2>1
  <2> QED BY <2>2, <2>3, <2>6, <2>7, GoesOn
<1>9. CASE EOF /\ c' = Result("failed") /\ UNCHANGED mishaps
  <2>1. mishaps # {}
    <3>1. CASE Partial(r)
      BY <3>1 DEF Partial
    <3>2. CASE Whole(r)
      <4> DEFINE S == Answer(request)
                 h == Len(Header(request))
      <4>1. r = h + c.cur /\ c.cur <= Len(request.data)
        BY <1>1, <3>2 DEF Whole
      <4>2. h \in Nat /\ Len(request.data) \in Nat /\ Len(S) = h + Len(request.data) + 1 /\ c.cur \in Nat
        BY <1>1, <1>4, AnswerParts DEF Variables
      <4> HIDE DEF h
      <4>3. r # Len(S)
        BY <4>1, <4>2
      <4>4. r + Len(ready) + Len(wire) = Len(S) \/ "interrupted" \in mishaps
        BY <1>2, <1>4, <1>9 DEF OnWay, ToWrite, EOF
      <4>5. Len(ready) = 0 /\ Len(wire) = 0
        BY <1>9 DEF EOF
      <4>6. r + Len(ready) + Len(wire) = r
        BY <4>5
      <4> QED BY <4>3, <4>4, <4>6
    <3> QED BY <1>2, <3>1, <3>2
  <2> QED BY <1>7, <1>9, <2>1
<1>10. CASE c' = Result("failed") /\ mishaps' = mishaps \union {"slow"}
  BY <1>7, <1>10
<1> QED BY <1>8, <1>9, <1>10 DEF Delay

(* A write into the file, not behind its end. *)
LEMMA OverIs ==
  ASSUME NEW old \in Seq(Chars), NEW pos \in 0..Len(old), NEW text \in Seq(Chars)
  PROVE  LET f == Over(old, pos, text)
             e == pos + Len(text)
         IN /\ f \in Seq(Chars)
            /\ Len(f) = IF Len(old) < e THEN e ELSE Len(old)
            /\ \A k \in 1..Len(f) : f[k] = IF k \in (pos + 1)..e THEN text[k - pos] ELSE old[k]
<1> DEFINE f == Over(old, pos, text)
           e == pos + Len(text)
           n == IF Len(old) < e THEN e ELSE Len(old)
<1>1. f = [k \in 1..n |-> IF k \in (pos + 1)..e THEN text[k - pos] ELSE old[k]]
  BY DEF Over
<1>2. Len(old) \in Nat /\ Len(text) \in Nat /\ pos \in Nat /\ pos <= Len(old) /\ e \in Nat /\ n \in Nat
  OBVIOUS
<1>3. \A k \in 1..Len(old) : old[k] \in Chars
  OBVIOUS
<1>4. \A k \in 1..Len(text) : text[k] \in Chars
  OBVIOUS
<1> HIDE DEF f
<1>5. ASSUME NEW k \in 1..n PROVE f[k] \in Chars
  <2>1. CASE k \in (pos + 1)..e
    <3>1. k - pos \in 1..Len(text)
      BY <1>2, <2>1
    <3> QED BY <1>1, <1>4, <2>1, <3>1
  <2>2. CASE k \notin (pos + 1)..e
    <3>1. k \in 1..Len(old)
      BY <1>2, <2>2
    <3> QED BY <1>1, <1>3, <2>2, <3>1
  <2> QED BY <2>1, <2>2
<1>6. f = [k \in 1..n |-> f[k]]
  BY <1>1
<1> HIDE DEF n
<1>7. f \in Seq(Chars) /\ Len(f) = n
  BY <1>2, <1>5, <1>6, IntervalIsSeq
<1> QED BY <1>1, <1>7 DEF f, n

(* Of f, the first p characters are those of S behind h; the others are old. *)
Holds(f, S, h, p, old) ==
  /\ f \in Seq(Chars)
  /\ Len(f) = IF Len(old) < p THEN p ELSE Len(old)
  /\ \A k \in 1..Len(f) : f[k] = IF k <= p THEN S[h + k] ELSE old[k]

(* The n characters of S behind "at", as a text and in the buffer. *)
IsPart(text, S, at, n) ==
  text \in Seq(Chars) /\ Len(text) = n /\ \A i \in 1..n : text[i] = S[at + i]
Shows(b, from, S, at, n) == \A i \in 1..n : b[from + i - 1] = S[at + i]

(* After a write of n characters of the answer, n more are in the file. *)
LEMMA WriteKeeps ==
  ASSUME NEW S \in Seq(Chars), NEW h \in Nat, NEW p \in Nat, NEW n \in Nat, h + (p + n) <= Len(S),
         NEW old \in Seq(Chars), NEW f, NEW text, Holds(f, S, h, p, old), IsPart(text, S, h + p, n)
  PROVE  Holds(Over(f, p, text), S, h, p + n, old)
<1> DEFINE g == Over(f, p, text)
           b == Len(old)
           l == Len(f)
<1> USE DEF Holds, IsPart
<1>1. b \in Nat /\ l \in Nat /\ p \in 0..l /\ l = IF b < p THEN p ELSE b
  OBVIOUS
<1>2. f \in Seq(Chars) /\ text \in Seq(Chars)
  OBVIOUS
<1>3. Len(text) = n /\ \A i \in 1..n : text[i] = S[h + p + i]
  OBVIOUS
<1>4. \A k \in 1..l : f[k] = IF k <= p THEN S[h + k] ELSE old[k]
  OBVIOUS
<1>5. /\ g \in Seq(Chars)
      /\ Len(g) = IF Len(f) < p + Len(text) THEN p + Len(text) ELSE Len(f)
      /\ \A k \in 1..Len(g) : g[k] = IF k \in (p + 1)..(p + Len(text)) THEN text[k - p] ELSE f[k]
  <2>1. p \in 0..Len(f)
    BY <1>1
  <2> QED BY <1>2, <2>1, OverIs
<1> HIDE DEF g, b, l, Holds, IsPart
<1>6. /\ Len(g) = IF l < p + n THEN p + n ELSE l
      /\ \A k \in 1..Len(g) : g[k] = IF k \in (p + 1)..(p + n) THEN text[k - p] ELSE f[k]
  BY <1>3, <1>5 DEF l
<1>7. Len(g) = IF b < p + n THEN p + n ELSE b
  BY <1>1, <1>6
<1>8. ASSUME NEW k \in 1..Len(g) PROVE g[k] = IF k <= p + n THEN S[h + k] ELSE old[k]
  <2>1. k \in Nat \ {0} /\ Len(g) \in Nat /\ k <= Len(g)
    BY <1>5
  <2>2. CASE k \in (p + 1)..(p + n)
    <3>1. PICK i \in 1..n : i = k - p /\ h + p + i = h + k
      <4>1. k - p \in 1..n /\ h + p + (k - p) = h + k
        BY <2>2
      <4> QED BY <4>1
    <3>2. k <= p + n
      BY <2>2
    <3> QED BY <1>3, <1>6, <2>2, <3>1, <3>2
  <2>3. CASE k \notin (p + 1)..(p + n)
    <3>1. k \in 1..l /\ (k <= p <=> k <= p + n)
      BY <1>1, <1>6, <2>1, <2>3
    <3> QED BY <1>4, <1>6, <2>3, <3>1
  <2> QED BY <2>2, <2>3
<1> QED BY <1>5, <1>7, <1>8 DEF g, b, Holds

(* A part of the answer that is in the buffer, as the text that is written. *)
LEMMA BlockIs ==
  ASSUME NEW S \in Seq(Chars), NEW at \in Nat, NEW n \in Nat, at + n <= Len(S),
         NEW b, NEW from \in Nat, Shows(b, from, S, at, n)
  PROVE  IsPart(Text(b, from, from + n), S, at, n)
<1> DEFINE text == Text(b, from, from + n)
<1>1. Len(S) \in Nat /\ \A j \in 1..Len(S) : S[j] \in Chars
  OBVIOUS
<1>2. \A i \in 1..n : at + i \in 1..Len(S)
  BY <1>1
<1>3. text = [i \in 1..n |-> b[from + i - 1]]
  <2>1. (from + n) - from = n
    OBVIOUS
  <2> QED BY <2>1 DEF Text
<1> HIDE DEF text
<1>4. \A i \in 1..n : text[i] = S[at + i]
  BY <1>3 DEF Shows
<1>5. \A i \in 1..n : text[i] \in Chars
  BY <1>1, <1>2, <1>4
<1>6. text = [i \in 1..n |-> text[i]]
  BY <1>3
<1>7. text \in Seq(Chars) /\ Len(text) = n
  BY <1>5, <1>6, IntervalIsSeq
<1> QED BY <1>4, <1>7 DEF text, IsPart

(* What the client saves of a block, its first n characters, keeps what it *)
(* has saved before.                                                       *)
LEMMA SaveKeeps ==
  ASSUME Types, Kept, request \in Answers, NEW n \in Nat,
         Len(Header(request)) + (c.pos + n) <= Len(Answer(request)),
         \A i \in 1..n : buf[c.from + i - 1] = Answer(request)[Len(Header(request)) + c.pos + i],
         file' = Over(file, c.pos, Text(buf, c.from, c.from + n))
  PROVE  Holds(file', Answer(request), Len(Header(request)), c.pos + n, before)
<1> DEFINE S == Answer(request)
           h == Len(Header(request))
           p == c.pos
           q == c.from
           text == Text(buf, q, q + n)
<1>1. S \in Seq(Chars) /\ h \in Nat
  BY AnswerParts
<1>2. p \in Nat /\ q \in Nat /\ before \in Seq(Chars)
  BY CharsAre DEF Types, Variables
<1>3. h + (p + n) <= Len(S) /\ Shows(buf, q, S, h + p, n)
  BY DEF Shows
<1>4. Holds(file, S, h, p, before)
  BY DEF Kept, Holds
<1>5. file' = Over(file, p, text)
  OBVIOUS
<1> HIDE DEF S, h, p, q
<1>6. h + p \in Nat /\ h + p + n <= Len(S)
  BY <1>1, <1>2, <1>3
<1>7. IsPart(text, S, h + p, n)
  BY <1>1, <1>2, <1>3, <1>6, BlockIs
<1> HIDE DEF text
<1>8. Holds(file', S, h, p + n, before)
  BY <1>1, <1>2, <1>3, <1>4, <1>5, <1>7, WriteKeeps
<1> QED BY <1>8 DEF S, h, p

(* A block that was not taken for the last one. *)
LEMMA WriteBlockInv ==
  ASSUME Inv, WriteBlock
  PROVE  Inv'
<1>1. Types /\ c.pc = "write" /\ request \in Asked /\ c \in Variables /\ c.result = "none"
  BY DEF Inv, Types, WriteBlock
<1>2. PICK r \in Nat : OnWay(r) /\ (Whole(r) \/ Partial(r))
  BY <1>1 DEF Inv, Progress, At
<1>3. /\ request' = request /\ server' = server /\ writes' = writes /\ wire' = wire /\ ready' = ready
      /\ buf' = buf /\ before' = before /\ mishaps' = mishaps
      /\ c' = IF c.cur = c.full + 1 THEN Result("failed")
              ELSE [c EXCEPT !.pc = "more", !.pos = @ + c.n, !.n = 0, !.from = 0]
      /\ file' = IF c.right THEN Over(file, c.pos, Text(buf, c.from, c.from + c.n)) ELSE file
  BY DEF WriteBlock, Save, net
<1>4. request.kind = "OK" /\ request \in Answers
  BY <1>1, <1>2, StreamIs DEF Whole, Partial
<1>5. DOMAIN buf' = 0..Big /\ buf'[Big] = NUL /\ ready' \in Seq(Chars) /\ 0 + 0 <= Big
  BY <1>1, <1>3, TcpFetchAssumption DEF Types, TypeOK
<1>6. mishaps' \subseteq mishaps \union {"cut", "slow"}
  BY <1>3
<1>7. c.pos \in Nat /\ c.from \in Nat /\ c.n \in Nat /\ c.cur \in Nat /\ c.full \in Nat /\ c.pos + c.n \in Nat
  <2>1. c.pos \in Nat /\ c.from \in Nat /\ c.n \in Nat /\ c.cur \in Nat /\ c.full \in Nat
    BY <1>1 DEF Variables
  <2> QED BY <2>1
<1>8. OnWay(r)'
  BY <1>2, <1>3 DEF OnWay, InPlace, ToWrite, Died
<1>9. CASE c.cur # c.full + 1
  <2>1. /\ c' \in Variables /\ c'.pc = "more" /\ c'.whence = c.whence /\ c'.from = 0 /\ c'.n = 0
        /\ c'.cur = c.cur /\ c'.full = c.full /\ c'.pos = c.pos + c.n /\ c'.right = c.right /\ c'.result = "none"
    BY <1>1, <1>3, <1>7, <1>9 DEF Variables, Steps
  <2>2. Types'
    <3>1. c' # Idle
      BY <2>1 DEF Idle
    <3> QED BY <1>1, <1>3, <1>5, <1>6, <2>1, <3>1, ClientTypes
  <2>3. Partial(r) => Partial(r)'
    BY <1>3, <2>1 DEF Partial
  <2>4. Whole(r) => Whole(r)'
    <3> SUFFICES ASSUME Whole(r) PROVE Whole(r)'
      OBVIOUS
    <3>1. /\ "cut" \notin mishaps /\ c.right /\ c.full = Len(request.data) /\ c.cur = c.pos + c.n
          /\ r = Len(Header(request)) + c.cur /\ Kept /\ c.cur <= c.full
          /\ \A i \in 1..c.n : buf[c.from + i - 1] = Answer(request)[Len(Header(request)) + c.pos + i]
      BY <1>1 DEF Whole
    <3>2. /\ Len(Header(request)) \in Nat /\ Len(request.data) \in Nat
          /\ Len(Answer(request)) = Len(Header(request)) + Len(request.data) + 1
      BY <1>4, AnswerParts
    <3>3. file' = Over(file, c.pos, Text(buf, c.from, c.from + c.n))
      BY <1>3, <3>1
    <3>4. Len(Header(request)) + (c.pos + c.n) <= Len(Answer(request))
      BY <1>7, <3>1, <3>2
    <3>5. PICK n \in Nat : n = c.n
      BY <1>7
    <3>6. /\ Len(Header(request)) + (c.pos + n) <= Len(Answer(request))
          /\ \A i \in 1..n : buf[c.from + i - 1] = Answer(request)[Len(Header(request)) + c.pos + i]
          /\ file' = Over(file, c.pos, Text(buf, c.from, c.from + n))
      BY <3>1, <3>3, <3>4, <3>5
    <3>7. Holds(file', Answer(request), Len(Header(request)), c.pos + c.n, before)
      BY <1>1, <1>4, <3>1, <3>5, <3>6, SaveKeeps
    <3>8. Kept'
      BY <1>3, <2>1, <3>7 DEF Kept, Holds
    <3>9. c'.cur = c'.pos + c'.n
      BY <1>7, <2>1, <3>1
    <3> QED BY <1>3, <1>4, <2>1, <3>1, <3>8, <3>9 DEF Whole
  <2>5. At(r)'
    BY <1>2, <2>1, <2>3, <2>4 DEF At
  <2>6. c'.pc # "idle"
    BY <2>1
  <2> QED BY <1>8, <2>2, <2>5, <2>6, GoesOn
<1>10. CASE c.cur = c.full + 1
  <2>1. mishaps' # {}
    <3>1. ~ Whole(r)
      BY <1>1, <1>7, <1>10 DEF Whole
    <3> QED BY <1>2, <1>3, <3>1 DEF Partial
  <2>2. "failed" \in Results \ {"none"} /\ c' = Result("failed")
    BY <1>3, <1>10 DEF Results
  <2>3. Types'
    BY <1>1, <1>3, <1>5, <1>6, <2>2, ResultIs, ClientTypes
  <2> QED BY <1>3, <1>4, <2>1, <2>2, <2>3, Fails
<1> QED BY <1>9, <1>10
(* A file whose first characters are those that were sent. *)
LEMMA SavedFile ==
  ASSUME NEW data \in Seq(Chars), NEW old \in Seq(Chars), NEW S, NEW h \in Nat, NEW f,
         Holds(f, S, h, Len(data), old), \A i \in 1..Len(data) : S[h + i] = data[i]
  PROVE  f = data \o SubSeq(old, Len(data) + 1, Len(old))
<1> DEFINE d == Len(data)
           o == Len(old)
           rest == SubSeq(old, d + 1, o)
<1>1. d \in Nat /\ o \in Nat
  OBVIOUS
<1>2. f \in Seq(Chars) /\ Len(f) \in Nat /\ Len(f) = IF o < d THEN d ELSE o
  BY DEF Holds
<1>3. \A k \in 1..Len(f) : f[k] = IF k <= d THEN S[h + k] ELSE old[k]
  BY DEF Holds
<1>4. rest \in Seq(Chars) /\ Len(rest) = Len(f) - d /\ \A i \in 1..(Len(f) - d) : rest[i] = old[d + i]
  <2>1. CASE o < d
    <3>1. rest = << >>
      <4>1. d + 1 > o
        BY <1>1, <2>1
      <4> HIDE DEF d, o
      <4> QED BY <1>1, <4>1
    <3>2. Len(f) - d = 0
      BY <1>1, <1>2, <2>1
    <3> HIDE DEF rest
    <3> QED BY <3>1, <3>2
  <2>2. CASE ~ (o < d)
    <3>1. d \in 0..Len(old) /\ Len(f) = o
      BY <1>1, <1>2, <2>2
    <3> HIDE DEF d
    <3> QED BY <3>1, SubSeqEnd
  <2> QED BY <2>1, <2>2
<1> HIDE DEF rest
<1>5. /\ data \o rest \in Seq(Chars) /\ Len(data \o rest) = d + Len(rest)
      /\ \A i \in 1..d : (data \o rest)[i] = data[i]
      /\ \A i \in 1..Len(rest) : (data \o rest)[d + i] = rest[i]
  BY <1>4, ConcatIs
<1> DEFINE g == data \o rest
<1> HIDE DEF g, d, o
<1>6. /\ g \in Seq(Chars) /\ Len(g) = d + Len(rest)
      /\ \A i \in 1..d : g[i] = data[i] /\ S[h + i] = data[i]
      /\ \A i \in 1..Len(rest) : g[d + i] = rest[i]
  BY <1>5 DEF g, d
<1>7. Len(f) = Len(g) /\ d <= Len(f)
  BY <1>1, <1>2, <1>4, <1>6
<1>8. ASSUME NEW k \in 1..Len(f) PROVE f[k] = g[k]
  <2>1. CASE k <= d
    <3>1. k \in 1..d
      BY <1>1, <1>2, <2>1
    <3> QED BY <1>3, <1>6, <2>1, <3>1
  <2>2. CASE ~ (k <= d)
    <3>1. PICK i \in 1..(Len(f) - d) : d + i = k
      <4>1. k - d \in 1..(Len(f) - d) /\ d + (k - d) = k
        BY <1>1, <1>2, <2>2
      <4> QED BY <4>1
    <3> QED BY <1>3, <1>4, <1>6, <2>2, <3>1
  <2> QED BY <2>1, <2>2
<1>9. f = g
  BY <1>2, <1>6, <1>7, <1>8, SameSeq
<1> QED BY <1>9 DEF g, rest, d, o

(* The block that was taken for the last one.  If the header was read at   *)
(* once it is, and it ends with the LF; if it was cut, more would have come*)
(* and only an interrupted handler ends the connection here.               *)
LEMMA WriteLastInv ==
  ASSUME Inv, WriteLast
  PROVE  Inv'
<1>1. Types /\ c.pc = "eof" /\ request \in Asked /\ c \in Variables /\ c.result = "none" /\ ready \in Seq(Chars)
  BY DEF Inv, Types, WriteLast
<1>2. PICK r \in Nat : OnWay(r) /\ (Whole(r) \/ Partial(r))
  BY <1>1 DEF Inv, Progress, At
<1>3. /\ request' = request /\ server' = server /\ writes' = writes /\ wire' = wire
      /\ buf' = buf /\ before' = before /\ mishaps' = mishaps
      /\ ready' = IF ready = << >> THEN ready ELSE Tail(ready)
  BY DEF WriteLast
<1>4. \/ /\ EOF \/ (ready # << >> /\ c.whence > 0)
         /\ Save(c.n - 1)
         /\ c' = Result(IF IsLast THEN "saved" ELSE "failed")
      \/ /\ ready # << >> /\ c.whence = 0
         /\ c' = Result("failed")
  BY DEF WriteLast
<1>5. request.kind = "OK" /\ request \in Answers /\ Stream(request) = Answer(request)
  BY <1>1, <1>2, StreamIs DEF Whole, Partial
<1>6. /\ Len(Header(request)) \in Nat /\ Len(request.data) \in Nat
      /\ Len(Answer(request)) = Len(Header(request)) + Len(request.data) + 1
  BY <1>5, AnswerParts
<1>7. Types'
  <2>1. DOMAIN buf' = 0..Big /\ buf'[Big] = NUL /\ 0 + 0 <= Big /\ mishaps' \subseteq mishaps \union {"cut", "slow"}
    BY <1>1, <1>3, TcpFetchAssumption DEF Types, TypeOK
  <2>2. ready' \in Seq(Chars)
    BY <1>1, <1>3
  <2>3. PICK tok \in Results \ {"none"} : c' = Result(tok)
    BY <1>4 DEF Results
  <2> QED BY <1>1, <1>3, <2>1, <2>2, <2>3, ResultIs, ClientTypes
<1>8. ASSUME c' = Result("saved"), SavedIsSent' PROVE Inv'
  <2>1. c'.pc = "idle" /\ c'.result = "saved"
    BY <1>8, ResultIs DEF Results
  <2>2. request'.kind = "OK"
    BY <1>3, <1>5
  <2> QED BY <1>7, <1>8, <2>1, <2>2 DEF Inv, Progress, FailureHasCause, NoFileIsTold
<1>9. CASE Partial(r)
  <2>1. "cut" \in mishaps /\ c.whence = 0
    BY <1>1, <1>9 DEF Partial
  <2>2. CASE c' = Result("failed")
    <3>1. request'.kind = "OK" /\ mishaps' # {}
      BY <1>3, <1>5, <2>1
    <3> QED BY <1>7, <2>2, <3>1, Fails
  <2>3. CASE EOF /\ c' = Result("saved")
    <3>1. PICK t \in Nat : r = t + c.cur /\ t + c.full + 1 < Len(Answer(request)) /\ c.cur = c.full + 1
      BY <1>1, <1>9 DEF Partial
    <3>2. r # Len(Answer(request))
      <4>1. c.cur \in Nat /\ c.full \in Nat
        BY <1>1 DEF Variables
      <4> QED BY <1>6, <3>1, <4>1
    <3>3. Len(ready) = 0 /\ Len(wire) = 0 /\ server = "closed"
      BY <2>3 DEF EOF
    <3>4. r + Len(ready) + Len(wire) = r
      BY <3>3
    <3>5. "interrupted" \in mishaps
      BY <1>2, <1>5, <3>2, <3>3, <3>4 DEF OnWay, ToWrite
    <3>6. {"cut", "interrupted"} \subseteq mishaps'
      BY <1>3, <2>1, <3>5
    <3> QED BY <1>8, <2>3, <3>6 DEF SavedIsSent
  <2>4. ~ (c.whence > 0)
    BY <2>1
  <2> QED BY <1>4, <2>2, <2>3, <2>4
<1>10. CASE Whole(r)
  <2>1. /\ c.right = TRUE /\ c.full = Len(request.data) /\ c.cur = c.pos + c.n
        /\ r = Len(Header(request)) + c.cur /\ Kept /\ c.cur = c.full + 1 /\ c.n > 0
        /\ \A i \in 1..c.n : buf[c.from + i - 1] = Answer(request)[Len(Header(request)) + c.pos + i]
    BY <1>1, <1>10 DEF Whole, Variables
  <2>2. c.pos \in Nat /\ c.from \in Nat /\ c.n \in Nat /\ c.cur \in Nat
    BY <1>1 DEF Variables
  <2>3. PICK n \in Nat : n = c.n - 1 /\ c.n = n + 1 /\ c.pos + n = Len(request.data)
    <3>1. PICK x \in Nat, y \in Nat, z \in Nat : x = c.pos /\ y = c.n /\ z = Len(request.data)
      BY <1>6, <2>2
    <3>2. x + y = z + 1 /\ y > 0
      BY <2>1, <3>1
    <3>3. y - 1 \in Nat /\ y = (y - 1) + 1 /\ x + (y - 1) = z
      BY <3>2
    <3> QED BY <3>1, <3>3
  <2>4. ready = << >>
    <3>1. r = Len(Answer(request))
      BY <1>6, <2>1
    <3>2. r + Len(ready) + Len(wire) <= r
      BY <1>2, <1>5, <3>1 DEF OnWay, InPlace
    <3>3. Len(ready) \in Nat /\ Len(wire) \in Nat
      BY <1>1 DEF Types
    <3>4. Len(ready) = 0
      BY <3>2, <3>3
    <3> QED BY <1>1, <3>4
  <2>5. Save(n) /\ c' = Result(IF IsLast THEN "saved" ELSE "failed")
    BY <1>4, <2>3, <2>4
  <2>6. IsLast
    <3>1. Len(Header(request)) + c.pos + c.n = Len(Answer(request)) /\ c.n \in 1..c.n /\ c.from + c.n > 0
      <4>1. PICK w \in Nat, x \in Nat, y \in Nat, z \in Nat, q \in Nat :
              w = Len(Header(request)) /\ x = c.pos /\ y = c.n /\ z = Len(request.data) /\ q = c.from
        BY <1>6, <2>2
      <4>2. x + y = z + 1 /\ y > 0
        BY <2>1, <4>1
      <4>3. w + x + y = w + z + 1 /\ y \in 1..y /\ q + y > 0
        BY <4>2
      <4> QED BY <1>6, <4>1, <4>3
    <3>2. Answer(request)[Len(Answer(request))] = LF
      BY <1>5, AnswerParts
    <3> QED BY <2>1, <3>1, <3>2 DEF IsLast
  <2>7. file' = Over(file, c.pos, Text(buf, c.from, c.from + n))
    BY <2>1, <2>5 DEF Save
  <2>8. Holds(file', Answer(request), Len(Header(request)), c.pos + n, before)
    <3>1. Len(Header(request)) + (c.pos + n) <= Len(Answer(request))
      BY <1>6, <2>3
    <3>2. \A i \in 1..n : i \in 1..c.n
      BY <2>3
    <3>3. \A i \in 1..n : buf[c.from + i - 1] = Answer(request)[Len(Header(request)) + c.pos + i]
      BY <2>1, <3>2
    <3> QED BY <1>1, <1>5, <2>1, <2>7, <3>1, <3>3, SaveKeeps
  <2>9. file' = request.data \o SubSeq(before, Len(request.data) + 1, Len(before))
    <3>1. request.data \in Seq(Chars) /\ before \in Seq(Chars)
      BY <1>1, <1>5, AnswerIs, CharsAre DEF Types
    <3>2. \A i \in 1..Len(request.data) : Answer(request)[Len(Header(request)) + i] = request.data[i]
      BY <1>5, AnswerIs
    <3>3. Holds(file', Answer(request), Len(Header(request)), Len(request.data), before)
      BY <2>3, <2>8
    <3> QED BY <1>6, <3>1, <3>2, <3>3, SavedFile
  <2>10. SavedIsSent'
    BY <1>3, <1>5, <2>9 DEF SavedIsSent
  <2>11. c' = Result("saved")
    BY <2>5, <2>6
  <2> QED BY <1>8, <2>10, <2>11
<1> QED BY <1>2, <1>9, <1>10

(* Every step keeps the invariant. *)
LEMMA InvNext == Inv /\ [Next]_vars => Inv'
<1> SUFFICES ASSUME Inv, [Next]_vars PROVE Inv'
  OBVIOUS
<1>1. Flow
  BY FlowIs DEF Inv
<1>2. CASE Ask
  BY <1>2, AskInv
<1>3. CASE Write
  BY <1>1, <1>3, WriteNet, NetKeeps
<1>4. CASE Finish
  BY <1>1, <1>4, FinishNet, NetKeeps
<1>5. CASE Die
  BY <1>1, <1>5, DieNet, NetKeeps
<1>6. CASE Deliver
  BY <1>1, <1>6, DeliverNet, NetKeeps
<1>7. CASE ReadStatus
  BY <1>7, ReadStatusInv
<1>8. CASE ReadHeader
  BY <1>8, ReadHeaderInv
<1>9. CASE ReadMore
  BY <1>9, ReadMoreInv
<1>10. CASE Delay
  BY <1>10, DelayInv
<1>11. CASE WriteBlock
  BY <1>11, WriteBlockInv
<1>12. CASE WriteLast
  BY <1>12, WriteLastInv
<1>13. CASE UNCHANGED vars
  <2>1. NetFrame /\ Flow'
    BY <1>1, <1>13 DEF vars, NetFrame, Flow
  <2>2. \A r \in Nat : OnWay(r) => OnWay(r)'
    BY <1>13 DEF vars, OnWay, InPlace, ToWrite, Died
  <2> QED BY <2>1, <2>2, NetKeeps
<1> QED BY <1>2, <1>3, <1>4, <1>5, <1>6, <1>7, <1>8, <1>9, <1>10, <1>11, <1>12, <1>13 DEF Next, Client

----------------------------------------------------------------------------
(* The theorems *)

(* Wherever the stream is cut, the client knows how much of the answer it   *)
(* has read, or waits for too little.                                       *)
THEOREM InvHolds == Spec => []Inv
BY InitInv, InvNext, PTL DEF Spec

(* The variables of get_file and of the handler have their types; big_buffer*)
(* keeps the NUL at its end, and no block is longer than it.                *)
THEOREM TypeCorrect == Spec => []TypeOK
<1>1. Inv => TypeOK
  BY DEF Inv, Types
<1> QED BY <1>1, InvHolds, PTL

(* When get_file says that the file was saved, it holds what the server     *)
(* sent, unless a header was cut and the handler was interrupted.           *)
THEOREM SavedSent == Spec => []SavedIsSent
<1>1. Inv => SavedIsSent
  BY DEF Inv
<1> QED BY <1>1, InvHolds, PTL

(* The client refuses a file that was sent only when something went wrong:  *)
(* data that come in pieces, or fill big_buffer to its end, do not.         *)
THEOREM FailuresHaveCauses == Spec => []FailureHasCause
<1>1. Inv => FailureHasCause
  BY DEF Inv
<1> QED BY <1>1, InvHolds, PTL

(* "No file" is said only when the server has none, and, if its answer was  *)
(* read at once, always.                                                    *)
THEOREM NoFileTold == Spec => []NoFileIsTold
<1>1. Inv => NoFileIsTold
  BY DEF Inv
<1> QED BY <1>1, InvHolds, PTL
=============================================================================
