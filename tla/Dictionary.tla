----------------------------- MODULE Dictionary -----------------------------
(***************************************************************************)
(* The list of words that the server loads when it starts: InitDictionary  *)
(* goes once over the text, character by character, and collects an entry  *)
(* for each line "<word> <class>".  Operators only; Listener.tla starts the*)
(* server with them.                                                       *)
(***************************************************************************)
EXTENDS Naturals, Sequences, SequencesExt

CONSTANTS
  MinWord,  \* 3
  MaxWord   \* 30

SP  == " "
LF  == "LF"
BAD == "NUL"   \* '\x00' and 0x1A
Exits == [error |-> TRUE]

(* sizeof("a a\n"); the fault: the length of the shortest line with a class. *)
minimal_size_Line == 6
minimal_size == 5

(* ParseDataFromFile: the number of entries there is room for, and the data *)
(* with an LF at the end of the last line.                                  *)
alloc_size(text) == Len(text) \div minimal_size
Data(text) == IF Last(text) # LF THEN Append(text, LF) ELSE text

(* A word that goes on after "counter" characters.  The character that ends *)
(* it is looked at, too.                                                    *)
TooLong(counter) == counter > MaxWord

Start == [error |-> FALSE, inWord |-> TRUE, counter |-> 0, word |-> << >>, entries |-> << >>, at |-> 1]

(* One round of the loop of InitDictionary. *)
Scan(data, p) ==
  LET ch   == data[p.at]
      text == SubSeq(data, p.at - p.counter, p.at - 1)
      next == [p EXCEPT !.at = @ + 1]
  IN  IF \/ ch = BAD
         \/ p.inWord /\ (ch = LF \/ TooLong(p.counter))
         \/ p.inWord /\ ch = SP /\ p.counter < MinWord
         \/ ~ p.inWord /\ ch = SP
        THEN Exits
      ELSE IF p.inWord /\ ch = SP
        THEN [next EXCEPT !.inWord = FALSE, !.counter = 0, !.word = text]
      ELSE IF ~ p.inWord /\ ch = LF
        THEN [next EXCEPT !.inWord = TRUE, !.counter = 0,
                          !.entries = Append(@, [word |-> p.word, class |-> text])]
      ELSE [next EXCEPT !.counter = @ + 1]

InitDictionary(text) ==
  LET data == Data(text)
      p    == FoldLeft(LAMBDA q, ch : IF q.error THEN q ELSE Scan(data, q), Start, data)
  IN  IF p.error \/ ~ p.inWord THEN Exits ELSE [error |-> FALSE, entries |-> p.entries]

----------------------------------------------------------------------------
(* What the dictionary is, without the scanner: the lines of the text, each *)
(* of them a word of MinWord to MaxWord characters, a space and a class.    *)
Ends(data)  == {k \in DOMAIN data : data[k] = LF}
Begins(data) == {1} \union {k + 1 : k \in Ends(data) \ {Len(data)}}
Line(data, b) == SubSeq(data, b, (CHOOSE k \in Ends(data) : k >= b /\ \A j \in Ends(data) : j >= b => k <= j) - 1)

WordOf(line)  == SubSeq(line, 1, (CHOOSE k \in DOMAIN line : line[k] = SP) - 1)
ClassOf(line) == SubSeq(line, (CHOOSE k \in DOMAIN line : line[k] = SP) + 1, Len(line))
IsEntry(line) ==
  /\ \E k \in DOMAIN line : line[k] = SP /\ k - 1 \in MinWord..MaxWord
  /\ \A j, k \in DOMAIN line : line[j] = SP /\ line[k] = SP => j = k
  /\ \A k \in DOMAIN line : line[k] # BAD

IsDictionary(text) == \A b \in Begins(Data(text)) : IsEntry(Line(Data(text), b))
Entries(text) ==
  LET data  == Data(text)
      lines == SetToSortSeq(Begins(data), <)
  IN  [k \in DOMAIN lines |->
         [word |-> WordOf(Line(data, lines[k])), class |-> ClassOf(Line(data, lines[k]))]]
=============================================================================
