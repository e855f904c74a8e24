---------------------------------- MODULE Text ----------------------------------
(***************************************************************************)
(* The two string functions of the native side: normalize_whitespace,      *)
(* which turns SentencePiece text into plain text in place, and            *)
(* load_vocab, which reads the tokens from a file.  A string is a sequence *)
(* of characters, of which only those the code tells apart matter.         *)
(***************************************************************************)
EXTENDS Integers, Sequences, FiniteSets, SequencesExt

CONSTANTS
  Letters,    \* characters nothing is special about
  LineBuffer  \* sizeof(line), 256: fgets reads one character less

Space  == " "
Marker == "marker"        \* the SentencePiece marker, U+2581
Return == "return"
Newline == "newline"
Blank(c) == c \in {Space, Marker, Return, Newline}

ASSUME TextAssumption ==
  /\ LineBuffer \in Nat /\ LineBuffer > 1
  /\ \A c \in Letters : ~Blank(c)

-----------------------------------------------------------------------------
(* normalize_whitespace.  The written part never overtakes the reading, so *)
(* that rewriting in place is like writing elsewhere.                      *)
MutantWrite(done, c) ==
  IF Blank(c) THEN [done EXCEPT !.text = Append(@, Space)]
              ELSE [text |-> Append(done.text, c), inSpace |-> FALSE]
Write(done, c) ==
  IF ~Blank(c)         THEN [text |-> Append(done.text, c), inSpace |-> FALSE]
  ELSE IF done.inSpace THEN done
  ELSE [text |-> Append(done.text, Space), inSpace |-> TRUE]
Scanned(str) ==    \* what is written after each number of characters
  LET done[n \in 0 .. Len(str)] ==
        IF n = 0 THEN [text |-> <<>>, inSpace |-> TRUE]
        ELSE Write(done[n - 1], str[n])
  IN  done
Normalized(str) ==
  LET written == Scanned(str)[Len(str)].text
  IN  IF written # <<>> /\ Last(written) = Space THEN Front(written) ELSE written

(* The words of a string: what is not blank belongs to the word that has as*)
(* many beginnings of words up to it as the word has in the string.        *)
Begins(str) ==
  {a \in DOMAIN str : ~Blank(str[a]) /\ (a > 1 => Blank(str[a - 1]))}
Nth(str, p) == Cardinality({a \in Begins(str) : a <= p})
Word(str, i) == {p \in DOMAIN str : ~Blank(str[p]) /\ Nth(str, p) = i}
Words(str) ==
  [i \in 1 .. Cardinality(Begins(str)) |->
     SubSeq(str, Min(Word(str, i)), Max(Word(str, i)))]

(* The words with one space between them.                                  *)
Joined(words) ==
  FlattenSeq([i \in DOMAIN words |-> IF i = 1 THEN words[i] ELSE <<Space>> \o words[i]])

-----------------------------------------------------------------------------
(* load_vocab.  fgets takes a line, but no more than fits.                 *)
Fgets(rest) ==
  LET room == IF Len(rest) < LineBuffer - 1 THEN Len(rest) ELSE LineBuffer - 1
      ends == {i \in 1 .. room : rest[i] = Newline}
  IN  IF ends = {} THEN room ELSE CHOOSE i \in ends : \A j \in ends : i <= j

(* The line up to its end, and up to its last space.                       *)
UpTo(line, stop) == SubSeq(line, 1, stop - 1)
StripEnd(line) ==
  LET ends == {i \in DOMAIN line : line[i] \in {Return, Newline}}
  IN  IF ends = {} THEN line
      ELSE UpTo(line, CHOOSE i \in ends : \A j \in ends : i <= j)
MutantToken(line) ==
  LET spaces == {i \in DOMAIN line : line[i] = Space}
  IN  IF spaces = {} THEN line
      ELSE UpTo(line, CHOOSE i \in spaces : \A j \in spaces : i <= j)
Token(line) ==
  LET spaces == {i \in DOMAIN line : line[i] = Space}
  IN  IF spaces = {} THEN line
      ELSE UpTo(line, CHOOSE i \in spaces : \A j \in spaces : j <= i)

(* One round of the loop, at the end of the file none; a line takes one    *)
(* character at least.                                                     *)
ReadLine(file, read) ==
  LET rest == SubSeq(file, read.at + 1, Len(file))
      len  == Fgets(rest)
  IN  IF read.at = Len(file) THEN read
      ELSE [at |-> read.at + len,
            vocab |-> Append(read.vocab, Token(StripEnd(SubSeq(rest, 1, len))))]
ReadLines(file) ==
  LET read[n \in 0 .. Len(file)] ==
        IF n = 0 THEN [at |-> 0, vocab |-> <<>>]
        ELSE ReadLine(file, read[n - 1])
  IN  read
LoadVocab(file) == ReadLines(file)[Len(file)].vocab

(* What a vocabulary file is: a line for each token, the token, a space    *)
(* and its number; lines end in a newline, with or without a return.       *)
VocabLine(token, number, ending) == token \o <<Space, number>> \o ending
VocabFile(tokens, number, ending) ==
  FlattenSeq([i \in DOMAIN tokens |-> VocabLine(tokens[i], number, ending)])
=============================================================================
