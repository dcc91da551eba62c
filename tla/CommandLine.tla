---------------------------- MODULE CommandLine ----------------------------
(***************************************************************************)
(* The string functions that take apart what clients and the loader send:  *)
(* split (source/ftp.c), dirname and basename (source/fs.c), and the       *)
(* password in the name of the program's directory (source/ftpii.c).       *)
(*                                                                         *)
(* A text grows character by character; each of its states is an input.    *)
(***************************************************************************)
EXTENDS Naturals, Sequences, SequencesExt, FiniteSets

CONSTANTS
  Lower,            \* for every character, the lower case one
  MaxLength,        \* bound on the length of the text
  MAXPATHLEN,
  APP_DIR_PREFIX,
  NULL

Chars == DOMAIN Lower

\* "ftpii_" in ftpii.c.
ASSUME PrefixAssumption ==
  /\ APP_DIR_PREFIX \in Seq(Chars) /\ APP_DIR_PREFIX # <<>>
  /\ MAXPATHLEN \in Nat /\ NULL \notin Seq(Chars)

VARIABLE text

Init == text = <<>>

Type(c) == Len(text) < MaxLength /\ text' = Append(text, c)

\* Without another character nothing happens.
Complete == Len(text) = MaxLength /\ UNCHANGED text

Next == (\E c \in Chars : Type(c)) \/ Complete

Spec == Init /\ [][Next]_text

-----------------------------------------------------------------------------
(* split                                                                   *)

\* num_results, in_word and trim_pos as in the code; result_pos is the length of the
\* last result.  trim_pos is 0 unless the last result ends with separators.
Appended(a, c) == [a EXCEPT !.result[a.num_results] = Append(@, c)]

NewWord(a) ==
  IF a.in_word THEN a
  ELSE [a EXCEPT !.in_word = TRUE, !.num_results = @ + 1, !.result = Append(@, <<>>)]

\* Mutant: trim_pos is not reset when a word follows.
TrimsFromFirst(a, c) == Appended(NewWord(a), c)

\* A character of a word.
WordCharacter(a, c) == Appended(NewWord([a EXCEPT !.trim_pos = 0]), c)

\* A separator ends a word, but belongs to the last result if a word follows it.
Separator(a, c, maxsplit) ==
  IF a.num_results <= maxsplit THEN [a EXCEPT !.in_word = FALSE]
  ELSE Appended([a EXCEPT !.trim_pos = IF @ = 0 THEN Len(a.result[a.num_results]) ELSE @], c)

Start == [num_results |-> 0, in_word |-> FALSE, trim_pos |-> 0, result |-> <<>>]

\* After each of the characters.
Scan(s, sep, maxsplit) ==
  LET at[n \in 0..Len(s)] ==
        IF n = 0 THEN Start
        ELSE IF s[n] = sep THEN Separator(at[n-1], s[n], maxsplit)
        ELSE WordCharacter(at[n-1], s[n])
  IN at

\* The results that were not found are empty.
split(s, sep, maxsplit) ==
  LET a       == Scan(s, sep, maxsplit)[Len(s)]
      trimmed == IF a.trim_pos = 0 THEN a.result
                 ELSE [a.result EXCEPT ![a.num_results] = SubSeq(@, 1, a.trim_pos)]
  IN [i \in 1..maxsplit + 1 |-> IF i <= a.num_results THEN trimmed[i] ELSE <<>>]

-----------------------------------------------------------------------------
(* dirname, basename, set_password_from_executable                         *)

LastSlash(s) == SelectLastInSeq(s, LAMBDA c : c = "/")

\* strncpy cuts off what does not fit.
Copied(path) == SubSeq(path, 1, IF Len(path) < MAXPATHLEN THEN Len(path) ELSE MAXPATHLEN - 1)

dirname(path) ==
  LET slash == LastSlash(Copied(path)) IN
  IF slash = 0 THEN <<>> ELSE SubSeq(Copied(path), 1, slash - 1)

basename(path) == SubSeq(path, LastSlash(path) + 1, Len(path))

InLower(s) == [i \in DOMAIN s |-> Lower[s[i]]]

\* Mutant: the name of the program itself is looked at.
UsesFileName(executable) ==
  LET file == basename(executable) IN
  IF IsPrefix(APP_DIR_PREFIX, InLower(file))
  THEN SubSeq(file, Len(APP_DIR_PREFIX) + 1, Len(file)) ELSE NULL

\* What main() passes to set_ftp_password, NULL if it is not called.
set_password_from_executable(executable) ==
  LET dir == basename(dirname(executable)) IN
  IF IsPrefix(APP_DIR_PREFIX, InLower(dir))
  THEN SubSeq(dir, Len(APP_DIR_PREFIX) + 1, Len(dir)) ELSE NULL

-----------------------------------------------------------------------------
(* What the functions are for                                              *)

\* The places at which words begin, and how many there are up to a place.
Beginnings(s, sep) == {i \in DOMAIN s : s[i] # sep /\ (i = 1 \/ s[i - 1] = sep)}

Ordinal(s, sep, n) == Cardinality({i \in Beginnings(s, sep) : i <= n})

\* The rest of s from i, without the separators at its end.
Stripped(s, sep, i) == SubSeq(s, i, SelectLastInSeq(s, LAMBDA c : c # sep))

\* The word that begins at i.
WordAt(s, sep, i) ==
  LET ends == {j \in i..Len(s) : s[j] = sep} IN
  SubSeq(s, i, IF ends = {} THEN Len(s) ELSE (CHOOSE j \in ends : \A k \in ends : j <= k) - 1)

\* ftp.c:115: up to maxsplit words, and what is left, whatever spaces are in between,
\* before and behind; spaces inside of what is left stay (names of files contain them).
SplitCorrect ==
  \A maxsplit \in 0..2 :
    LET result == split(text, " ", maxsplit) IN
    /\ DOMAIN result = 1..maxsplit + 1
    /\ \A b \in Beginnings(text, " ") :
         LET i == Ordinal(text, " ", b) IN
         /\ i <= maxsplit => result[i] = WordAt(text, " ", b)
         /\ i = maxsplit + 1 => result[i] = Stripped(text, " ", b)
    /\ \A i \in 1..maxsplit + 1 : i > Ordinal(text, " ", Len(text)) => result[i] = <<>>

\* The password is what follows the prefix in the name of the program's directory: the
\* part of the path between its last two slashes, or before its only one.
PasswordFromDirectory ==
  LET IsDirectory(i, j) ==
        /\ i < j /\ text[j] = "/" /\ \A k \in i+1..Len(text) : text[k] = "/" => k = j
        /\ i > 0 => text[i] = "/"
      Name(i, j)     == SubSeq(text, i + 1, j - 1)
      HasPrefix(dir) == IsPrefix(APP_DIR_PREFIX, InLower(dir))
      password       == set_password_from_executable(text)
  IN Len(text) < MAXPATHLEN =>
       IF password = NULL
       THEN \A i, j \in 0..Len(text) : IsDirectory(i, j) => ~HasPrefix(Name(i, j))
       ELSE \E i, j \in 0..Len(text) :
              /\ IsDirectory(i, j) /\ HasPrefix(Name(i, j))
              /\ password = SubSeq(Name(i, j), Len(APP_DIR_PREFIX) + 1, Len(Name(i, j)))

=============================================================================
