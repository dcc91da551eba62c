---------------------------- MODULE VirtualPath ----------------------------
(***************************************************************************)
(* The paths of source/vrt.c: what clients name, relative to a working     *)
(* directory, and the files of the partitions that they get.               *)
(*                                                                         *)
(* Paths are sequences of characters.  Normalising one is the automaton of *)
(* virtual_abspath, character by character; what it should compute is      *)
(* defined below on lists of names.  The working directory moves by CWD,   *)
(* CDUP and REIN, and the properties are about every path in every         *)
(* directory that can be reached.                                          *)
(***************************************************************************)
EXTENDS Naturals, Sequences, SequencesExt

CONSTANTS
  MAXPATHLEN,
  VIRTUAL_PARTITIONS,   \* a sequence of records with the alias and the prefix of a partition
  Lower,                \* for every character, the lower case one
  Paths,                \* what clients send as a path
  NULL

Chars == DOMAIN Lower

Root == <<"/">>
DotDot == <<".", ".">>
End == "end"           \* the zero byte behind a path

ASSUME CharsAssumption ==
  /\ {"/", ".", ":"} \subseteq Chars /\ End \notin Chars
  /\ Paths \subseteq Seq(Chars) /\ NULL \notin Seq(Chars)

\* The table in fs.c: "/sd" and "sd:/", and no two of them alike.
ASSUME AliasAssumption ==
  /\ MAXPATHLEN \in Nat \ {0} /\ Len(VIRTUAL_PARTITIONS) \in Nat
  /\ DOMAIN VIRTUAL_PARTITIONS = 1..Len(VIRTUAL_PARTITIONS)
  /\ \A i \in DOMAIN VIRTUAL_PARTITIONS :
       LET alias  == VIRTUAL_PARTITIONS[i].alias
           prefix == VIRTUAL_PARTITIONS[i].prefix
       IN /\ alias \in Seq(Chars) /\ Len(alias) > 1
          /\ alias[1] = "/" /\ \A j \in 2..Len(alias) : alias[j] \notin {"/", ".", ":"}
          /\ prefix = Tail(alias) \o <<":", "/">> /\ Len(prefix) < MAXPATHLEN
          /\ \A k \in DOMAIN VIRTUAL_PARTITIONS \ {i} :
               \/ Len(VIRTUAL_PARTITIONS[k].alias) # Len(alias)
               \/ \E j \in 1..Len(alias) :
                    Lower[VIRTUAL_PARTITIONS[k].alias[j]] # Lower[alias[j]]

VARIABLE cwd
vars == <<cwd>>

-----------------------------------------------------------------------------
(* virtual_abspath                                                         *)

\* The automaton has its state, normalised_path in out, and curr_dir in curr: the
\* number of characters before the slash it points to.

\* Mutant: the end of the path does not end a name.
EndsAtSlash(token) == token = "/"

Ends(token) == token \in {"/", End}

Goto(a, token, onDot) == [a EXCEPT !.state = IF token = "." THEN onDot ELSE "start"]

OpenDir(a) == [state |-> "slash", out |-> a.out \o Root, curr |-> Len(a.out)]

DropDot(a) == [state |-> "slash", out |-> SubSeq(a.out, 1, a.curr + 1), curr |-> a.curr]

\* What strrchr finds, or 0.
LastSlash(path) == SelectLastInSeq(path, LAMBDA c : c = "/")

\* The directory above; above the root there is none.
DropDir(a) ==
  LET before == SubSeq(a.out, 1, a.curr)
      prev   == LastSlash(before)
  IN IF prev = 0 THEN [state |-> "slash", out |-> before \o Root, curr |-> a.curr]
     ELSE [state |-> "slash", out |-> SubSeq(before, 1, prev), curr |-> prev - 1]

Switch(a, token) ==
  CASE a.state = "start"  -> IF token = "/" THEN OpenDir(a) ELSE a
    [] a.state = "slash"  -> IF token = "/" THEN a ELSE Goto(a, token, "dot")
    [] a.state = "dot"    -> IF Ends(token) THEN DropDot(a) ELSE Goto(a, token, "dotdot")
    [] a.state = "dotdot" -> IF Ends(token) THEN DropDir(a) ELSE Goto(a, token, "start")

Token(a, token) ==
  LET b == Switch(a, token) IN
  IF token = End \/ (b.state # "start" /\ token = "/") THEN b
  ELSE [b EXCEPT !.out = Append(@, token)]

\* Trailing slashes go, but for the one of the root.
StripSlashes(path) ==
  LET last == SelectLastInSeq(path, LAMBDA c : c # "/") IN
  SubSeq(path, 1, IF last = 0 THEN 1 ELSE last)

Start == [state |-> "start", out |-> <<>>, curr |-> 0]

\* The automaton after each of the characters.
Scan(path) ==
  LET at[n \in 0..Len(path)] == IF n = 0 THEN Start ELSE Token(at[n-1], path[n]) IN at

Normalised(path) == StripSlashes(Token(Scan(path)[Len(path)], End).out)

\* Mutant: the terminating zero byte is not counted.
FitsWithoutEnd(path) == Len(path) <= MAXPATHLEN

Fits(path) == Len(path) + 1 <= MAXPATHLEN

IsAbsolute(path) == path # <<>> /\ path[1] = "/"

virtual_abspath(dir, path) ==
  IF IsAbsolute(path) THEN Normalised(path)
  ELSE IF Fits(dir \o path) THEN Normalised(dir \o path)
  ELSE NULL

-----------------------------------------------------------------------------
(* to_real_path                                                            *)

InLower(path) == [i \in DOMAIN path |-> Lower[path[i]]]

\* Mutant: a name that begins like an alias is taken for it.
BeginsLikeAlias(alias, path) == IsPrefix(InLower(alias), InLower(path))

IsBelow(alias, path) ==
  /\ IsPrefix(InLower(alias), InLower(path))
  /\ Len(path) = Len(alias) \/ path[Len(alias) + 1] = "/"

PartitionOf(path) ==
  SelectInSeq(VIRTUAL_PARTITIONS, LAMBDA partition : IsBelow(partition.alias, path))

\* What follows the alias and its slash.
RestOf(alias, path) == SubSeq(path, Len(alias) + 2, Len(path))

\* The empty path stands for the root of the virtual file system.
RealPath(virtual) ==
  IF virtual = Root THEN <<>>
  ELSE LET i == PartitionOf(virtual) IN
       IF i = 0 THEN NULL
       ELSE LET partition == VIRTUAL_PARTITIONS[i]
                real      == partition.prefix \o RestOf(partition.alias, virtual)
            IN IF Fits(real) THEN real ELSE NULL

to_real_path(dir, path) ==
  LET virtual == virtual_abspath(dir, path) IN
  IF Contains(path, ":") \/ virtual = NULL THEN NULL ELSE RealPath(virtual)

-----------------------------------------------------------------------------
(* Directories                                                             *)

\* What vrt_dirnext lists of the root: the aliases of the mounted partitions.
RootListing(mounted) == {Tail(VIRTUAL_PARTITIONS[i].alias) : i \in mounted}

\* Mutant: a slash is appended to the root, too.
AlwaysAppendsSlash(abspath) == abspath \o Root

\* vrt_chdir: all directories but the root end with a slash.
AsDirectory(abspath) == IF Len(abspath) > 1 THEN abspath \o Root ELSE abspath

\* Mutant: the directory is kept as the client has named it.
KeepsName(path) ==
  /\ to_real_path(cwd, path) # NULL
  /\ cwd' = AsDirectory(path)

\* Whether the directory exists is not up to this module, the root always does.
vrt_chdir(path) ==
  /\ to_real_path(cwd, path) # NULL
  /\ cwd' = AsDirectory(virtual_abspath(cwd, path))

ftp_CWD(path) == vrt_chdir(path)

ftp_CDUP == vrt_chdir(DotDot)

ftp_REIN == cwd' = Root

Init == cwd = Root

Next ==
  \/ \E path \in Paths : ftp_CWD(path)
  \/ ftp_CDUP
  \/ ftp_REIN

Spec == Init /\ [][Next]_vars

-----------------------------------------------------------------------------
(* What the paths mean: names, from the root                               *)

\* Where a word leads from a list of names.
Enter(names, word) ==
  IF word \in {<<>>, <<".">>} THEN names
  ELSE IF word # DotDot THEN Append(names, word)
  ELSE IF names = <<>> THEN <<>> ELSE Front(names)

\* Reading a path: the names so far, and the word that is being read.
ReadChar(r, c) ==
  IF c = "/" THEN [names |-> Enter(r.names, r.word), word |-> <<>>]
  ELSE [r EXCEPT !.word = Append(@, c)]

Reading(names, path) ==
  LET at[n \in 0..Len(path)] ==
        IF n = 0 THEN [names |-> names, word |-> <<>>] ELSE ReadChar(at[n-1], path[n])
  IN at

\* Following a path from a list of names.
Walk(names, path) ==
  LET r == Reading(names, path)[Len(path)] IN Enter(r.names, r.word)

Names(path) == Walk(<<>>, path)

\* Names as a path.
Spelled(names) ==
  LET at[n \in 0..Len(names)] == IF n = 0 THEN <<>> ELSE at[n-1] \o Root \o names[n]
  IN at[Len(names)]

Joined(names) == IF names = <<>> THEN Root ELSE Spelled(names)

-----------------------------------------------------------------------------
(* Properties                                                              *)

\* Type invariant: the working directory is an absolute path.
TypeOK == cwd \in Seq(Chars) /\ IsAbsolute(cwd)

\* The automaton of virtual_abspath computes what ".", ".." and repeated slashes mean.
AbspathCorrect ==
  \A path \in Paths :
    \/ virtual_abspath(cwd, path)
         = Joined(Walk(IF IsAbsolute(path) THEN <<>> ELSE Names(cwd), path))
    \/ virtual_abspath(cwd, path) = NULL /\ ~IsAbsolute(path) /\ ~Fits(cwd \o path)

\* However a client got into a directory, its working directory is spelled in one way,
\* and CWD with the answer to PWD leads back there from anywhere.
PwdLeadsBack ==
  /\ cwd = IF Names(cwd) = <<>> THEN Root ELSE Joined(Names(cwd)) \o Root
  /\ to_real_path(Root, cwd) # NULL
  /\ AsDirectory(virtual_abspath(Root, cwd)) = cwd

\* vrt.c:106: "The resulting path will fit in an array of size MAXPATHLEN"; and it stays
\* below its partition: no colon but the prefix's, no dots, no empty names.
RealPathConfined ==
  \A path \in Paths :
    LET real == to_real_path(cwd, path) IN
    real \notin {NULL, <<>>} =>
      /\ Len(real) < MAXPATHLEN
      /\ \E i \in DOMAIN VIRTUAL_PARTITIONS :
           LET prefix == VIRTUAL_PARTITIONS[i].prefix
               rest   == SubSeq(real, Len(prefix) + 1, Len(real))
           IN /\ IsPrefix(prefix, real)
              /\ ~Contains(rest, ":")
              /\ rest # <<>> => Joined(Names(rest)) = Root \o rest

\* vrt.c:106: "The resulting path will fit in an array of size MAXPATHLEN", which
\* char cwd[MAXPATHLEN] (ftp.c:63) is.  The path does, but vrt_chdir then appends a
\* slash to it: a directory whose path just fits needs one byte more.
CwdFits == Fits(cwd)

\* Every name that a listing of the root shows can be named from anywhere, and is that
\* partition.
ListedIsReachable ==
  \A mounted \in SUBSET DOMAIN VIRTUAL_PARTITIONS :
    {to_real_path(cwd, Root \o name) : name \in RootListing(mounted)}
      = {VIRTUAL_PARTITIONS[i].prefix : i \in mounted}

=============================================================================
