----------------------------- MODULE KrpcConfig ------------------------------
(***************************************************************************)
(* class Krpcconfig of src/Krpcconfig.cc: LoadConfigFile reads a file with *)
(* fgets into a buffer of BufSize bytes (1024 in the code), takes each     *)
(* piece apart and enters it in config_map; Load looks a key up.  One step *)
(* reads and treats one piece.                                             *)
(*                                                                         *)
(* A text is a sequence of characters.  Besides the blank, '=', '#' and    *)
(* the newline, which the code tells apart, Letters are all the others.    *)
(***************************************************************************)
EXTENDS Integers, Sequences, FiniteSetsExt

CONSTANTS Letters,      \* characters without a meaning
          MaxFile,      \* bound on the length of the file
          BufSize       \* sizeof(buf)

ASSUME KrpcConfigBounds == MaxFile \in Nat /\ BufSize \in Nat \ {0, 1}

Blank == "blank"
Equals == "equals"
Hash == "hash"
Newline == "newline"
Chars == Letters \union {Blank, Equals, Hash, Newline}

VARIABLES file,         \* what the file holds
          pos,          \* characters read
          config_map,   \* a function from the keys entered to their values
          status        \* "closed", "loading", "loaded" or "exited"

configVars == <<file, pos, config_map, status>>

Texts == UNION {[1..n -> Chars] : n \in 0..MaxFile}

ConfigInit == /\ file \in Texts
              /\ pos = 0
              /\ config_map = << >>
              /\ status = "closed"
-----------------------------------------------------------------------------
From(s, i) == SubSeq(s, i, Len(s))
Where(s, P(_)) == {i \in DOMAIN s : P(s[i])}

(* find_first_not_of(' ') and the substr behind it, then the same from the *)
(* end.  A text of blanks only is left as it is.                           *)
Trim(s) == LET marks == Where(s, LAMBDA c : c # Blank)
           IN  IF marks = {} THEN s ELSE SubSeq(s, Min(marks), Max(marks))

(* fgets: up to and with the next newline, at most BufSize - 1 characters. *)
Fgets == LET rest == From(file, pos + 1)
             ends == Where(rest, LAMBDA c : c = Newline) \union {Len(rest), BufSize - 1}
         IN  SubSeq(rest, 1, Min(ends))

(* The first '=' of a trimmed line, 0 when it is a comment or has none.    *)
Split(line) == LET eqs == Where(line, LAMBDA c : c = Equals)
               IN  IF eqs = {} \/ line[1] = Hash THEN 0 ELSE Min(eqs)

Key(line) == Trim(SubSeq(line, 1, Split(line) - 1))

(* Up to the newline behind the '='; all the rest when there is none.      *)
Value(line) == LET rest == From(line, Split(line) + 1)
                   nls == Where(rest, LAMBDA c : c = Newline)
               IN  Trim(IF nls = {} THEN rest ELSE SubSeq(rest, 1, Min(nls) - 1))

(* Mutant: the last assignment wins. *)
InsertOverwrites(m, k, v) == [x \in DOMAIN m \union {k} |-> IF x = k THEN v ELSE m[x]]

(* unordered_map::insert does nothing where the key is present. *)
Insert(m, k, v) == [x \in DOMAIN m \union {k} |-> IF x \in DOMAIN m THEN m[x] ELSE v]

Load(k) == IF k \in DOMAIN config_map THEN config_map[k] ELSE << >>
-----------------------------------------------------------------------------
(* fopen; when it fails the program exits. *)
Open == /\ status = "closed"
        /\ status' \in {"loading", "exited"}
        /\ UNCHANGED <<file, pos, config_map>>

ReadLine == /\ status = "loading" /\ pos < Len(file)
            /\ LET line == Trim(Fgets)
               IN  config_map' = IF Split(line) = 0 THEN config_map
                                 ELSE Insert(config_map, Key(line), Value(line))
            /\ pos' = pos + Len(Fgets)
            /\ UNCHANGED <<file, status>>

EndOfFile == /\ status = "loading" /\ pos = Len(file)
             /\ status' = "loaded"
             /\ UNCHANGED <<file, pos, config_map>>

ConfigNext == Open \/ ReadLine \/ EndOfFile
ConfigSpec == ConfigInit /\ [][ConfigNext]_configVars
-----------------------------------------------------------------------------
(* What a configuration file means, without reading it in pieces: the      *)
(* lines are the stretches between newlines, a line that is no comment     *)
(* assigns what is behind its first '=' to what is before it, blanks       *)
(* around both not counted.                                                *)
LineStarts == {1} \union {i + 1 : i \in Where(file, LAMBDA c : c = Newline)}
LineAt(i) == LET ends == {j \in i..Len(file) : file[j] = Newline}
             IN  SubSeq(file, i, IF ends = {} THEN Len(file) ELSE Min(ends) - 1)

(* s without the blanks around it. *)
Strip(s) == CHOOSE r \in {SubSeq(s, i, j) : i \in 1..Len(s) + 1, j \in 0..Len(s)} :
               /\ \E i \in 1..Len(s) + 1, j \in 0..Len(s) :
                    /\ r = SubSeq(s, i, j)
                    /\ \A n \in DOMAIN s : n < i \/ n > j => s[n] = Blank
               /\ r # << >> => r[1] # Blank /\ r[Len(r)] # Blank

IsComment(s) == \E i \in DOMAIN s : s[i] = Hash /\ \A j \in 1..i - 1 : s[j] = Blank

FirstEquals(s) == CHOOSE e \in DOMAIN s : s[e] = Equals /\ \A j \in 1..e - 1 : s[j] # Equals

(* The lines, by their first character, that assign, and what to what. *)
Assignments == {i \in LineStarts : /\ ~IsComment(LineAt(i))
                                   /\ \E e \in DOMAIN LineAt(i) : LineAt(i)[e] = Equals}
LineKey(i) == LET s == LineAt(i) IN Strip(SubSeq(s, 1, FirstEquals(s) - 1))
LineValue(i) == LET s == LineAt(i) IN Strip(From(s, FirstEquals(s) + 1))

LinesFit == \A i \in LineStarts : Len(LineAt(i)) + 1 < BufSize

(* For a file whose lines fit the buffer, config_map has the keys that     *)
(* lines assign to and, up to blanks, each with the value of the first     *)
(* such line: comments, blanks, empty values, a missing last newline and   *)
(* repeated keys included.                                                 *)
FirstAssignmentWins ==
    status = "loaded" /\ LinesFit =>
        /\ DOMAIN config_map = {LineKey(i) : i \in Assignments}
        /\ \A i \in Assignments : (\A j \in Assignments : j < i => LineKey(j) # LineKey(i))
                                    => Strip(Load(LineKey(i))) = LineValue(i)
=============================================================================
