-------------------------------- MODULE Shell --------------------------------
(***************************************************************************)
(* A line typed at the shell: readline and cmd_parse of shell/shell.c, and *)
(* wash_path of shell/buildin_cmd.c for the name of a program.  A line is  *)
(* a sequence of characters; the reference edits it as one and takes its   *)
(* words and the components of its path as sets of runs.                   *)
(***************************************************************************)
EXTENDS Integers, FiniteSetsExt, SequencesExt

CONSTANTS
  Letters,
  MAX_PATH_LEN, \* size of cmd_line
  MAX_ARG_NR    \* size of argv

ASSUME ShellAssumption == MAX_PATH_LEN \in Nat \ {0} /\ MAX_ARG_NR \in Nat \ {0}

Plain   == Letters \cup {" ", "/", "."}
NUL     == "NUL"

VARIABLES
  cmd_line,   \* the buffer
  pos,        \* where readline is in it
  typed,      \* the line as the user has edited it
  argv, argc, \* what cmd_parse has made of the last line
  final_path, \* the path of the program, without . and ..
  shell       \* "reads", "parsed", "halted" by an assert or "overrun"

shellVars == <<cmd_line, pos, typed, argv, argc, final_path, shell>>

Cleared == [i \in 0..MAX_PATH_LEN - 1 |-> NUL]

ShellInit ==
  /\ cmd_line = Cleared /\ pos = 0 /\ typed = <<>>
  /\ argv = <<>> /\ argc = -1 /\ final_path = <<>>
  /\ shell = "reads"

-----------------------------------------------------------------------------
\* readline: read stores the character at pos.

Reads == shell = "reads" /\ pos < MAX_PATH_LEN
Stored(c) == [cmd_line EXCEPT ![pos] = c]

Type(c) ==
  /\ Reads
  /\ cmd_line' = Stored(c) /\ pos' = pos + 1 /\ typed' = Append(typed, c)
  /\ UNCHANGED <<argv, argc, final_path, shell>>

Backspace ==
  /\ Reads
  /\ cmd_line' = Stored("bs")
  /\ pos' = IF cmd_line'[0] # "bs" THEN pos - 1 ELSE pos
  /\ typed' = IF typed = <<>> THEN typed ELSE Front(typed)
  /\ UNCHANGED <<argv, argc, final_path, shell>>

Clear ==
  /\ Reads
  /\ cmd_line' = Stored(NUL)
  /\ UNCHANGED <<pos, typed, argv, argc, final_path, shell>>

\* The buffer is full: the next character, whichever it is, is stored behind it, and the
\* line without its end is parsed.  The model stops here.
Overrun ==
  /\ shell = "reads" /\ pos = MAX_PATH_LEN
  /\ shell' = "overrun"
  /\ UNCHANGED <<cmd_line, pos, typed, argv, argc, final_path>>

\* ctrl+u leaves the first character in the buffer.
EraseLine ==
  /\ Reads
  /\ cmd_line' = [i \in DOMAIN cmd_line |->
                    IF i \in 1..pos THEN NUL ELSE Stored("ctrl_u")[i]]
  /\ pos' = 0 /\ typed' = <<>>
  /\ UNCHANGED <<argv, argc, final_path, shell>>

-----------------------------------------------------------------------------
\* cmd_parse, path_parse and wash_path.

\* What a buffer holds as a string.
String(buf) ==
  LET len == Min({i \in DOMAIN buf : buf[i] = NUL} \cup {MAX_PATH_LEN})
  IN [i \in 1..len |-> buf[i - 1]]

\* Wrong on purpose: a word that just fits is one too many.
ScannedTight(at, c) ==
  IF at.too_many THEN at
  ELSE IF c = " "
  THEN [at EXCEPT !.inside = FALSE,
                  !.too_many = at.inside /\ Len(at.words) >= MAX_ARG_NR]
  ELSE IF at.inside THEN [at EXCEPT !.words[Len(at.words)] = Append(@, c)]
  ELSE [at EXCEPT !.inside = TRUE, !.words = Append(@, <<c>>)]

\* Where cmd_parse is: the words it has stored and whether it is in one; too_many is
\* its return of -1, at the end of the second word behind argv.
Scanned(at, c) ==
  IF at.too_many THEN at
  ELSE IF c = " "
  THEN [at EXCEPT !.inside = FALSE,
                  !.too_many = at.inside /\ Len(at.words) - 1 > MAX_ARG_NR]
  ELSE IF at.inside THEN [at EXCEPT !.words[Len(at.words)] = Append(@, c)]
  ELSE [at EXCEPT !.inside = TRUE, !.words = Append(@, <<c>>)]

cmd_parse(line) ==
  Scanned(FoldLeft(Scanned, [words |-> <<>>, inside |-> FALSE, too_many |-> FALSE], line), " ")

\* One more component of a path: its names, what is washed so far, and the name read.
Up(path) ==
  LET slash == Max({i \in DOMAIN path : path[i] = "/"})
  IN IF slash = 1 THEN <<"/">> ELSE SubSeq(path, 1, slash - 1)

Washed(path, name) ==
  IF name = <<>> \/ name = <<".">> THEN path
  ELSE IF name = <<".", ".">> THEN Up(path)
  ELSE (IF path = <<"/">> THEN path ELSE path \o <<"/">>) \o name

\* path_parse again and again.
Names(path) ==
  LET parse(at, c) ==
        IF c = "/" THEN [name |-> <<>>, names |-> at.names \o (IF at.name = <<>> THEN <<>> ELSE <<at.name>>)]
        ELSE [at EXCEPT !.name = Append(@, c)]
  IN FoldLeft(parse, [name |-> <<>>, names |-> <<>>], path \o <<"/">>).names

wash_path(path) == FoldLeft(Washed, <<"/">>, Names(path))

\* The working directory is the root here.
make_clear_abs_path(path) == wash_path((IF path[1] = "/" THEN <<>> ELSE <<"/">>) \o path)

\* Enter on a line that is not empty.  my_shell compares argv[0] with its commands, which
\* fails an assert of strcmp when there is no word.
Enter ==
  /\ Reads
  /\ LET line   == String(Stored(NUL))
         parsed == cmd_parse(line)
     IN /\ line # <<>>
        /\ cmd_line' = Stored(NUL)
        /\ argv' = parsed.words
        /\ argc' = IF parsed.too_many THEN -1 ELSE Len(parsed.words)
        /\ final_path' = IF argc' > 0 THEN make_clear_abs_path(argv'[1]) ELSE <<>>
        /\ shell' = IF argc' = 0 THEN "halted" ELSE "parsed"
  /\ UNCHANGED <<pos, typed>>

Prompt ==
  /\ \/ shell = "parsed"
     \/ Reads /\ String(Stored(NUL)) = <<>>
  /\ cmd_line' = Cleared /\ pos' = 0 /\ typed' = <<>>
  /\ argv' = <<>> /\ argc' = -1 /\ final_path' = <<>>
  /\ shell' = "reads"

ShellNext ==
  \/ \E c \in Plain : Type(c)
  \/ Backspace \/ Clear \/ EraseLine \/ Overrun \/ Enter \/ Prompt

ShellSpec == ShellInit /\ [][ShellNext]_shellVars

-----------------------------------------------------------------------------
\* The maximal runs of characters of s other than gap, in order.
Runs(s, gap) ==
  LET inside(i) == i \in DOMAIN s /\ s[i] # gap
      spans == {run \in (DOMAIN s) \X (DOMAIN s) :
                  /\ \A k \in run[1]..run[2] : inside(k)
                  /\ run[1] <= run[2] /\ ~inside(run[1] - 1) /\ ~inside(run[2] + 1)}
      order == SetToSortSeq(spans, LAMBDA a, b : a[1] < b[1])
  IN [n \in DOMAIN order |-> SubSeq(s, order[n][1], order[n][2])]

\* Where a walk along the names of a path ends: the names that no later .. takes back.
Place(names) ==
  LET step(at, name) ==
        IF name = <<".">> THEN at
        ELSE IF name = <<".", ".">> THEN (IF at = <<>> THEN at ELSE Front(at))
        ELSE Append(at, name)
  IN FoldLeft(step, <<>>, names)

\* How far a line goes that is too long for what is to hold it.  A line is refused only for
\* the second word behind argv, and no third is stored there; only a line that has
\* all of the buffer to itself lets readline store one more character behind it.
Refused(words) == Len(words) >= MAX_ARG_NR + 2

\* The shell runs what the user has typed: the buffer up to pos is the edited line, also
\* when it is full, the words of a line that is not refused are its arguments, and the path
\* of the program has no . or .. and ends where the typed one does.  Only a blank line
\* halts it.
CommandAsTyped ==
  LET words == Runs(typed, " ")
  IN /\ shell \in {"reads", "overrun"} => /\ pos = Len(typed)
                                         /\ \A i \in 1..pos : cmd_line[i - 1] = typed[i]
     /\ shell = "overrun" => Len(typed) = MAX_PATH_LEN
     /\ shell = "parsed" => argv = SubSeq(words, 1, Min({Len(words), MAX_ARG_NR + 2}))
     /\ shell = "parsed" /\ Refused(words) => argc = -1
     /\ shell = "parsed" /\ ~Refused(words) =>
          /\ argc = Len(words)
          /\ argc > 0 => /\ final_path[1] = "/"
                         /\ Runs(final_path, "/") = Place(Runs(argv[1], "/"))
     /\ shell = "halted" => typed # <<>> /\ words = <<>>
=============================================================================
