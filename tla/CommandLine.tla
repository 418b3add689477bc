----------------------------- MODULE CommandLine -----------------------------
(* The command lines of newform, chkform and checkvar, makedbin.c, and what    *)
(* their main functions do before and after the work: options are read one    *)
(* after another into the standard arguments, an option that the program       *)
(* does not have ends it, and at last the log and the messages are written,   *)
(* perhaps to the same file.                                                  *)
(*                                                                            *)
(* An argument is a string, as is what it sets; a number is not 0.             *)
EXTENDS Integers, Sequences, SequencesExt, FiniteSets

CONSTANTS
    Commands,   \* [program, words, settings, starts, redirected]: settings is what the words are made of,
                \* starts where each begins
    Dashed,     \* the words that begin with '-'
    NumberWords, \* ... that are numbers to their ends
    Existing,   \* ... that are files
    Creatable,  \* ... that files may be called
    Nil

VARIABLES
    command, args,
    place,      \* i
    told,       \* the messages in the list: where they come from
    pc,
    text,       \* the log that the program keeps in memory
    files,      \* what is in the files that can be created
    screen      \* the messages shown

commandVars == <<command, args, place, told, pc, text, files, screen>>

-----------------------------------------------------------------------------
(* The options: which members an option sets from the word after it, and what  *)
(* the word must be *)

Takes(test, members) == [test |-> test, members |-> members, more |-> <<>>, marks |-> {}]
Switch(m) == [Takes("none", {}) EXCEPT !.marks = {m}]
OptionB == Takes("positive", {"cache_size"})
OptionC == Takes("number", {"records_to_read"})
OptionD == Takes("file", {"input_file"})
OptionE(o) == IF o = "-ep" THEN Switch("no_error_prompt") ELSE Takes("new", {"error_log"})
OptionF(o) == IF o = "-f" THEN [Takes("file", {"input_format_file", "output_format_file"}) EXCEPT !.marks = {"format_file"}]
              ELSE [Takes("text", {"input_format_title", "output_format_title"}) EXCEPT !.marks = {"format_title"}]
OptionG == [Takes("number", {"SDE_grid_size"}) EXCEPT !.more = <<"SDE_grid_size2", "SDE_grid_size3">>]
OptionI(o) == IF o = "-if" THEN Takes("file", {"input_format_file"}) ELSE Takes("text", {"input_format_title"})
OptionM(o) == IF o = "-m" THEN Takes("positive", {"cv_maxbins"}) ELSE Switch("cv_maxmin_only")
OptionO(o) == IF o = "-o" THEN Takes("text", {"output_file"}) ELSE IF o = "-od" THEN Takes("text", {"cv_list_file_dir"})
              ELSE IF o = "-of" THEN Takes("file", {"output_format_file"})
              ELSE IF o = "-oft" THEN Takes("text", {"output_format_title"}) ELSE Takes("new", {"log_file"})
OptionP == [Takes("number", {"cv_precision"}) EXCEPT !.marks = {"set_cv_precision"}]
OptionS == Switch("cv_subset")
OptionT == Takes("file", {"sdts_terms_file"})
OptionQ == Takes("file", {"query_file"})
OptionV == Takes("file", {"var_file"})

OptionNames == {"-b", "-c", "-d", "-ep", "-el", "-f", "-ft", "-g", "-if", "-ift", "-m", "-mm",
                "-o", "-od", "-of", "-oft", "-ol", "-p", "-s", "-t", "-q", "-v"}
Options == [o \in OptionNames |->
               IF o = "-b" THEN OptionB ELSE IF o = "-c" THEN OptionC ELSE IF o = "-d" THEN OptionD
               ELSE IF o \in {"-ep", "-el"} THEN OptionE(o) ELSE IF o \in {"-f", "-ft"} THEN OptionF(o)
               ELSE IF o = "-g" THEN OptionG ELSE IF o \in {"-if", "-ift"} THEN OptionI(o)
               ELSE IF o \in {"-m", "-mm"} THEN OptionM(o) ELSE IF o = "-p" THEN OptionP
               ELSE IF o = "-s" THEN OptionS ELSE IF o = "-t" THEN OptionT ELSE IF o = "-q" THEN OptionQ
               ELSE IF o = "-v" THEN OptionV ELSE OptionO(o)]
Members == (UNION {Options[o].members \cup ToSet(Options[o].more) \cup Options[o].marks : o \in OptionNames})
             \cup {"is_stdin_redirected"}

\* init_std_args; "set" for a flag that is on
StdArgs == [m \in Members |-> Nil]
IsSet(m) == args[m] # Nil

Refused(test, w) ==
    \/ test = "file" /\ w \notin Existing
    \/ test = "new" /\ w \notin Creatable
    \/ test \in {"number", "positive"} /\ w \notin NumberWords

-----------------------------------------------------------------------------
(* What the words of a command line are made of *)

\* The members that an option sets, from the words behind it
Sets(o, w) ==
    LET more == {j \in 1 .. Len(w) - 2 : j \in DOMAIN o.more} IN
    [m \in o.members \cup o.marks \cup {o.more[j] : j \in more} |->
        IF m \in o.members THEN w[2] ELSE IF m \in o.marks THEN "set"
        ELSE w[2 + CHOOSE j \in more : o.more[j] = m]]
\* The kth setting is the data file, a word too many, no option of any program, a switch, an option that
\* misses its value, or one with its values
IsSetting(c, k) ==
    LET s == c.settings[k]
        w == s.words
        n == Len(w)
        o == Options[w[1]]
        known == w[1] \in Dashed \cap OptionNames
        right == s.complete /\ s.good
        faulty == s.complete /\ ~s.good
        first == k = 1 /\ n = 1 /\ w[1] \notin Dashed /\ s.complete /\ s.good = (w[1] \in Existing)
    IN  \/ first /\ s.sets = [m \in {"input_file"} |-> w[1]]
        \/ n = 1 /\ faulty /\ w[1] \notin Dashed /\ k > 1
        \/ n = 1 /\ faulty /\ w[1] \in Dashed \ OptionNames
        \/ known /\ n = 1 /\ right /\ o.test = "none" /\ s.sets = [m \in o.marks |-> "set"]
        \/ known /\ n = 2 /\ faulty /\ o.test = "positive" /\ w[2] \in Dashed
        \/ known /\ n = 1 /\ ~s.complete /\ ~s.good /\ o.test # "none"
        \/ /\ known /\ o.test # "none" /\ s.complete
           /\ n \in 2 .. Len(o.more) + 2 /\ (o.test = "positive" => w[2] \notin Dashed)
           /\ s.good = \A j \in 2 .. n : ~Refused(o.test, w[j])
           /\ \A j \in 3 .. n : w[j] \notin Dashed
           /\ k < Len(c.settings) /\ n < Len(o.more) + 2 => c.settings[k + 1].words[1] \in Dashed
           /\ s.good => s.sets = Sets(o, w)
IsCommand(c) ==
    /\ c.words \in Seq(ToSet(c.words)) /\ "old" \notin ToSet(c.words) /\ c.redirected \in BOOLEAN
    /\ c.settings \in Seq(ToSet(c.settings))
    /\ c.starts \in [1 .. Len(c.settings) + 1 -> 1 .. Len(c.words) + 1]
    /\ c.starts[1] = 1 /\ c.starts[Len(c.settings) + 1] = Len(c.words) + 1
    /\ \A k \in DOMAIN c.settings :
          LET s == c.settings[k] IN
          /\ {s.complete, s.good} \subseteq BOOLEAN /\ s.words \in Seq(ToSet(s.words))
          /\ c.starts[k + 1] = c.starts[k] + Len(s.words)
          /\ \A j \in DOMAIN s.words : c.words[c.starts[k] + j - 1] = s.words[j]
          /\ IsSetting(c, k)
ASSUME CommandsAssumption == \A c \in Commands : IsCommand(c)

-----------------------------------------------------------------------------
(* parse_command_line *)

Words == command.words
Tell(w) == told' = Append(told, w)
HasValue(k) == k \in DOMAIN Words
IsPlain(k) == HasValue(k) /\ Words[k] \notin Dashed

CommandInit ==
    /\ command \in Commands
    /\ args = [StdArgs EXCEPT !["is_stdin_redirected"] =
                   IF command.words = <<>> /\ command.redirected THEN "set" ELSE Nil]
    /\ place = 1 /\ told = <<>> /\ pc = "parse" /\ text = <<>> /\ screen = <<>>
    /\ files = [f \in Creatable |-> <<"old">>]

AtOption == pc = "parse" /\ HasValue(place) /\ Words[place] \in Dashed
TheOption == Options[Words[place]]

UnknownOption ==
    /\ AtOption /\ Words[place] \notin OptionNames
    /\ Tell(Words[place])
    /\ place' = place + 1
    /\ UNCHANGED <<command, args, pc, text, files, screen>>

ReadSwitch ==
    /\ AtOption /\ Words[place] \in OptionNames /\ TheOption.test = "none"
    /\ args' = [m \in Members |-> IF m \in TheOption.marks THEN "set" ELSE args[m]]
    /\ place' = place + 1
    /\ UNCHANGED <<command, told, pc, text, files, screen>>

MissesValue == HasValue(place + 1) => (TheOption.test = "positive" /\ Words[place + 1] \in Dashed)
NoValue ==
    /\ AtOption /\ Words[place] \in OptionNames
    /\ TheOption.test # "none" /\ MissesValue
    /\ Tell(Words[place])
    /\ place' = place + 2
    /\ UNCHANGED <<command, args, pc, text, files, screen>>

\* How many more values -g takes
Further == LET n == Len(TheOption.more) IN
           CHOOSE k \in 0 .. n : /\ \A j \in 1 .. k : IsPlain(place + 1 + j)
                                 /\ k < n => ~IsPlain(place + 2 + k)
Value(j) == Words[place + 1 + j]
\* The message about a value, of which there are three at most
Refusal(j) == IF j <= Further /\ Refused(TheOption.test, Value(j)) THEN <<Value(j)>> ELSE <<>>
\* A value that will not do is stored all the same; a file for messages is removed
ReadValue ==
    /\ AtOption /\ Words[place] \in OptionNames
    /\ TheOption.test # "none" /\ ~MissesValue
    /\ args' = [m \in Members |->
                  IF m \in TheOption.members THEN Value(0)
                  ELSE IF m \in TheOption.marks THEN "set"
                  ELSE IF \E j \in 1 .. Further : TheOption.more[j] = m
                       THEN Value(CHOOSE j \in 1 .. Further : TheOption.more[j] = m)
                  ELSE IF m = "is_stdin_redirected" /\ "input_file" \in TheOption.members THEN Nil ELSE args[m]]
    /\ told' = told \o Refusal(0) \o Refusal(1) \o Refusal(2)
    /\ files' = IF TheOption.test = "new" /\ Value(0) \in Creatable THEN [files EXCEPT ![Value(0)] = <<>>] ELSE files
    /\ place' = place + 2 + Further
    /\ UNCHANGED <<command, pc, text, screen>>

\* What begins without '-' is the data file, if it is the first word
ReadWord ==
    /\ pc = "parse" /\ IsPlain(place)
    /\ args' = IF place = 1 THEN [args EXCEPT !["input_file"] = Words[place]] ELSE args
    /\ told' = IF place > 1 \/ Words[place] \notin Existing THEN Append(told, Words[place]) ELSE told
    /\ place' = place + 1
    /\ UNCHANGED <<command, pc, text, files, screen>>

\* Without a data file there must be standard input; the log takes the messages
\* if they have no file of their own
FinishParse ==
    /\ pc = "parse" /\ ~HasValue(place)
    /\ LET stdin == ~IsSet("input_file") /\ command.redirected
           none == ~IsSet("input_file") /\ ~command.redirected /\ Words # <<>>
           line == told # <<>> \/ none   \* show_command_line
       IN  /\ args' = [args EXCEPT !["is_stdin_redirected"] = IF stdin THEN "set" ELSE @,
                                   !["error_log"] = IF @ = Nil THEN args["log_file"] ELSE @]
           /\ told' = told \o (IF none THEN <<"no data">> ELSE <<>>) \o (IF line THEN <<"command line">> ELSE <<>>)
           /\ pc' = IF line THEN "failed" ELSE "check"
    /\ UNCHANGED <<command, place, text, files, screen>>

-----------------------------------------------------------------------------
(* The programs: check_for_unused_flags and the main functions *)

SkipsRecords == IF IsSet("is_stdin_redirected") THEN {"records_to_read"} ELSE {}
UnusedNewform == {"set_cv_precision", "cv_maxbins"} \cup SkipsRecords
UnusedChkform == {"set_cv_precision", "cv_maxbins", "cv_maxmin_only", "output_file", "output_format_file",
                  "output_format_title", "var_file"} \cup SkipsRecords
UnusedCheckvar == {"output_file"}
Unused == IF command.program = "newform" THEN UnusedNewform
          ELSE IF command.program = "chkform" THEN UnusedChkform ELSE UnusedCheckvar

\* chkform without arguments shows what it may be called with
Check ==
    /\ pc = "check"
    /\ IF \E m \in Unused : IsSet(m) THEN Tell("unused option") /\ pc' = "failed"
       ELSE /\ UNCHANGED told
            /\ pc' = IF command.program = "chkform" /\ Words = <<>> /\ ~command.redirected THEN "end" ELSE "work"
    /\ UNCHANGED <<command, args, place, text, files, screen>>

\* newform, chkform, checkvar
Work ==
    /\ pc = "work"
    /\ text' = IF IsSet("log_file") THEN <<"log">> ELSE <<>>
    /\ \E t \in {<<>>, <<"data">>} : told' = told \o t
    /\ pc' = IF command.program = "chkform" THEN "failed" ELSE "log"
    /\ UNCHANGED <<command, args, place, files, screen>>

\* The log's mode: the messages' file is added to
Written_Anew == <<"log">>
Written == IF args["error_log"] = args["log_file"] THEN Append(files[args["log_file"]], "log") ELSE <<"log">>
LogWritten ==
    /\ files' = IF text = <<>> THEN files ELSE [files EXCEPT ![args["log_file"]] = Written]
    /\ UNCHANGED <<command, args, place, text, screen, told>>
\* newform and checkvar write the log before the messages, ...
WriteLog == pc = "log" /\ LogWritten /\ pc' = "failed"
\* ... chkform after them
WriteLogLast == pc = "last" /\ LogWritten /\ pc' = "end"

\* err_disp (the list is empty then, told tells what was in it)
ShowMessages ==
    /\ pc = "failed"
    /\ files' = IF told # <<>> /\ args["error_log"] \in Creatable
                THEN [files EXCEPT ![args["error_log"]] = @ \o told] ELSE files
    /\ screen' = IF told # <<>> /\ ~IsSet("log_file") THEN told ELSE screen
    /\ pc' = IF command.program = "chkform" THEN "last" ELSE "end"
    /\ UNCHANGED <<command, args, place, told, text>>

CommandNext ==
    \/ UnknownOption \/ ReadSwitch \/ NoValue \/ ReadValue \/ ReadWord \/ FinishParse
    \/ Check \/ Work \/ WriteLog \/ ShowMessages \/ WriteLogLast
CommandSpec == CommandInit /\ [][CommandNext]_commandVars

-----------------------------------------------------------------------------
(* What the programs promise *)

ParseEnded == pc \in {"failed", "check"} /\ (pc = "failed" => "command line" \in ToSet(told))
Settings == command.settings
\* All but the last have their values
FrontComplete == \A k \in DOMAIN Settings : k < Len(Settings) => Settings[k].complete
Complete == \A k \in DOMAIN Settings : Settings[k].complete
AllGood == \A k \in DOMAIN Settings : Settings[k].good
\* The last setting of a member
Meant(m) == LET ks == {k \in DOMAIN Settings : m \in DOMAIN Settings[k].sets} IN
            IF ks = {} THEN Nil ELSE Settings[Max(ks)].sets[m]
HasData == Words = <<>> \/ command.redirected \/ Meant("input_file") # Nil

\* A command line whose options all have their values is taken just if every value will do, and then
\* every argument is what the last option for it says, whether the option is for one of the formats
\* or for both; nor is it taken if only its last option lacks a value (parse_command_line, option_B to option_V)
OptionsRight ==
    ParseEnded =>
        /\ Complete => (pc = "check") = (AllGood /\ HasData)
        /\ Complete /\ pc = "check" => \A m \in Members \ {"is_stdin_redirected", "error_log"} : args[m] = Meant(m)
        /\ ~Complete /\ FrontComplete => pc = "failed"
\* At the end the log of the work is in its file, with nothing older, and the messages are in theirs or
\* on the screen, also when both are one file; messages are lost only if there is a log and their
\* file cannot be created (the main functions, err_disp)
OutputsKept ==
    LET error == args["error_log"] IN
    pc = "end" =>
        /\ text # <<>> => /\ "log" \in ToSet(files[args["log_file"]])
                         /\ "old" \notin ToSet(files[args["log_file"]])
        /\ \/ screen = told
           \/ error \in Creatable /\ \E k \in 0 .. Len(files[error]) - Len(told) :
                                         told = SubSeq(files[error], k + 1, k + Len(told))
           \/ IsSet("log_file") /\ error \notin Creatable
CommandsRight == OptionsRight /\ OutputsKept
=============================================================================
