------------------------------ MODULE FileSearch ------------------------------
(* The search for a format file that goes with a data file (find_format_files  *)
(* and, if that fails, dods_find_format_compressed_files of setdbin.c): in the *)
(* format directory, the current one, the data file's, and those above it,     *)
(* each by the name of the data file and by its extension.                     *)
(*                                                                            *)
(* A path is a sequence of characters, "fmt" and the base of the file's name   *)
(* counting as one each: os_path_find_parent computes with lengths.            *)
EXTENDS Integers, Sequences, FiniteSets, SequencesExt, FiniteSetsExt

CONSTANT SearchJobs     \* the data file's path, the format directory, and the files there are

VARIABLES
    job,        \* one of them
    path,       \* the data file's name, as it is in this round
    place,      \* what is searched next: "format dir", "current", "home", "above"; "over", "crashed"
    dir,        \* the directory, when place is "above"
    found       \* {the file found}, or nothing

vars == <<job, path, place, dir, found>>

Sep == "/"

-----------------------------------------------------------------------------
(* os_utils.c *)

Separators(p) == {i \in DOMAIN p : p[i] = Sep}

\* os_path_get_parts
Home(p) == IF Separators(p) = {} THEN <<>> ELSE SubSeq(p, 1, Max(Separators(p)))
File(p) == SubSeq(p, Len(Home(p)) + 1, Len(p))
Dots(p) == LET f == File(p) IN {i \in DOMAIN f : f[i] = "."}
Base(p) == IF Dots(p) = {} THEN File(p) ELSE SubSeq(File(p), 1, Max(Dots(p)) - 1)
HasExt(p) == Dots(p) # {}
Ext(p) == SubSeq(File(p), Max(Dots(p)) + 1, Len(File(p)))

\* os_path_find_parent: the length up to the last separator is added up from the second
\* component on; without a separator nothing is cut off (but dirpath is written before its start)
Parent(p) ==
    IF Separators(p) = {} THEN p
    ELSE SubSeq(p, 1, Len(p) - (Min(Separators(p)) - 1) - Len(File(p)) - 1)

\* os_path_put_parts; and what file the path means
Strip(d) == IF Len(d) > 1 /\ Last(d) = Sep THEN Front(d) ELSE d
PutParts(d, name) == [dir |-> Strip(d), name |-> name \o <<".", "fmt">>]
Hidden(d, name) == PutParts(d, <<".">> \o name)

\* The name that a cache made a "#" path of, from the first "#" on
Uncompressed(p) ==
    LET f == File(p)
        marks == {i \in DOMAIN f : f[i] = "#"}
        tail == IF marks = {} THEN f ELSE SubSeq(f, Min(marks), Len(f))
    IN  [i \in DOMAIN tail |-> IF tail[i] = "#" THEN Sep ELSE tail[i]]

-----------------------------------------------------------------------------
(* find_dir_format_files *)

\* The files that are tried, in order; without an extension the third is in the
\* data file's directory, and there is no fourth: NULL is appended to the name
Tried_HiddenFirst(d) ==
    <<Hidden(d, Base(path)), PutParts(d, Base(path))>> \o
    IF HasExt(path) THEN <<PutParts(d, Ext(path)), Hidden(d, Ext(path))>> ELSE <<>>
Tried(d) ==
    <<PutParts(d, Base(path)), Hidden(d, Base(path))>> \o
    IF HasExt(path) THEN <<PutParts(d, Ext(path)), Hidden(d, Ext(path))>>
                    ELSE <<PutParts(Home(path), Base(path))>>
FindIn(d) ==
    LET there == SelectSeq(Tried(d), LAMBDA f : f \in job.files)
    IN  IF Base(path) = <<>> \/ there = <<>> THEN {} ELSE {there[1]}
NullExt == Base(path) # <<>> /\ ~HasExt(path)

-----------------------------------------------------------------------------
(* find_format_files *)

Init ==
    /\ job \in SearchJobs
    /\ path = job.path /\ place = "format dir" /\ dir = <<>> /\ found = {}

\* The rest of the search when d has been searched: on to the next place, or over
Searched(d, next) ==
    /\ found' = FindIn(d)
    /\ place' = IF found' # {} THEN "over" ELSE IF NullExt THEN "crashed" ELSE next
    /\ UNCHANGED <<job, path>>

SearchFormatDir ==
    /\ place = "format dir"
    /\ Searched(job.formatDir, "current")
    /\ UNCHANGED dir
SearchCurrent ==
    /\ place = "current"
    /\ Searched(<<>>, "home")
    /\ UNCHANGED dir
SearchHome ==
    /\ place = "home" /\ Home(path) # <<>>
    /\ Searched(Home(path), "above")
    /\ dir' = Parent(Home(path))
NoHome ==
    /\ place = "home" /\ Home(path) = <<>>
    /\ place' = "above" /\ dir' = <<>>
    /\ UNCHANGED <<job, path, found>>
SearchAbove ==
    /\ place = "above" /\ dir # <<>>
    /\ Searched(dir, "above")
    /\ dir' = Parent(dir)

\* make_format_eqv_list tries again with the name in the cache's
TryUncompressed ==
    /\ place = "above" /\ dir = <<>>
    /\ path = job.path
    /\ path' = Uncompressed(path)
    /\ place' = IF path' = path THEN "over" ELSE "format dir"
    /\ UNCHANGED <<job, dir, found>>
GiveUp ==
    /\ place = "above" /\ dir = <<>>
    /\ path # job.path
    /\ place' = "over"
    /\ UNCHANGED <<job, path, dir, found>>

Next == SearchFormatDir \/ SearchCurrent \/ SearchHome \/ NoHome \/ SearchAbove
        \/ TryUncompressed \/ GiveUp
Spec == Init /\ [][Next]_vars /\ WF_vars(Next)

-----------------------------------------------------------------------------
(* Properties *)

\* The directories a data file at an absolute path is looked for in, nearest last:
\* cut at its separators, but for the root
Above(p) ==
    LET cuts == SetToSortSeq(Separators(p) \ {1}, >)
    IN  [i \in DOMAIN cuts |-> SubSeq(p, 1, cuts[i] - 1)]
Places(p) == <<Strip(job.formatDir), <<>>>> \o Above(p)
Fits(f, p) == f.name \in {Base(p) \o <<".", "fmt">>, Ext(p) \o <<".", "fmt">>,
                          <<".">> \o Base(p) \o <<".", "fmt">>, <<".">> \o Ext(p) \o <<".", "fmt">>}
Candidates(p) == {f \in job.files : Fits(f, p) /\ f.dir \in Range(Places(p))}
Rank(f, p) == Min({i \in DOMAIN Places(p) : Places(p)[i] = f.dir})

\* The format file found is in the first directory that has one, and there the data
\* file's own name goes before its extension; none is overlooked.
Nearest ==
    place = "over" /\ HasExt(path) /\ Base(path) # <<>> /\ Head(path) = Sep =>
        /\ found \subseteq Candidates(path)
        /\ found = {} => Candidates(path) = {}
        /\ \A g \in found, f \in Candidates(path) :
              /\ Rank(g, path) <= Rank(f, path)
              /\ f.dir = g.dir /\ f.name = Base(path) \o <<".", "fmt">> => g = f

\* The search comes to an end.
SearchEnds == <>(place \in {"over", "crashed"})

SearchRight == []Nearest /\ SearchEnds
=============================================================================
