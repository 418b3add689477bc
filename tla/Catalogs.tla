------------------------------ MODULE Catalogs -------------------------------
(* The converters of cv_units.c for catalogues of earthquakes and for gravity   *)
(* surveys: codes that are searched for in a line of text (ff_strnstr, after    *)
(* Boyer and Moore), three magnitudes in one number, and a time that counts    *)
(* from a record before, which the converter remembers.                         *)
EXTENDS Integers, Sequences, FiniteSets, SequencesExt, FiniteSetsExt

CONSTANTS
    Lines,          \* texts to search in
    Patterns,       \* and for
    Magnitudes,     \* [mb, ms1, ms2], in hundredths
    Surveys,        \* sequences of files, each of records [time, starts, since]
    Unknown         \* what is behind the end of a line

VARIABLES
    item,       \* what is converted: [kind, ...]
    answer,     \* {}, or what came of it
    start,      \* cv_geo44tim's static start_time
    survey,     \* what is left of the files
    offsets     \* of the records so far: what they count from, and should

vars == <<item, answer, start, survey, offsets>>

-----------------------------------------------------------------------------
(* ff_strnstr: 1 .. is the text, 0 that there is no such place.                *)

Lesser(a, b) == IF a < b THEN a ELSE b
\* uCharJump
CharJump_First(p, c) ==
    LET at == {i \in DOMAIN p : p[i] = c} IN IF at = {} THEN 0 ELSE Len(p) - Min(at)
CharJump(p, c) ==
    LET at == {i \in DOMAIN p : p[i] = c} IN IF at = {} THEN 0 ELSE Len(p) - Max(at)

RECURSIVE Mismatches(_, _, _, _, _), BackUps(_, _, _, _, _), Borders(_, _, _, _, _), Scan(_, _, _, _)
\* While what is before a does not match what is before u
Mismatches(p, u, a, jump, back) ==
    IF a <= Len(p) /\ p[u] # p[a]
    THEN Mismatches(p, u, back[a], [jump EXCEPT ![a] = Lesser(@, Len(p) - u)], back)
    ELSE [a |-> a, jump |-> jump]
BackUps(p, u, a, jump, back) ==
    IF u = 0 THEN [a |-> a, jump |-> jump, back |-> back]
    ELSE LET known == [back EXCEPT ![u] = a]
             m == Mismatches(p, u, a, jump, known)
         IN  BackUps(p, u - 1, m.a - 1, m.jump, known)
Borders(p, a, b, jump, back) ==
    IF a > Len(p) THEN jump
    ELSE LET next == [u \in DOMAIN jump |->
                         IF u \in a .. b THEN Lesser(jump[u], b - u + Len(p)) ELSE jump[u]]
         IN  Borders(p, IF b < a THEN a ELSE b + 1, IF b > Len(p) THEN b ELSE back[b], next, back)
\* upMatchJump
MatchJump(p) ==
    LET n == Len(p)
        first == BackUps(p, n, n + 1, [u \in 1 .. n |-> 2 * n - u], [u \in 1 .. n |-> 0])
        whole == [u \in 1 .. n |-> IF u <= first.a THEN Lesser(first.jump[u], n + first.a - u) ELSE first.jump[u]]
    IN  Borders(p, first.a, IF first.a > n THEN 0 ELSE first.back[first.a], whole, first.back)

Scan(p, t, at, left) ==
    IF left = 0 THEN at + 1
    ELSE IF at > Len(t) THEN 0
    ELSE IF t[at] = p[left] THEN Scan(p, t, at - 1, left - 1)
    ELSE Scan(p, t, at + Max({CharJump(p, t[at]), MatchJump(p)[left]}), Len(p))
Strnstr(p, t) == Scan(p, t, Len(p), Len(p))

-----------------------------------------------------------------------------
(* Codes in a line: a word is one letter here                                 *)

InLine(t, word) == Strnstr(word, t) # 0
\* The character behind, which may be behind the line
Behind(t, word) ==
    LET i == Strnstr(word, t) + Len(word) IN IF i <= Len(t) THEN t[i] ELSE Unknown

\* cv_slu_flags
Blast == <<"b">>
Felt == <<"f">>
Mm == <<"m", "m">>
Fvm == <<"f", "v">>
Md == <<"m", "d">>
SluFlags(name, t) ==
    CASE name = "non_tectonic" -> IF InLine(t, Blast) THEN "E" ELSE " "
      [] name = "cultural" -> IF InLine(t, Felt) THEN "F" ELSE " "
      [] name = "intensity" -> IF InLine(t, Mm) THEN Behind(t, Mm) ELSE " "
      [] name = "scale" -> IF InLine(t, Fvm) THEN "LG" ELSE IF InLine(t, Md) THEN "DR" ELSE " "
      [] name = "ml_authority" -> IF InLine(t, Fvm) THEN "SLM" ELSE IF InLine(t, Md) THEN "TEI" ELSE " "
SluNames == {"non_tectonic", "cultural", "intensity", "scale", "ml_authority"}

\* cv_sea_flags: {} if it does not know
SeaFlags(name, c) ==
    CASE name = "cultural" -> IF c = "F" THEN {"F"} ELSE {}
      [] name = "ngdc_flags" -> {CASE c = "L" -> "V" [] c \in {"X", "P"} -> "E" [] OTHER -> " "}
      [] name = "depth_control" -> CASE c = "*" -> {"G"} [] c \in {"$", "#"} -> {"?"} [] OTHER -> {}
SeaNames == {"cultural", "ngdc_flags", "depth_control"}
SeaCodes == {"F", "L", "X", "P", "*", "$", "#", " "}

-----------------------------------------------------------------------------
(* Magnitudes *)

None == -1
\* cv_mag2long
Longmag(m) ==
    (IF m.mb = None THEN 0 ELSE m.mb \div 10) + (IF m.ms1 = None THEN 0 ELSE m.ms1 * 10)
        + (IF m.ms2 = None THEN 0 ELSE m.ms2 * 100000)
\* cv_long2mag, in hundredths
Long2Mag(n, name) ==
    CASE name = "mb" -> (n % 100) * 10
      [] name = "ms1" -> (n % 100000) \div 100
      [] name = "ms2" -> n \div 100000
\* cv_mag_diff
MagDiff(m, a, b) == m[a] - m[b]

-----------------------------------------------------------------------------
Ready(i) == item = i /\ answer = {}
Init ==
    /\ \/ \E t \in Lines, p \in Patterns : Ready([kind |-> "search", line |-> t, pattern |-> p])
       \/ \E t \in Lines, n \in SluNames : Ready([kind |-> "slu", line |-> t, name |-> n])
       \/ \E c \in SeaCodes, n \in SeaNames : Ready([kind |-> "sea", code |-> c, name |-> n])
       \/ \E m \in Magnitudes : Ready([kind |-> "magnitudes", of |-> m])
       \/ Ready([kind |-> "survey"])
    /\ start = 0 /\ offsets = <<>>
    /\ IF item.kind = "survey" THEN survey \in Surveys ELSE survey = <<>>

Answer(x) == answer = {} /\ answer' = {x} /\ UNCHANGED <<item, start, survey, offsets>>
SearchLine == item.kind = "search" /\ Answer([at |-> Strnstr(item.pattern, item.line)])
SluCode == item.kind = "slu" /\ Answer([code |-> SluFlags(item.name, item.line)])
SeaCode == item.kind = "sea" /\ Answer([codes |-> SeaFlags(item.name, item.code)])
PackMagnitudes ==
    /\ item.kind = "magnitudes"
    /\ Answer([mags |-> [n \in {"mb", "ms1", "ms2"} |-> Long2Mag(Longmag(item.of), n)],
               diffs |-> [p \in {"mb", "ms1"} \X {"ms2"} |-> MagDiff(item.of, p[1], p[2])]])

\* cv_geo44tim: a record whose uncertainty is 1000 is the start of a survey
TimeOffset(r) == IF r.starts THEN start' = r.time ELSE UNCHANGED start
Reading == survey # <<>> /\ survey[1] # <<>>

\* make_middle_format asks the converter about the first record, and puts back
\* what the converter has overwritten ...
AskOffset ==
    /\ Reading /\ answer = {}
    /\ TimeOffset(survey[1][1])
    /\ answer' = {"asked"}
    /\ UNCHANGED <<item, survey, offsets>>
\* ... and ff_process_format_data_mapping then about each
WriteOffset ==
    /\ Reading /\ answer # {}
    /\ TimeOffset(survey[1][1])
    /\ offsets' = Append(offsets, [from |-> start', since |-> survey[1][1].since])
    /\ survey' = <<Tail(survey[1])>> \o Tail(survey)
    /\ UNCHANGED <<item, answer>>
NextFile ==
    /\ survey # <<>> /\ survey[1] = <<>>
    /\ survey' = Tail(survey)
    /\ answer' = {}
    /\ UNCHANGED <<item, start, offsets>>

Next == SearchLine \/ SluCode \/ SeaCode \/ PackMagnitudes \/ AskOffset \/ WriteOffset \/ NextFile
Spec == Init /\ [][Next]_vars

-----------------------------------------------------------------------------
(* Properties *)

\* What was answered to an item of this kind
Answers(kind) == IF item.kind = kind THEN answer ELSE {}
Places(p, t) == {i \in 1 .. Len(t) - Len(p) + 1 : SubSeq(t, i, i + Len(p) - 1) = p}

\* The search finds the first place where the pattern is, if there is one, in
\* spite of what it skips.
FirstPlace ==
    \A a \in Answers("search") :
        LET at == Places(item.pattern, item.line) IN
        a.at = IF at = {} THEN 0 ELSE Min(at)

\* A flag is set only for a word in the line, the intensity is the character
\* behind the word, and an authority is named exactly with a scale.
FlagsRight ==
    \A a \in Answers("slu") :
        LET Has(w) == Places(w, item.line) # {} IN
        CASE item.name = "intensity" ->
                 \/ ~Has(Mm) /\ a.code = " "
                 \/ \E i \in Places(Mm, item.line) : (item.line \o <<Unknown>>)[i + 2] = a.code
          [] item.name \in {"scale", "ml_authority"} -> (a.code # " ") <=> (Has(Fvm) \/ Has(Md))
          [] OTHER -> (a.code # " ") <=> Has(IF item.name = "cultural" THEN Felt ELSE Blast)

\* Without an ms1 the other two magnitudes can be read from the number that they
\* are put in.  (With one, neither it nor mb can: see the README.)
MagnitudesKept ==
    \A a \in Answers("magnitudes"), n \in {"mb", "ms2"} :
        item.of.ms1 = None /\ item.of[n] # None => a.mags[n] = item.of[n]

\* A time counts from the last start of its own survey, whatever was converted
\* before it, and although the converter is asked twice about the first record.
OffsetsRight == \A i \in DOMAIN offsets : offsets[i].from = offsets[i].since

CatalogsRight == FirstPlace /\ FlagsRight /\ MagnitudesKept /\ OffsetsRight
=============================================================================
