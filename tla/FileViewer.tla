------------------------------ MODULE FileViewer -----------------------------
(* readfile, src/FFND/readfile.c: a binary file is shown value by value, each  *)
(* in the type that a key says, typed or from a file of keys.                  *)
(*                                                                            *)
(* A key is a string of one letter, or a number with the blank after it.  The *)
(* session ends with q (the program reads on behind the end of a file of keys *)
(* that does not).                                                            *)
EXTENDS Integers, Sequences, SequencesExt

CONSTANTS
    Sessions,   \* [keys, lines, starts, piped]: lines is what the keys are made of, starts where each begins
    Length,     \* of the file, in bytes
    KeyPlaces   \* the positions that the numbers among the keys stand for

VARIABLES
    session,
    keys,       \* input, stdin: what has not been read
    at,         \* the position in data_file
    lastOption, lastUnsigned,   \* last_option, last_u_option
    flip,       \* flip_bytes
    shown       \* what has been printed

viewerVars == <<session, keys, at, lastOption, lastUnsigned, flip, shown>>

EOL == "\n"
Sizes == [t |-> 1, c |-> 1, s |-> 2, i |-> 4, l |-> 8, f |-> 4, d |-> 8]
UnsignedTypes == {"c", "s", "i", "l"}

\* The lines without empty ones: each is the one before it again
Repeated(ls) == [k \in DOMAIN ls |->
                    LET n == CHOOSE j \in 0 .. k : /\ \A l \in j + 1 .. k : ls[l] = <<>>
                                                   /\ j > 0 => ls[j] # <<>>
                    IN  IF n = 0 THEN <<>> ELSE ls[n]]
\* An option, u with the key of a type, p with a position, or nothing but the end of the line
IsLine(l) ==
    \/ l = <<>>
    \/ Len(l) = 1 /\ l = <<l[1]>> /\ l[1] \notin {EOL, "q", "u", "p"}
    \/ /\ Len(l) = 2 /\ l[2] # EOL
       /\ l = <<"u", l[2]>> \/ (l = <<"p", l[2]>> /\ l[2] \in DOMAIN KeyPlaces)
\* At the keyboard every line has its end; an empty one does not ask for a position or a type again
IsSession(s) ==
    /\ s.lines \in Seq(ToSet(s.lines)) /\ s.keys \in Seq(ToSet(s.keys)) /\ s.piped \in BOOLEAN
    /\ s.starts \in [1 .. Len(s.lines) + 1 -> 1 .. Len(s.keys)]
    /\ s.starts[1] = 1 /\ s.starts[Len(s.lines) + 1] = Len(s.keys) /\ Last(s.keys) = "q"
    /\ \A k \in DOMAIN s.lines :
          LET l == s.lines[k]
              r == Repeated(s.lines)[k]
              ended == l = <<>> \/ ~s.piped
          IN  /\ IsLine(l) /\ IsLine(r) /\ r # <<>>
              /\ l = <<>> => r[1] # "p" /\ (r[1] = "u" => r[2] \in UnsignedTypes)
              /\ s.starts[k + 1] = s.starts[k] + Len(l) + IF ended THEN 1 ELSE 0
              /\ \A j \in DOMAIN l : s.keys[s.starts[k] + j - 1] = l[j]
              /\ ended => s.keys[s.starts[k] + Len(l)] = EOL
ASSUME ViewerAssumption ==
    /\ Length \in Nat /\ KeyPlaces \in [DOMAIN KeyPlaces -> Nat]
    /\ \A s \in Sessions : IsSession(s)

ViewerInit ==
    /\ session \in Sessions /\ keys = session.keys
    /\ at = 0 /\ lastOption = " " /\ lastUnsigned = " " /\ flip = FALSE /\ shown = <<>>

-----------------------------------------------------------------------------

\* get_option: at the keyboard the end of the line after a key goes with it
AfterKey(ks) ==
    IF ~session.piped /\ Head(ks) # EOL /\ Len(ks) > 1 /\ ks[2] = EOL THEN SubSeq(ks, 3, Len(ks)) ELSE Tail(ks)

\* check_error: a value needs all its bytes, what there is of them is read
Read(t, unsigned) ==
    IF Length - at >= Sizes[t]
    THEN /\ shown' = Append(shown, [type |-> t, unsigned |-> unsigned, at |-> at,
                                    flipped |-> flip /\ Sizes[t] > 1])
         /\ at' = at + Sizes[t]
    ELSE at' = Length /\ UNCHANGED shown

Turn == keys # <<>> /\ Head(keys) # "q"
\* An empty line is the last option again
Option == IF Head(keys) = EOL THEN lastOption ELSE Head(keys)
Remember == lastOption' = Option /\ UNCHANGED session

ShowSigned ==
    /\ Read(Option, FALSE)
    /\ keys' = AfterKey(keys)
    /\ Remember /\ lastUnsigned' = " "
    /\ UNCHANGED flip
ShowInteger == Turn /\ Option \in {"t"} \cup UnsignedTypes /\ ShowSigned
ShowReal == Turn /\ Option \in {"f", "d"} /\ ShowSigned

\* u: the type is the next key, unless the line is empty and there was one
TypeKnown_Kept == lastUnsigned # " "
TypeKnown == lastUnsigned # " " /\ Head(keys) = EOL
ShowUnsigned ==
    /\ Turn /\ Option = "u"
    /\ LET rest == AfterKey(keys)
           type == IF TypeKnown THEN lastUnsigned ELSE Head(rest)
       IN  /\ keys' = IF TypeKnown THEN rest ELSE AfterKey(rest)
           /\ IF type \in UnsignedTypes THEN Read(type, TRUE) /\ lastUnsigned' = type
              ELSE lastUnsigned' = " " /\ UNCHANGED <<at, shown>>
    /\ Remember
    /\ UNCHANGED flip

Flip ==
    /\ Turn /\ Option = "b"
    /\ flip' = ~flip
    /\ keys' = AfterKey(keys)
    /\ Remember /\ lastUnsigned' = " "
    /\ UNCHANGED <<at, shown>>

SetPosition ==
    /\ Turn /\ Option = "p"
    /\ LET rest == AfterKey(keys) IN
       /\ at' = IF KeyPlaces[Head(rest)] > Length THEN at ELSE KeyPlaces[Head(rest)]
       /\ keys' = AfterKey(rest)
    /\ Remember /\ lastUnsigned' = " "
    /\ UNCHANGED <<flip, shown>>

\* P, h, ? and what is no option
OnlyTell ==
    /\ Turn /\ Option \notin DOMAIN Sizes \cup {"u", "b", "p"}
    /\ keys' = AfterKey(keys)
    /\ Remember /\ lastUnsigned' = " "
    /\ UNCHANGED <<at, flip, shown>>

ViewerNext == ShowInteger \/ ShowReal \/ ShowUnsigned \/ Flip \/ SetPosition \/ OnlyTell
ViewerSpec == ViewerInit /\ [][ViewerNext]_viewerVars

-----------------------------------------------------------------------------
(* What it promises *)

Means(s, line) ==
    LET t == Last(line)
        unsigned == line[1] = "u"
    IN  IF line = <<"b">> THEN [s EXCEPT !.flip = ~@]
        ELSE IF line[1] = "p" THEN [s EXCEPT !.at = IF KeyPlaces[t] <= Length THEN KeyPlaces[t] ELSE @]
        ELSE IF t \notin (IF unsigned THEN UnsignedTypes ELSE DOMAIN Sizes) THEN s
        ELSE IF s.at + Sizes[t] > Length THEN [s EXCEPT !.at = Length]
        ELSE [at |-> s.at + Sizes[t],
              shown |-> Append(s.shown, [type |-> t, unsigned |-> unsigned, at |-> s.at,
                                         flipped |-> s.flip /\ Sizes[t] > 1]),
              flip |-> s.flip]
\* What the first lines of a session come to
After(ls) ==
    LET after[k \in 0 .. Len(ls)] ==
            IF k = 0 THEN [at |-> 0, flip |-> FALSE, shown |-> <<>>] ELSE Means(after[k - 1], Repeated(ls)[k])
    IN  after
\* At the end of a session all values that its lines ask for have been shown, and no others, in their
\* types and one behind the other; an empty line is the last line again, be the keys typed or not
\* (main, get_option; "return repeats the last option", show_opt)
ValuesShown ==
    keys # <<>> /\ Head(keys) = "q" => shown = After(session.lines)[Len(session.lines)].shown
=============================================================================
