-------------------------------- MODULE Errors -------------------------------
(* FreeForm's list of messages, src/FFND/error.c.  Every function pushes what  *)
(* goes wrong onto one global list; err_disp shows it and empties it, and the *)
(* DAP handler counts it and pulls messages off.                              *)
(*                                                                            *)
(* The list is a sequence (ItemLists says why it may be); an empty list and   *)
(* no list are the same, as pop_error and pull_error free a list they empty.  *)
EXTENDS Integers, Sequences, SequencesExt

CONSTANTS
    Codes,      \* the codes that are pushed
    MaxErrors,  \* bound: the length of the list
    MaxCount    \* bound: the numbers of its messages

\* Codes are positive, the system's own included
ASSUME CodesAssumption == Codes \subseteq Nat /\ MaxErrors \in Nat /\ MaxCount \in Nat

VARIABLES
    list,       \* error_list
    disp,       \* err_disp: what it was called with, and how far it has come
    result      \* what err_disp returned

vars == <<list, disp, result>>

NotShowing == [on |-> FALSE, log |-> FALSE, screen |-> FALSE, asks |-> FALSE,
               error |-> <<>>, lowest |-> 0,
               logged |-> <<>>, shown |-> <<>>, all |-> <<>>]

Init == list = <<>> /\ disp = NotShowing /\ result = 0

-----------------------------------------------------------------------------
(* Descriptions *)

WarningOnly == 16000
IsWarning(code) == code > WarningOnly

\* local_errlist
ErrorNumbers ==
    <<500, 501, 502, 503, 504, 505, 506, 507, 508, 510, 515, 519, 522, 523, 524, 525, 526,
      1000, 1001, 1003, 1004, 1012, 1021, 1022, 1023, 1024, 1509, 1517, 1520, 1525,
      2000, 2500, 2501, 3000, 3001, 3002, 3003, 3500, 3501, 3502, 3503,
      4001, 4006, 4013, 4014, 4015, 4016, 4017, 6001, 6002, 6003, 6004, 6005, 6006, 6007,
      7001, 7002, 7003, 7004, 7005, 7006, 7007, 7501, 7900, 7901, 7902, 7903, 7904, 7905>>

\* err_bin_search: a place in local_errlist, or 0; between low and high at first
Ranges == (1 .. Len(ErrorNumbers) + 1) \X (0 .. Len(ErrorNumbers))
BinSearch_Unclosed(code) ==
    LET search[r \in Ranges] ==
          LET mid == (r[1] + r[2]) \div 2 IN
          IF r[1] >= r[2] THEN 0
          ELSE IF code < ErrorNumbers[mid] THEN search[<<r[1], mid - 1>>]
          ELSE IF code > ErrorNumbers[mid] THEN search[<<mid + 1, r[2]>>]
          ELSE mid
    IN  search[<<1, Len(ErrorNumbers)>>]
BinSearch(code) ==
    LET search[r \in Ranges] ==
          LET mid == (r[1] + r[2]) \div 2 IN
          IF r[1] > r[2] THEN 0
          ELSE IF code < ErrorNumbers[mid] THEN search[<<r[1], mid - 1>>]
          ELSE IF code > ErrorNumbers[mid] THEN search[<<mid + 1, r[2]>>]
          ELSE mid
    IN  search[<<1, Len(ErrorNumbers)>>]

\* err_get_msg: the system's own codes are below 400
Problem(code) == IF code < 400 THEN <<"system", code>> ELSE <<"own", BinSearch(code)>>

-----------------------------------------------------------------------------
(* Pushing and taking off *)

\* create_error, add_error: messages are numbered on from the last one, errors
\* and warnings each for themselves
Numbered_FromLength(code) ==
    [code |-> code, problem |-> Problem(IF IsWarning(code) THEN code - WarningOnly ELSE code),
     errorOrd |-> IF IsWarning(code) THEN 0 ELSE Len(list) + 1,
     warningOrd |-> IF IsWarning(code) THEN Len(list) + 1 ELSE 0]
Numbered_RestartsClass(code) ==
    LET last == IF list = <<>> THEN [errorOrd |-> 0, warningOrd |-> 0] ELSE Last(list) IN
    [code |-> code, problem |-> Problem(IF IsWarning(code) THEN code - WarningOnly ELSE code),
     errorOrd |-> IF IsWarning(code) THEN 0 ELSE last.errorOrd + 1,
     warningOrd |-> IF IsWarning(code) THEN last.warningOrd + 1 ELSE 0]
Numbered(code) ==
    LET last == IF list = <<>> THEN [errorOrd |-> 0, warningOrd |-> 0] ELSE Last(list) IN
    [code |-> code, problem |-> Problem(IF IsWarning(code) THEN code - WarningOnly ELSE code),
     errorOrd |-> last.errorOrd + IF IsWarning(code) THEN 0 ELSE 1,
     warningOrd |-> last.warningOrd + IF IsWarning(code) THEN 1 ELSE 0]

\* pull_error: without the first one
Rest_Kept == list
Rest == Tail(list)

\* err_state, err_count
State == list # <<>>
CountOf_Errors(l) == IF l = <<>> THEN 0 ELSE Last(l).errorOrd
CountOf(l) == IF l = <<>> THEN 0 ELSE Last(l).errorOrd + Last(l).warningOrd
Count == CountOf(list)

\* err_push, verr_push
Push(code) ==
    /\ ~disp.on
    /\ Len(list) < MaxErrors /\ Count < MaxCount
    /\ list' = Append(list, Numbered(code))
    /\ UNCHANGED <<disp, result>>

\* pop_error, err_pop: the last one
Pop ==
    /\ ~disp.on /\ list # <<>>
    /\ list' = Front(list)
    /\ UNCHANGED <<disp, result>>

Pull ==
    /\ ~disp.on /\ list # <<>>
    /\ list' = Rest
    /\ UNCHANGED <<disp, result>>

\* err_clear
Clear ==
    /\ ~disp.on
    /\ list' = <<>>
    /\ UNCHANGED <<disp, result>>

\* db_init forgives a stage that failed: while (err_count() > num_errors) err_pop()
PoppedBack_AtLeast(n) ==
    SubSeq(list, 1, CHOOSE k \in 0 .. Len(list) :
        /\ CountOf(SubSeq(list, 1, k)) < n \/ k = 0
        /\ \A j \in k + 1 .. Len(list) : CountOf(SubSeq(list, 1, j)) >= n)
PoppedBack(n) ==
    SubSeq(list, 1, CHOOSE k \in 0 .. Len(list) :
        /\ CountOf(SubSeq(list, 1, k)) <= n
        /\ \A j \in k + 1 .. Len(list) : CountOf(SubSeq(list, 1, j)) > n)
PopBack(n) ==
    /\ ~disp.on
    /\ list' = PoppedBack(n)
    /\ UNCHANGED <<disp, result>>

-----------------------------------------------------------------------------
(* err_disp *)

Messages(s) == [i \in DOMAIN s |-> s[i].code]
Lowest(a, b) == IF a < b THEN a ELSE b

\* With an error log or without, on the screen or not, with a user or without
BeginDisp(log, screen, asks) ==
    /\ ~disp.on /\ list # <<>>
    /\ disp' = [NotShowing EXCEPT !.on = TRUE, !.log = log, !.screen = screen, !.asks = asks,
                                  !.error = <<Head(list)>>, !.lowest = Head(list).code,
                                  !.all = Messages(list)]
    /\ list' = Rest
    /\ UNCHANGED result

\* One turn: the next one is pulled, this one printed; who does not want to see
\* the next message sees none any more
StopsAt_Silent(d) == [d EXCEPT !.asks = FALSE, !.screen = FALSE, !.log = FALSE]
StopsAt(d) == [d EXCEPT !.asks = FALSE, !.screen = FALSE]
Printed(d) == [d EXCEPT !.logged = IF d.log THEN Append(@, d.error[1].code) ELSE @,
                        !.shown = IF d.screen THEN Append(@, d.error[1].code) ELSE @]
LowestSoFar_Printed(d, next) == IF d.screen THEN Lowest(d.lowest, next.code) ELSE d.lowest
LowestSoFar(d, next) == Lowest(d.lowest, next.code)
Show ==
    /\ disp.on /\ disp.error # <<>>
    /\ \/ /\ list = <<>>
          /\ disp' = [Printed(disp) EXCEPT !.error = <<>>]
          /\ UNCHANGED list
       \/ /\ list # <<>>
          /\ \E d \in {Printed(disp)} \cup
                      IF disp.asks /\ ~IsWarning(disp.error[1].code)
                      THEN {StopsAt(Printed(disp))} ELSE {} :
               disp' = [d EXCEPT !.error = <<Head(list)>>, !.lowest = LowestSoFar(d, Head(list))]
          /\ list' = Rest
    /\ UNCHANGED result

EndDisp ==
    /\ disp.on /\ disp.error = <<>>
    /\ result' = disp.lowest
    /\ disp' = NotShowing
    /\ UNCHANGED list

Calls ==
    \/ \E code \in Codes : Push(code)
    \/ Pop \/ Pull \/ Clear
    \/ \E n \in 0 .. MaxCount : PopBack(n)
    \/ \E log, screen, asks \in BOOLEAN : BeginDisp(log, screen, asks)
Next == Calls \/ Show \/ EndDisp
Spec == Init /\ [][Next]_vars /\ WF_vars(Show \/ EndDisp)

-----------------------------------------------------------------------------
(* Properties *)

\* err_count is not 0 whenever there is a message, however many were pulled or
\* popped before; read_ff fails by it.
CountFits == (Count = 0 <=> ~State) /\ Count >= Len(list)

\* Whatever was pulled or popped before: popping back to the count of an earlier
\* moment leaves the messages of that moment (db_init).
MarksHold ==
    \A k \in 0 .. Len(list) :
        PoppedBack(CountOf(SubSeq(list, 1, k))) = SubSeq(list, 1, k)

\* Numbers go up by one from message to message, so that no two errors and no
\* two warnings are shown with the same number (add_error).
NumbersFollow ==
    \A i \in 1 .. Len(list) - 1 :
        LET a == list[i]
            b == list[i + 1]
        IN  IF IsWarning(b.code)
            THEN b.warningOrd = a.warningOrd + 1 /\ b.errorOrd = a.errorOrd
            ELSE b.errorOrd = a.errorOrd + 1 /\ b.warningOrd = a.warningOrd

\* A message is described by its own line of local_errlist, as a warning too.
Described ==
    \A i \in DOMAIN list :
        LET c == list[i].code - IF IsWarning(list[i].code) THEN WarningOnly ELSE 0
            known == {k \in DOMAIN ErrorNumbers : ErrorNumbers[k] = c}
        IN  list[i].problem = IF c < 400 THEN <<"system", c>>
                              ELSE IF known = {} THEN <<"own", 0>>
                              ELSE <<"own", CHOOSE k \in known : TRUE>>

\* The list can be counted, popped back and described at any time.
MessagesKept == CountFits /\ MarksHold /\ NumbersFollow /\ Described

\* What err_disp does is not cut short by a user who has seen enough: the log
\* gets every message, the list is empty, and the lowest code is returned.
DispComplete ==
    [][disp.on /\ ~disp'.on =>
         /\ list' = <<>>
         /\ \A i \in DOMAIN disp.all : result' <= disp.all[i]
         /\ result' \in Range(disp.all)
         /\ disp.logged \in {<<>>, disp.all} /\ (disp.log => disp.logged # <<>>)
         /\ IsPrefix(disp.shown, disp.all)]_vars
=============================================================================
