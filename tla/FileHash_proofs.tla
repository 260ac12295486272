--------------------------- MODULE FileHash_proofs ---------------------------
(***************************************************************************)
(* Proofs about FileHash: its inductive invariant FileHashInv, one lemma   *)
(* per group of its conjuncts, and the properties that follow from it, for *)
(* any number of files, any limit of the message queue and any number of   *)
(* commands.                                                               *)
(***************************************************************************)
EXTENDS FileHash, TLAPS

USE FileHashAssumption

\* An entry stays one when the child assigns one of its fields.
LEMMA Fields ==
  ASSUME NEW e \in Entry
  PROVE  /\ \A d \in {"file", "unfit"} : [e EXCEPT !.is_directory = d] \in Entry
         /\ [e EXCEPT !.file_size_valid = TRUE] \in Entry
         /\ \A s \in {"hash", "error", "aborted"} : [e EXCEPT !.sha512 = s] \in Entry
         /\ [e EXCEPT !.sha512_valid = TRUE] \in Entry
  BY DEF Entry

\* The lines of an entry, and the list of any length.
LEMMA Lists ==
  /\ \A e \in Entry : Line(e) \in SUBSET Printout
  /\ \A n \in Nat : Listed(n) \in [Slot -> Entry]
  /\ NoLines \in [Slot -> SUBSET Printout]
<1>1. \A e \in Entry : Line(e) \in SUBSET Printout
  BY DEF Entry, Line, Printout
<1>2. \A n \in Nat : Listed(n) \in [Slot -> Entry]
  <2> SUFFICES ASSUME NEW n \in Nat, NEW i \in Slot
               PROVE  [fpath |-> i <= n, is_directory |-> "none", file_size_valid |-> FALSE,
                       sha512 |-> "none", sha512_valid |-> FALSE] \in Entry
    BY DEF Listed
  <2> (i <= n) \in BOOLEAN
    BY DEF Slot
  <2> QED
    BY DEF Entry
<1>3. NoLines \in [Slot -> SUBSET Printout]
  BY DEF NoLines
<1>4. QED
  BY <1>1, <1>2, <1>3

\* The initial state.
LEMMA InitInv == Init => FileHashInv
<1> SUFFICES ASSUME Init PROVE FileHashInv
  OBVIOUS
<1>1. TypeOK
  <2>1. Listed(0) \in [Slot -> Entry] /\ NoLines \in [Slot -> SUBSET Printout]
    BY Lists
  <2>2. MaxFiles \in Nat /\ MaxFiles >= 1 /\ MaxCommands \in Nat
    BY DEF FileHashAssumption
  <2>3. <<>> \in Seq({"PROGRESS", "ENDING"})
    OBVIOUS
  <2>4. 0 \in 0..MaxFiles /\ 1 \in 1..(MaxFiles + 1) /\ MaxCommands \in 0..MaxCommands
    BY <2>2
  <2>5. shown \in [lines : [Slot -> SUBSET Printout],
                    ending : {"usage", "none", "complete", "aborted"}]
    BY <2>1 DEF Init
  <2>6. QED
    BY <2>1, <2>3, <2>4, <2>5 DEF Init, TypeOK
<1>2. ChildrenApart /\ CompleteIsComplete /\ QuietMeansShown /\ HaltMeansActive
  BY DEF Init, ChildrenApart, CompleteIsComplete, QuietMeansShown, HaltMeansActive
<1>3. Handshake /\ InOrder /\ OneFile /\ PathsFirst /\ Outcomes
  BY DEF Init, Handshake, InOrder, OneFile, OnFile, PathsFirst, Outcomes, Listed, Slot
<1>4. Pending /\ RowsLeft
  BY DEF Init, Pending, RowsLeft, NoLines, Slot
<1>5. QED
  BY <1>1, <1>2, <1>3, <1>4 DEF FileHashInv

\* Types.
LEMMA TypeStep ==
  ASSUME TypeOK, OneFile, [Next]_vars
  PROVE  TypeOK'
<1> USE DEF shared, window, thread
<1>1. CASE Drop
  BY <1>1 DEF Drop, Command, TypeOK, Slot
<1>2. CASE Open
  BY <1>2 DEF Open, Command, TypeOK, Slot
<1>3. CASE Halt
  BY <1>3 DEF Halt, Command, TypeOK
<1>4. CASE Destroy
  BY <1>4 DEF Destroy, Command, TypeOK
<1>5. CASE Dispatch
  BY <1>5 DEF Dispatch, TypeOK
<1>6. CASE StageRow
  BY <1>6, Lists DEF StageRow, RowLines, TypeOK, Slot
<1>7. CASE Show
  BY <1>7, Lists DEF Show, TypeOK, Slot
<1>8. CASE Stopped
  BY <1>8 DEF Stopped, ThreadEnded, ThreadIsDone, TypeOK
<1>9. CASE NewList
  <2>1. Listed(chosen) \in [Slot -> Entry]
    BY Lists DEF TypeOK
  <2>2. MaxFiles \in Nat /\ MaxFiles >= 1
    BY DEF FileHashAssumption
  <2>3. /\ child' \in {"top", child} /\ fidx' \in {1, fidx}
        /\ ui' \in {"stage", "loop"} /\ task' = "none" /\ chosen' = 0
        /\ info' = Listed(chosen) /\ ending' = "none"
        /\ UNCHANGED <<abort, queue, row, staged, shown, commands>>
    BY <1>9 DEF NewList
  <2>4. fidx' \in 1..(MaxFiles + 1) /\ chosen' \in 0..MaxFiles
    BY <2>2, <2>3 DEF TypeOK
  <2>5. opened' \in BOOLEAN /\ active' \in BOOLEAN /\ halt' \in BOOLEAN
    BY <1>9 DEF NewList, TypeOK
  <2>6. QED
    BY <2>1, <2>3, <2>4, <2>5 DEF TypeOK
<1>10. CASE Halted
  BY <1>10 DEF Halted, TypeOK
<1>11. CASE Quit
  BY <1>11 DEF Quit, TypeOK
<1>12. CASE Top
  BY ZenonT(60), <1>12 DEF Top, At, MoreToDo, parent, TypeOK
<1>13. CASE Attributes
  <2>1. fidx \in Slot /\ info[fidx] \in Entry
    BY <1>13 DEF Attributes, At, TypeOK, OneFile, OnFile
  <2>2. PICK d \in {"file", "unfit"} : info' = [info EXCEPT ![fidx].is_directory = d]
    BY <1>13 DEF Attributes
  <2>3. info' \in [Slot -> Entry]
    BY <2>1, <2>2, Fields DEF TypeOK
  <2>4. QED
    BY <1>13, <2>3 DEF Attributes, At, parent, TypeOK
<1>14. CASE Size
  <2>1. fidx \in Slot /\ info[fidx] \in Entry
    BY <1>14 DEF Size, At, TypeOK, OneFile, OnFile
  <2>2. info' \in [Slot -> Entry]
    BY <1>14, <2>1, Fields DEF Size, TypeOK
  <2>3. opened' \in BOOLEAN
    BY <1>14 DEF Size, TypeOK
  <2>4. QED
    BY <1>14, <2>2, <2>3 DEF Size, At, parent, TypeOK
<1>15. CASE Progress
  BY <1>15 DEF Progress, At, Post, parent, TypeOK
<1>16. CASE Seek
  <2>1. fidx \in Slot /\ info[fidx] \in Entry
    BY <1>16 DEF Seek, At, TypeOK, OneFile, OnFile
  <2>2. info' \in [Slot -> Entry]
    BY <1>16, <2>1, Fields DEF Seek, At, TypeOK
  <2>3. QED
    BY <1>16, <2>1, <2>2 DEF Seek, At, parent, TypeOK, Slot
<1>17. CASE Hashed
  BY <1>17 DEF Hashed, At, Post, parent, TypeOK
<1>18. CASE Valid
  <2>1. fidx \in Slot /\ info[fidx] \in Entry
    BY <1>18 DEF Valid, At, TypeOK, OneFile, OnFile
  <2>2. info' \in [Slot -> Entry]
    BY <1>18, <2>1, Fields DEF Valid, At, TypeOK
  <2>3. QED
    BY <1>18, <2>1, <2>2 DEF Valid, At, parent, TypeOK, Slot
<1>19. CASE Close
  <2>1. fidx \in Slot /\ info[fidx] \in Entry
    BY <1>19 DEF Close, At, TypeOK, OneFile, OnFile
  <2>2. info' \in [Slot -> Entry]
    BY ZenonT(60), <1>19, <2>1, Fields DEF Close, At, TypeOK
  <2>3. QED
    BY <1>19, <2>1, <2>2 DEF Close, At, parent, TypeOK, Slot
<1>20. CASE Outcome
  BY <1>20 DEF Outcome, At, parent, TypeOK
<1>21. CASE Ending
  BY <1>21 DEF Ending, At, Post, parent, TypeOK
<1>22. CASE Read
  <2>1. fidx \in Slot /\ info[fidx] \in Entry
    BY <1>22 DEF Read, At, TypeOK, OneFile, OnFile
  <2>2. info' \in [Slot -> Entry]
    BY ZenonT(60), <1>22, <2>1, Fields DEF Read, At, TypeOK
  <2>3. QED
    BY <1>22, <2>1, <2>2 DEF Read, At, parent, TypeOK, Slot
<1>23. CASE ReadAborted
  <2>1. fidx \in Slot /\ info[fidx] \in Entry
    BY <1>23 DEF ReadAborted, At, TypeOK, OneFile, OnFile
  <2>2. info' \in [Slot -> Entry]
    BY <1>23, <2>1, Fields DEF ReadAborted, At, TypeOK
  <2>3. QED
    BY <1>23, <2>1, <2>2 DEF ReadAborted, At, parent, TypeOK, Slot
<1>24. CASE UNCHANGED vars
  BY <1>24 DEF vars, TypeOK
<1>25. QED
  BY <1>1, <1>2, <1>3, <1>4, <1>5, <1>6, <1>7, <1>8, <1>9, <1>10, <1>11, <1>12, <1>13, <1>14, <1>15, <1>16, <1>17, <1>18, <1>19, <1>20, <1>21, <1>22, <1>23, <1>24 DEF Next, Handle, Work

\* What the main thread knows of the child.
LEMMA HandshakeStep ==
  ASSUME TypeOK, Handshake, HaltMeansActive, [Next]_vars
  PROVE  Handshake' /\ HaltMeansActive'
<1> USE DEF shared, window, thread
<1>1. CASE Drop
  BY <1>1 DEF Drop, Command, TypeOK, Handshake, HaltMeansActive
<1>2. CASE Open
  BY <1>2 DEF Open, Command, TypeOK, Handshake, HaltMeansActive
<1>3. CASE Halt
  BY <1>3 DEF Halt, Command, TypeOK, Handshake, HaltMeansActive
<1>4. CASE Destroy
  BY <1>4 DEF Destroy, Command, TypeOK, Handshake, HaltMeansActive
<1>5. CASE Dispatch
  BY <1>5 DEF Dispatch, TypeOK, Handshake, HaltMeansActive
<1>6. CASE StageRow
  BY <1>6 DEF StageRow, RowLines, Line, Printout, TypeOK, Handshake, HaltMeansActive
<1>7. CASE Show
  BY <1>7 DEF Show, RowLines, NoLines, TypeOK, Handshake, HaltMeansActive
<1>8. CASE Stopped
  BY <1>8 DEF Stopped, ThreadEnded, ThreadIsDone, TypeOK, Handshake, HaltMeansActive
<1>9. CASE NewList
  BY <1>9 DEF NewList, Listed, TypeOK, Handshake, HaltMeansActive
<1>10. CASE Halted
  BY <1>10 DEF Halted, TypeOK, Handshake, HaltMeansActive
<1>11. CASE Quit
  BY <1>11 DEF Quit, TypeOK, Handshake, HaltMeansActive
<1>12. CASE Top
  BY <1>12 DEF Top, At, MoreToDo, parent, TypeOK, Handshake, HaltMeansActive
<1>13. CASE Attributes
  BY <1>13 DEF Attributes, At, parent, TypeOK, Handshake, HaltMeansActive
<1>14. CASE Size
  BY <1>14 DEF Size, At, parent, TypeOK, Handshake, HaltMeansActive
<1>15. CASE Progress
  BY <1>15 DEF Progress, At, Post, parent, TypeOK, Handshake, HaltMeansActive
<1>16. CASE Seek
  BY <1>16 DEF Seek, At, parent, TypeOK, Handshake, HaltMeansActive
<1>17. CASE Hashed
  BY <1>17 DEF Hashed, At, Post, parent, TypeOK, Handshake, HaltMeansActive
<1>18. CASE Valid
  BY <1>18 DEF Valid, At, parent, TypeOK, Handshake, HaltMeansActive
<1>19. CASE Close
  BY <1>19 DEF Close, At, parent, TypeOK, Handshake, HaltMeansActive
<1>20. CASE Outcome
  BY <1>20 DEF Outcome, At, parent, TypeOK, Handshake, HaltMeansActive
<1>21. CASE Ending
  BY <1>21 DEF Ending, At, Post, parent, TypeOK, Handshake, HaltMeansActive
<1>22. CASE Read
  BY <1>22 DEF Read, At, parent, TypeOK, Handshake, HaltMeansActive
<1>23. CASE ReadAborted
  BY <1>23 DEF ReadAborted, At, AbortSeen, parent, TypeOK, Handshake, HaltMeansActive
<1>24. CASE UNCHANGED vars
  BY <1>24 DEF vars, TypeOK, Handshake, HaltMeansActive
<1>25. QED
  BY <1>1, <1>2, <1>3, <1>4, <1>5, <1>6, <1>7, <1>8, <1>9, <1>10, <1>11, <1>12, <1>13, <1>14, <1>15, <1>16, <1>17, <1>18, <1>19, <1>20, <1>21, <1>22, <1>23, <1>24 DEF Next, Handle, Work

\* The child deals with the files in order.
LEMMA OrderStep ==
  ASSUME TypeOK, Handshake, InOrder, OneFile, PathsFirst, Outcomes, [Next]_vars
  PROVE  InOrder' /\ OneFile' /\ PathsFirst'
<1> USE DEF shared, window, thread
<1>1. CASE Drop
  BY <1>1 DEF Drop, Command, TypeOK, Handshake, InOrder, OneFile, OnFile, PathsFirst, Outcomes, Finished, Entry, Slot
<1>2. CASE Open
  BY <1>2 DEF Open, Command, TypeOK, Handshake, InOrder, OneFile, OnFile, PathsFirst, Outcomes, Finished, Entry, Slot
<1>3. CASE Halt
  BY <1>3 DEF Halt, Command, TypeOK, Handshake, InOrder, OneFile, OnFile, PathsFirst, Outcomes, Finished, Entry, Slot
<1>4. CASE Destroy
  BY <1>4 DEF Destroy, Command, TypeOK, Handshake, InOrder, OneFile, OnFile, PathsFirst, Outcomes, Finished, Entry, Slot
<1>5. CASE Dispatch
  BY <1>5 DEF Dispatch, TypeOK, Handshake, InOrder, OneFile, OnFile, PathsFirst, Outcomes, Finished, Entry, Slot
<1>6. CASE StageRow
  BY <1>6 DEF StageRow, RowLines, Line, Printout, TypeOK, Handshake, InOrder, OneFile, OnFile, PathsFirst, Outcomes, Finished, Entry, Slot
<1>7. CASE Show
  BY <1>7 DEF Show, RowLines, NoLines, TypeOK, Handshake, InOrder, OneFile, OnFile, PathsFirst, Outcomes, Finished, Entry, Slot
<1>8. CASE Stopped
  BY <1>8 DEF Stopped, ThreadEnded, ThreadIsDone, TypeOK, Handshake, InOrder, OneFile, OnFile, PathsFirst, Outcomes, Finished, Entry, Slot
<1>9. CASE NewList
  BY <1>9 DEF NewList, Listed, TypeOK, Handshake, InOrder, OneFile, OnFile, PathsFirst, Outcomes, Finished, Entry, Slot
<1>10. CASE Halted
  BY <1>10 DEF Halted, TypeOK, Handshake, InOrder, OneFile, OnFile, PathsFirst, Outcomes, Finished, Entry, Slot
<1>11. CASE Quit
  BY <1>11 DEF Quit, TypeOK, Handshake, InOrder, OneFile, OnFile, PathsFirst, Outcomes, Finished, Entry, Slot
<1>12. CASE Top
  BY <1>12 DEF Top, At, MoreToDo, parent, TypeOK, Handshake, InOrder, OneFile, OnFile, PathsFirst, Outcomes, Finished, Entry, Slot
<1>13. CASE Attributes
  BY <1>13 DEF Attributes, At, parent, TypeOK, Handshake, InOrder, OneFile, OnFile, PathsFirst, Outcomes, Finished, Entry, Slot
<1>14. CASE Size
  BY <1>14 DEF Size, At, parent, TypeOK, Handshake, InOrder, OneFile, OnFile, PathsFirst, Outcomes, Finished, Entry, Slot
<1>15. CASE Progress
  BY <1>15 DEF Progress, At, Post, parent, TypeOK, Handshake, InOrder, OneFile, OnFile, PathsFirst, Outcomes, Finished, Entry, Slot
<1>16. CASE Seek
  <2>1. fidx \in Slot
    BY <1>16 DEF Seek, At, OneFile, OnFile
  <2>2. \A i \in Slot : /\ i # fidx => info'[i] = info[i]
                       /\ info'[i].fpath = info[i].fpath
                       /\ info'[i].is_directory = info[i].is_directory
                       /\ info'[i].file_size_valid = info[i].file_size_valid
                       /\ info'[i].sha512_valid = info[i].sha512_valid
    BY <1>16, <2>1 DEF Seek, At, TypeOK, Entry
  <2>3. info'[fidx].sha512 \in {info[fidx].sha512, "error"}
           /\ (child' = "valid" => info'[fidx].sha512 = "error")
    BY <1>16, <2>1 DEF Seek, At, TypeOK, Entry
  <2>4. QED
    BY ZenonT(60), <1>16, <2>1, <2>2, <2>3 DEF Seek, At, parent, Handshake, InOrder, OneFile, OnFile, PathsFirst, Outcomes, Finished, Slot, TypeOK
<1>17. CASE Hashed
  BY <1>17 DEF Hashed, At, Post, parent, TypeOK, Handshake, InOrder, OneFile, OnFile, PathsFirst, Outcomes, Finished, Entry, Slot
<1>18. CASE Valid
  BY <1>18 DEF Valid, At, parent, TypeOK, Handshake, InOrder, OneFile, OnFile, PathsFirst, Outcomes, Finished, Entry, Slot
<1>19. CASE Close
  <2>1. fidx \in Slot
    BY <1>19 DEF Close, At, OneFile, OnFile
  <2>2. \A i \in Slot : /\ i # fidx => info'[i] = info[i]
                       /\ info'[i].fpath = info[i].fpath
                       /\ info'[i].is_directory = info[i].is_directory
                       /\ info'[i].file_size_valid = info[i].file_size_valid
                       /\ info'[i].sha512_valid = info[i].sha512_valid
    BY <1>19, <2>1 DEF Close, At, TypeOK, Entry
  <2>3. info'[fidx].sha512 \in {info[fidx].sha512, "error"}
    BY <1>19, <2>1 DEF Close, At, TypeOK, Entry
  <2>4. /\ fidx' = fidx + 1
        /\ info'[fidx].is_directory # "none" /\ info'[fidx].file_size_valid
        /\ info'[fidx].sha512_valid /\ info'[fidx].sha512 # "none"
    BY <1>19, <2>1, <2>2, <2>3 DEF Close, At, OneFile, OnFile
  <2>5. InOrder'
    <3>1. fidx \in Nat /\ child # "ended"
      BY <1>19 DEF Close, At, TypeOK
    <3>2. ASSUME NEW i \in Slot, i > fidx'
          PROVE  info'[i].is_directory = "none"
      BY <2>2, <2>4, <3>1, <3>2 DEF InOrder, Slot
    <3>3. ASSUME NEW i \in Slot, i < fidx', info'[i].fpath
          PROVE  Finished(i)'
      <4>1. CASE i = fidx
        BY <2>4, <4>1 DEF Finished
      <4>2. CASE i < fidx
        BY <2>2, <3>1, <3>3, <4>2 DEF InOrder, Finished
      <4>3. QED
        BY <2>4, <3>1, <3>3, <4>1, <4>2 DEF Slot
    <3>4. QED
      BY <3>2, <3>3 DEF InOrder
  <2>6. OneFile'
    BY <1>19, <2>1, <2>2, <2>4 DEF Close, At, OneFile, OnFile, InOrder, Slot, TypeOK
  <2>7. PathsFirst'
    BY <2>2 DEF PathsFirst
  <2>8. QED
    BY <2>5, <2>6, <2>7
<1>20. CASE Outcome
  BY <1>20 DEF Outcome, At, parent, TypeOK, Handshake, InOrder, OneFile, OnFile, PathsFirst, Outcomes, Finished, Entry, Slot
<1>21. CASE Ending
  BY <1>21 DEF Ending, At, Post, parent, TypeOK, Handshake, InOrder, OneFile, OnFile, PathsFirst, Outcomes, Finished, Entry, Slot
<1>22. CASE Read
  <2>1. fidx \in Slot
    BY <1>22 DEF Read, At, OneFile, OnFile
  <2>2. \A i \in Slot : /\ i # fidx => info'[i] = info[i]
                       /\ info'[i].fpath = info[i].fpath
                       /\ info'[i].is_directory = info[i].is_directory
                       /\ info'[i].file_size_valid = info[i].file_size_valid
                       /\ info'[i].sha512_valid = info[i].sha512_valid
    BY <1>22, <2>1 DEF Read, At, TypeOK, Entry
  <2>3. info'[fidx].sha512 \in {"hash", "error"}
    BY <1>22, <2>1 DEF Read, At, TypeOK, Entry
  <2>4. QED
    BY ZenonT(60), <1>22, <2>1, <2>2, <2>3 DEF Read, At, parent, Handshake, InOrder, OneFile, OnFile, PathsFirst, Outcomes, Finished, Slot, TypeOK
<1>23. CASE ReadAborted
  <2>1. fidx \in Slot
    BY <1>23 DEF ReadAborted, At, OneFile, OnFile
  <2>2. \A i \in Slot : /\ i # fidx => info'[i] = info[i]
                       /\ info'[i].fpath = info[i].fpath
                       /\ info'[i].is_directory = info[i].is_directory
                       /\ info'[i].file_size_valid = info[i].file_size_valid
                       /\ info'[i].sha512_valid = info[i].sha512_valid
    BY <1>23, <2>1 DEF ReadAborted, At, TypeOK, Entry
  <2>3. info'[fidx].sha512 = "aborted" /\ abort
    BY <1>23, <2>1 DEF ReadAborted, At, TypeOK, Entry, AbortSeen
  <2>4. QED
    BY <1>23, <2>1, <2>2, <2>3 DEF ReadAborted, At, parent, Handshake, InOrder, OneFile, OnFile, PathsFirst, Outcomes, Finished, Slot, TypeOK
<1>24. CASE UNCHANGED vars
  BY <1>24 DEF vars, TypeOK, Handshake, InOrder, OneFile, OnFile, PathsFirst, Outcomes, Finished, Entry, Slot
<1>25. QED
  BY <1>1, <1>2, <1>3, <1>4, <1>5, <1>6, <1>7, <1>8, <1>9, <1>10, <1>11, <1>12, <1>13, <1>14, <1>15, <1>16, <1>17, <1>18, <1>19, <1>20, <1>21, <1>22, <1>23, <1>24 DEF Next, Handle, Work

\* How a list ends.
LEMMA OutcomeStep ==
  ASSUME TypeOK, Handshake, InOrder, OneFile, PathsFirst, Outcomes, CompleteIsComplete, [Next]_vars
  PROVE  Outcomes' /\ CompleteIsComplete'
<1> USE DEF shared, window, thread
<1>1. CASE Drop
  BY <1>1 DEF Drop, Command, TypeOK, Handshake, InOrder, OneFile, OnFile, PathsFirst, Outcomes, Finished, CompleteIsComplete, Entry, Slot
<1>2. CASE Open
  BY <1>2 DEF Open, Command, TypeOK, Handshake, InOrder, OneFile, OnFile, PathsFirst, Outcomes, Finished, CompleteIsComplete, Entry, Slot
<1>3. CASE Halt
  BY <1>3 DEF Halt, Command, TypeOK, Handshake, InOrder, OneFile, OnFile, PathsFirst, Outcomes, Finished, CompleteIsComplete, Entry, Slot
<1>4. CASE Destroy
  BY <1>4 DEF Destroy, Command, TypeOK, Handshake, InOrder, OneFile, OnFile, PathsFirst, Outcomes, Finished, CompleteIsComplete, Entry, Slot
<1>5. CASE Dispatch
  BY <1>5 DEF Dispatch, TypeOK, Handshake, InOrder, OneFile, OnFile, PathsFirst, Outcomes, Finished, CompleteIsComplete, Entry, Slot
<1>6. CASE StageRow
  BY <1>6 DEF StageRow, RowLines, Line, Printout, TypeOK, Handshake, InOrder, OneFile, OnFile, PathsFirst, Outcomes, Finished, CompleteIsComplete, Entry, Slot
<1>7. CASE Show
  BY <1>7 DEF Show, RowLines, NoLines, TypeOK, Handshake, InOrder, OneFile, OnFile, PathsFirst, Outcomes, Finished, CompleteIsComplete, Entry, Slot
<1>8. CASE Stopped
  BY <1>8 DEF Stopped, ThreadEnded, ThreadIsDone, TypeOK, Handshake, InOrder, OneFile, OnFile, PathsFirst, Outcomes, Finished, CompleteIsComplete, Entry, Slot
<1>9. CASE NewList
  BY <1>9 DEF NewList, Listed, TypeOK, Handshake, InOrder, OneFile, OnFile, PathsFirst, Outcomes, Finished, CompleteIsComplete, Entry, Slot
<1>10. CASE Halted
  BY <1>10 DEF Halted, TypeOK, Handshake, InOrder, OneFile, OnFile, PathsFirst, Outcomes, Finished, CompleteIsComplete, Entry, Slot
<1>11. CASE Quit
  BY <1>11 DEF Quit, TypeOK, Handshake, InOrder, OneFile, OnFile, PathsFirst, Outcomes, Finished, CompleteIsComplete, Entry, Slot
<1>12. CASE Top
  BY <1>12 DEF Top, At, MoreToDo, parent, TypeOK, Handshake, InOrder, OneFile, OnFile, PathsFirst, Outcomes, Finished, CompleteIsComplete, Entry, Slot
<1>13. CASE Attributes
  BY <1>13 DEF Attributes, At, parent, TypeOK, Handshake, InOrder, OneFile, OnFile, PathsFirst, Outcomes, Finished, CompleteIsComplete, Entry, Slot
<1>14. CASE Size
  BY <1>14 DEF Size, At, parent, TypeOK, Handshake, InOrder, OneFile, OnFile, PathsFirst, Outcomes, Finished, CompleteIsComplete, Entry, Slot
<1>15. CASE Progress
  BY <1>15 DEF Progress, At, Post, parent, TypeOK, Handshake, InOrder, OneFile, OnFile, PathsFirst, Outcomes, Finished, CompleteIsComplete, Entry, Slot
<1>16. CASE Seek
  BY <1>16 DEF Seek, At, parent, TypeOK, Handshake, InOrder, OneFile, OnFile, PathsFirst, Outcomes, Finished, CompleteIsComplete, Entry, Slot
<1>17. CASE Hashed
  BY <1>17 DEF Hashed, At, Post, parent, TypeOK, Handshake, InOrder, OneFile, OnFile, PathsFirst, Outcomes, Finished, CompleteIsComplete, Entry, Slot
<1>18. CASE Valid
  BY <1>18 DEF Valid, At, parent, TypeOK, Handshake, InOrder, OneFile, OnFile, PathsFirst, Outcomes, Finished, CompleteIsComplete, Entry, Slot
<1>19. CASE Close
  <2>1. fidx \in Slot
    BY <1>19 DEF Close, At, OneFile, OnFile
  <2>2. \A i \in Slot : /\ i # fidx => info'[i] = info[i]
                       /\ info'[i].fpath = info[i].fpath
                       /\ info'[i].is_directory = info[i].is_directory
                       /\ info'[i].file_size_valid = info[i].file_size_valid
                       /\ info'[i].sha512_valid = info[i].sha512_valid
    BY <1>19, <2>1 DEF Close, At, TypeOK, Entry
  <2>3. info'[fidx].sha512 \in {info[fidx].sha512, "error"}
    BY <1>19, <2>1 DEF Close, At, TypeOK, Entry
  <2>4. QED
    BY ZenonT(60), <1>19, <2>1, <2>2, <2>3 DEF Close, At, parent, Handshake, InOrder, OneFile, OnFile, PathsFirst, Outcomes, Finished, CompleteIsComplete, Slot, TypeOK
<1>20. CASE Outcome
  BY <1>20 DEF Outcome, At, parent, TypeOK, Handshake, InOrder, OneFile, OnFile, PathsFirst, Outcomes, Finished, CompleteIsComplete, Entry, Slot
<1>21. CASE Ending
  BY <1>21 DEF Ending, At, Post, parent, TypeOK, Handshake, InOrder, OneFile, OnFile, PathsFirst, Outcomes, Finished, CompleteIsComplete, Entry, Slot
<1>22. CASE Read
  <2>1. fidx \in Slot
    BY <1>22 DEF Read, At, OneFile, OnFile
  <2>2. \A i \in Slot : /\ i # fidx => info'[i] = info[i]
                       /\ info'[i].fpath = info[i].fpath
                       /\ info'[i].is_directory = info[i].is_directory
                       /\ info'[i].file_size_valid = info[i].file_size_valid
                       /\ info'[i].sha512_valid = info[i].sha512_valid
    BY <1>22, <2>1 DEF Read, At, TypeOK, Entry
  <2>3. info'[fidx].sha512 \in {"hash", "error"}
    BY <1>22, <2>1 DEF Read, At, TypeOK, Entry
  <2>4. QED
    BY <1>22, <2>1, <2>2, <2>3 DEF Read, At, parent, Handshake, InOrder, OneFile, OnFile, PathsFirst, Outcomes, Finished, CompleteIsComplete, Slot, TypeOK
<1>23. CASE ReadAborted
  <2>1. fidx \in Slot
    BY <1>23 DEF ReadAborted, At, OneFile, OnFile
  <2>2. \A i \in Slot : /\ i # fidx => info'[i] = info[i]
                       /\ info'[i].fpath = info[i].fpath
                       /\ info'[i].is_directory = info[i].is_directory
                       /\ info'[i].file_size_valid = info[i].file_size_valid
                       /\ info'[i].sha512_valid = info[i].sha512_valid
    BY <1>23, <2>1 DEF ReadAborted, At, TypeOK, Entry
  <2>3. info'[fidx].sha512 = "aborted" /\ abort
    BY <1>23, <2>1 DEF ReadAborted, At, TypeOK, Entry, AbortSeen
  <2>4. QED
    BY <1>23, <2>1, <2>2, <2>3 DEF ReadAborted, At, parent, Handshake, InOrder, OneFile, OnFile, PathsFirst, Outcomes, Finished, CompleteIsComplete, Slot, TypeOK
<1>24. CASE UNCHANGED vars
  BY <1>24 DEF vars, TypeOK, Handshake, InOrder, OneFile, OnFile, PathsFirst, Outcomes, Finished, CompleteIsComplete, Entry, Slot
<1>25. QED
  BY <1>1, <1>2, <1>3, <1>4, <1>5, <1>6, <1>7, <1>8, <1>9, <1>10, <1>11, <1>12, <1>13, <1>14, <1>15, <1>16, <1>17, <1>18, <1>19, <1>20, <1>21, <1>22, <1>23, <1>24 DEF Next, Handle, Work

\* What is on the screen.
LEMMA PendingStep ==
  ASSUME TypeOK, Handshake, InOrder, OneFile, PathsFirst, Outcomes, Pending, RowsLeft, [Next]_vars
  PROVE  Pending' /\ RowsLeft'
<1> USE DEF shared, window, thread
<1>1. CASE Drop
  BY <1>1 DEF Drop, Command, TypeOK, Handshake, InOrder, OneFile, OnFile, PathsFirst, Outcomes, Finished, Pending, RowsLeft, Result, Line, Entry, Slot
<1>2. CASE Open
  BY <1>2 DEF Open, Command, TypeOK, Handshake, InOrder, OneFile, OnFile, PathsFirst, Outcomes, Finished, Pending, RowsLeft, Result, Line, Entry, Slot
<1>3. CASE Halt
  BY <1>3 DEF Halt, Command, TypeOK, Handshake, InOrder, OneFile, OnFile, PathsFirst, Outcomes, Finished, Pending, RowsLeft, Result, Line, Entry, Slot
<1>4. CASE Destroy
  BY <1>4 DEF Destroy, Command, TypeOK, Handshake, InOrder, OneFile, OnFile, PathsFirst, Outcomes, Finished, Pending, RowsLeft, Result, Line, Entry, Slot
<1>5. CASE Dispatch
  BY <1>5 DEF Dispatch, TypeOK, Handshake, InOrder, OneFile, OnFile, PathsFirst, Outcomes, Finished, Pending, RowsLeft, Result, Line, Entry, Slot
<1>6. CASE StageRow
  <2>1. row \in Slot
    BY <1>6 DEF StageRow, RowLines
  <2>2. \A i \in Slot : staged'[i] = IF i = row THEN Line(info[i]) ELSE staged[i]
    BY <1>6, <2>1 DEF StageRow, RowLines, TypeOK
  <2>3. RowsLeft'
    BY <1>6, <2>1, <2>2 DEF StageRow, RowsLeft, Slot
  <2>4. Pending'
    BY <1>6, <2>1, <2>2 DEF StageRow, Pending, Result, Slot
  <2>5. QED
    BY <2>3, <2>4
<1>7. CASE Show
  <2>1. RowsLeft'
    BY <1>7 DEF Show, RowsLeft, NoLines, Slot
  <2>2. ASSUME ending # "none", \A i \in Slot : i < row => staged[i] = Line(info[i])
        PROVE  shown'.lines = [i \in Slot |-> Line(info[i])]
    <3>1. \A i \in Slot : i >= row => Line(info[i]) = {}
      <4> SUFFICES ASSUME NEW i \in Slot, i >= row, Line(info[i]) # {} PROVE FALSE
        OBVIOUS
      <4>1. row \in Slot /\ Line(info[row]) = {}
        BY <1>7 DEF Show, RowLines, TypeOK, Slot
      <4>2. info[i].fpath /\ info[i].is_directory # "none"
        BY DEF Line
      <4>3. info[row].fpath /\ row < i /\ i <= fidx
        BY <4>1, <4>2, <2>2 DEF PathsFirst, InOrder, TypeOK, Slot
      <4>4. info[row].is_directory # "none"
        BY <4>1, <4>3, <2>2 DEF InOrder, Finished, TypeOK, Slot
      <4>5. QED
        BY <4>1, <4>3, <4>4 DEF Line
    <3>2. \A i \in Slot : staged[i] = Line(info[i])
      <4> TAKE i \in Slot
      <4>1. CASE i < row
        BY <2>2, <4>1
      <4>2. CASE i >= row
        BY <3>1, <4>2 DEF RowsLeft
      <4>3. QED
        BY <4>1, <4>2 DEF TypeOK, Slot
    <3>3. QED
      BY <1>7, <3>2 DEF Show, TypeOK
  <2>3. Pending'
    BY <1>7, <2>2 DEF Show, Pending, Result
  <2>4. QED
    BY <2>1, <2>3
<1>8. CASE Stopped
  BY ZenonT(60), <1>8 DEF Stopped, ThreadEnded, ThreadIsDone, TypeOK, Handshake, InOrder, OneFile, OnFile, PathsFirst, Outcomes, Finished, Pending, RowsLeft, Result, Line, Entry, Slot
<1>9. CASE NewList
  BY <1>9 DEF NewList, Listed, TypeOK, Handshake, InOrder, OneFile, OnFile, PathsFirst, Outcomes, Finished, Pending, RowsLeft, Result, Line, Entry, Slot
<1>10. CASE Halted
  BY <1>10 DEF Halted, TypeOK, Handshake, InOrder, OneFile, OnFile, PathsFirst, Outcomes, Finished, Pending, RowsLeft, Result, Line, Entry, Slot
<1>11. CASE Quit
  BY <1>11 DEF Quit, TypeOK, Handshake, InOrder, OneFile, OnFile, PathsFirst, Outcomes, Finished, Pending, RowsLeft, Result, Line, Entry, Slot
<1>12. CASE Top
  BY <1>12 DEF Top, At, MoreToDo, parent, TypeOK, Handshake, InOrder, OneFile, OnFile, PathsFirst, Outcomes, Finished, Pending, RowsLeft, Result, Line, Entry, Slot
<1>13. CASE Attributes
  BY <1>13 DEF Attributes, At, parent, TypeOK, Handshake, InOrder, OneFile, OnFile, PathsFirst, Outcomes, Finished, Pending, RowsLeft, Result, Line, Entry, Slot
<1>14. CASE Size
  BY <1>14 DEF Size, At, parent, TypeOK, Handshake, InOrder, OneFile, OnFile, PathsFirst, Outcomes, Finished, Pending, RowsLeft, Result, Line, Entry, Slot
<1>15. CASE Progress
  BY <1>15 DEF Progress, At, Post, parent, TypeOK, Handshake, InOrder, OneFile, OnFile, PathsFirst, Outcomes, Finished, Pending, RowsLeft, Result, Line, Entry, Slot
<1>16. CASE Seek
  BY <1>16 DEF Seek, At, parent, TypeOK, Handshake, InOrder, OneFile, OnFile, PathsFirst, Outcomes, Finished, Pending, RowsLeft, Result, Line, Entry, Slot
<1>17. CASE Hashed
  BY <1>17 DEF Hashed, At, Post, parent, TypeOK, Handshake, InOrder, OneFile, OnFile, PathsFirst, Outcomes, Finished, Pending, RowsLeft, Result, Line, Entry, Slot
<1>18. CASE Valid
  BY <1>18 DEF Valid, At, parent, TypeOK, Handshake, InOrder, OneFile, OnFile, PathsFirst, Outcomes, Finished, Pending, RowsLeft, Result, Line, Entry, Slot
<1>19. CASE Close
  BY <1>19 DEF Close, At, parent, TypeOK, Handshake, InOrder, OneFile, OnFile, PathsFirst, Outcomes, Finished, Pending, RowsLeft, Result, Line, Entry, Slot
<1>20. CASE Outcome
  BY <1>20 DEF Outcome, At, parent, TypeOK, Handshake, InOrder, OneFile, OnFile, PathsFirst, Outcomes, Finished, Pending, RowsLeft, Result, Line, Entry, Slot
<1>21. CASE Ending
  <2>1. queue'[Len(queue')] = "ENDING" /\ Len(queue') \in 1..Len(queue')
    BY <1>21 DEF Ending, Post, TypeOK
  <2>2. Pending'
    BY <2>1 DEF Pending
  <2>3. RowsLeft'
    BY <1>21 DEF Ending, parent, RowsLeft
  <2>4. QED
    BY <2>2, <2>3
<1>22. CASE Read
  BY <1>22 DEF Read, At, parent, TypeOK, Handshake, InOrder, OneFile, OnFile, PathsFirst, Outcomes, Finished, Pending, RowsLeft, Result, Line, Entry, Slot
<1>23. CASE ReadAborted
  BY <1>23 DEF ReadAborted, At, AbortSeen, parent, TypeOK, Handshake, InOrder, OneFile, OnFile, PathsFirst, Outcomes, Finished, Pending, RowsLeft, Result, Line, Entry, Slot
<1>24. CASE UNCHANGED vars
  BY <1>24 DEF vars, TypeOK, Handshake, InOrder, OneFile, OnFile, PathsFirst, Outcomes, Finished, Pending, RowsLeft, Result, Line, Entry, Slot
<1>25. QED
  BY <1>1, <1>2, <1>3, <1>4, <1>5, <1>6, <1>7, <1>8, <1>9, <1>10, <1>11, <1>12, <1>13, <1>14, <1>15, <1>16, <1>17, <1>18, <1>19, <1>20, <1>21, <1>22, <1>23, <1>24 DEF Next, Handle, Work

\* Every step preserves the invariant.
LEMMA StepInv ==
  ASSUME FileHashInv, [Next]_vars
  PROVE  FileHashInv'
<1>1. TypeOK' /\ Handshake' /\ HaltMeansActive' /\ InOrder' /\ OneFile' /\ PathsFirst'
  BY TypeStep, HandshakeStep, OrderStep DEF FileHashInv
<1>2. Outcomes' /\ CompleteIsComplete' /\ Pending' /\ RowsLeft'
  BY OutcomeStep, PendingStep DEF FileHashInv
<1>3. ChildrenApart'
  BY <1>1 DEF Handshake, ChildrenApart
<1>4. QuietMeansShown'
  BY <1>2 DEF Pending, QuietMeansShown
<1>5. QED
  BY <1>1, <1>2, <1>3, <1>4 DEF FileHashInv

\* The inductive invariant: FileHash keeps the list, its child and the display in step.
THEOREM FileHashInvHolds == Spec => []FileHashInv
<1>1. FileHashInv /\ [Next]_vars => FileHashInv'
  BY StepInv
<1>2. QED
  BY InitInv, <1>1, PTL DEF Spec

\* The main thread touches the list, and starts a child, only when no child runs.
THEOREM ChildrenStayApart == Spec => []ChildrenApart
  BY FileHashInvHolds, PTL DEF FileHashInv

\* "COMPLETE" is said only of lists every file of which has been dealt with.
THEOREM CompleteIsHonest == Spec => []CompleteIsComplete
  BY FileHashInvHolds, PTL DEF FileHashInv

\* The menu item to halt the operation is enabled only while there is one.
THEOREM HaltHasAChild == Spec => []HaltMeansActive
  BY FileHashInvHolds, PTL DEF FileHashInv

\* When all is quiet the edit control shows the final results.
THEOREM ResultsAreShown == Spec => []QuietMeansShown
  BY FileHashInvHolds, PTL DEF FileHashInv

\* A list nobody asked to stop is never reported as aborted.
THEOREM NoAbortUnasked == Spec => AbortedOnRequest
<1>1. FileHashInv /\ [Next]_vars
        => (ending' = "aborted" /\ ending # "aborted" => ui = "wait")
  <2> SUFFICES ASSUME FileHashInv, [Next]_vars, ending' = "aborted", ending # "aborted"
               PROVE  ui = "wait"
    OBVIOUS
  <2>1. abort => ui = "wait"
    BY DEF FileHashInv, Handshake
  <2>2. CASE Outcome
    BY <2>1, <2>2 DEF Outcome
  <2>3. CASE UNCHANGED vars
    BY <2>3 DEF vars, shared
  <2>4. QED
    BY <2>2, <2>3 DEF Next, Handle, Work, Drop, Open, Halt, Destroy, Command, Dispatch,
                      StageRow, Show, Stopped, ThreadIsDone, NewList, Halted, Quit, Top,
                      Attributes, Size, Progress, Seek, Hashed, Valid, Close, Ending, Read,
                      ReadAborted, shared
<1>2. QED
  BY FileHashInvHolds, <1>1, PTL DEF Spec, AbortedOnRequest
=============================================================================
