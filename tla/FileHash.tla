------------------------------ MODULE FileHash -------------------------------
(***************************************************************************)
(* FileHash (filehash.c), a Windows program that computes the SHA-512 of   *)
(* the files dropped on its window.  The main thread runs the window: it   *)
(* takes the user's commands and the messages posted to it, and copies     *)
(* what is known of the files to the edit control.  One child thread at a  *)
(* time reads the files.  The threads share FILEHASH_file_info, the abort  *)
(* request and Windows' queue of posted messages, and no lock.             *)
(*                                                                         *)
(* A line of the display is read from its file's fields in one step; other *)
(* steps of both threads interleave.                                       *)
(***************************************************************************)
EXTENDS Naturals, Sequences

CONSTANTS
  MaxFiles,    \* FILEHASH_MAXFILES
  QueueLimit,  \* Windows: how many posted messages a queue holds
  MaxCommands  \* bound: commands the user gives

ASSUME FileHashAssumption ==
  /\ MaxFiles \in Nat \ {0}
  /\ QueueLimit \in Nat
  /\ MaxCommands \in Nat

VARIABLES
  info,      \* FILEHASH_file_info.file_info
  ending,    \* FILEHASH_file_info.terminated_normally and .aborted
  abort,     \* FILEHASH_thread_abort_request
  active,    \* FILEHASH_child_thread_is_active
  halt,      \* the menu item "Halt file signature operation" is enabled
  queue,     \* the messages posted to the main window
  ui,        \* where the main thread is
  task,      \* the command or message it is working on
  chosen,    \* how many files the user dropped or picked
  row,       \* FILEHASH_StageDisplayBuffer: the file it has come to
  staged,    \* FILEHASH_dispbuf
  shown,     \* the text in the edit control
  child,     \* where the child thread is, "ended" when none runs
  fidx,      \* its fidx
  opened,    \* its hFile is valid
  commands   \* what is left of MaxCommands

shared == <<info, ending, abort>>
window == <<ui, task, chosen, row, staged, shown>>
thread == <<child, fidx, opened>>
vars == <<shared, active, halt, queue, window, thread, commands>>

Slot == 1..MaxFiles

\* What is known of a file: a field that is not yet valid is "none".
Entry == [fpath : BOOLEAN,
          is_directory : {"none", "file", "unfit"},
          file_size_valid : BOOLEAN,
          sha512 : {"none", "hash", "error", "aborted"},
          sha512_valid : BOOLEAN]

\* FILEHASH_file_info zeroed and the paths of the first n files copied into it.
Listed(n) ==
  [i \in Slot |-> [fpath |-> i <= n, is_directory |-> "none",
                   file_size_valid |-> FALSE, sha512 |-> "none", sha512_valid |-> FALSE]]

\* The lines printed for a file, {} when there are none.
Line(e) ==
  IF e.fpath /\ e.is_directory # "none"
  THEN {[is_directory |-> e.is_directory,
         file_size |-> e.is_directory = "file" /\ e.file_size_valid,
         sha512 |-> IF e.is_directory = "file" /\ e.sha512_valid
                    THEN e.sha512 ELSE "none"]}
  ELSE {}

\* The lines of a file, and those of none.
Printout == [is_directory : {"file", "unfit"}, file_size : BOOLEAN,
          sha512 : {"none", "hash", "error", "aborted"}]

NoLines == [i \in Slot |-> {}]

Init ==
  /\ info = Listed(0)
  /\ ending = "none"
  /\ abort = FALSE
  /\ active = FALSE
  /\ halt = FALSE
  /\ queue = <<>>
  /\ ui = "loop"
  /\ task = "none"
  /\ chosen = 0
  /\ row = 1
  /\ staged = NoLines
  /\ shown = [lines |-> NoLines, ending |-> "usage"]
  /\ child = "ended"
  /\ fidx = 1
  /\ opened = FALSE
  /\ commands = MaxCommands
-----------------------------------------------------------------------------
(***************************************************************************)
(* The main thread.                                                        *)
(***************************************************************************)
\* WndProc: a message of the child, whichever child posted it.
Dispatch ==
  /\ ui = "loop"
  /\ queue # <<>>
  /\ queue' = Tail(queue)
  /\ task' = Head(queue)
  /\ ui' = "stage"
  /\ UNCHANGED <<shared, active, halt, chosen, row, staged, shown, thread, commands>>

RowLines == IF row \in Slot THEN Line(info[row]) ELSE {}

\* FILEHASH_StageDisplayBuffer: the lines of one file.
StageRow ==
  /\ ui = "stage"
  /\ RowLines # {}
  /\ staged' = [staged EXCEPT ![row] = RowLines]
  /\ row' = row + 1
  /\ UNCHANGED <<shared, active, halt, queue, ui, task, chosen, shown, thread, commands>>

\* Its end, at the first file nothing is known of or after the last one, and
\* FILEHASH_UpdateEditControl; the handler of ENDING then grays the menu item.
\* (The buffer is filled from its start the next time.)
Show ==
  /\ ui = "stage"
  /\ RowLines = {}
  /\ shown' = [lines |-> staged, ending |-> ending]
  /\ halt' = (halt /\ task # "ENDING")
  /\ ui' = "loop"
  /\ task' = "none"
  /\ row' = 1
  /\ staged' = NoLines
  /\ UNCHANGED <<shared, active, queue, chosen, thread, commands>>

\* FILEHASH_ChildThreadHardSyncStop, the first step of every command: ask the
\* child to stop, if there may be one.
Command(c, n) ==
  /\ ui = "loop"
  /\ commands > 0
  /\ c = "halt" => halt
  /\ commands' = commands - 1
  /\ task' = c
  /\ chosen' = n
  /\ abort' = (abort \/ active)
  /\ ui' = IF active THEN "wait" ELSE "go"
  /\ UNCHANGED <<info, ending, active, halt, queue, row, staged, shown, thread>>

Drop == \E n \in Slot : Command("drop", n)    \* WM_DROPFILES
Open == \E n \in Slot : Command("open", n)    \* ID_FILE_OPEN_FOR_SIG
Halt == Command("halt", 0)                    \* ID_ACTIONS_HALTSIGOP
Destroy == Command("destroy", 0)              \* WM_DESTROY

\* Mutant: a WaitForSingleObject that gives up.
WaitTimesOut == TRUE
ThreadEnded == child = "ended"

\* Mutants: the abort request stays set; the menu item stays enabled.
RequestStays == active' = FALSE /\ halt' = FALSE /\ UNCHANGED abort
ItemStays == active' = FALSE /\ abort' = FALSE /\ UNCHANGED halt
ThreadIsDone == active' = FALSE /\ abort' = FALSE /\ halt' = FALSE

\* WaitForSingleObject returns, and the rest of FILEHASH_ChildThreadHardSyncStop.
Stopped ==
  /\ ui = "wait"
  /\ ThreadEnded
  /\ ThreadIsDone
  /\ ui' = "go"
  /\ UNCHANGED <<info, ending, queue, task, chosen, row, staged, shown, thread, commands>>

\* The rest of WM_DROPFILES and ID_FILE_OPEN_FOR_SIG: the new list, and
\* FILEHASH_ChildThreadStart, which may fail (the release build goes on).
NewList ==
  /\ ui = "go"
  /\ task \in {"drop", "open"}
  /\ info' = Listed(chosen)
  /\ ending' = "none"
  /\ \/ /\ child' = "top"
        /\ fidx' = 1
        /\ opened' = FALSE
        /\ active' = TRUE
        /\ halt' = TRUE
     \/ UNCHANGED <<thread, active, halt>>
  /\ ui' = IF task = "open" THEN "stage" ELSE "loop"
  /\ task' = "none"
  /\ chosen' = 0
  /\ UNCHANGED <<abort, queue, row, staged, shown, commands>>

\* The rest of ID_ACTIONS_HALTSIGOP.
Halted ==
  /\ ui = "go"
  /\ task = "halt"
  /\ ui' = "stage"
  /\ UNCHANGED <<shared, active, halt, queue, task, chosen, row, staged, shown, thread, commands>>

\* The rest of WM_DESTROY: the message loop ends, and with it the program.
Quit ==
  /\ ui = "go"
  /\ task = "destroy"
  /\ ui' = "quit"
  /\ UNCHANGED <<shared, active, halt, queue, task, chosen, row, staged, shown, thread, commands>>
-----------------------------------------------------------------------------
(***************************************************************************)
(* The child thread, FILEHASH_ChildThreadFunc.                             *)
(***************************************************************************)
parent == <<active, halt, window, commands>>

At(here, there) ==
  /\ child = here
  /\ child' = there

\* PostMessage succeeds; when it fails, the child sleeps and tries again.
Post(msg) ==
  /\ Len(queue) < QueueLimit
  /\ queue' = Append(queue, msg)

\* Mutant: the loop does not look at the abort request.
AnyFileLeft == fidx \in Slot /\ info[fidx].fpath
MoreToDo == fidx \in Slot /\ info[fidx].fpath /\ ~abort

\* The head of the loop.
Top ==
  /\ At("top", IF MoreToDo THEN "attributes" ELSE "outcome")
  /\ opened' = FALSE
  /\ UNCHANGED <<shared, queue, parent, fidx>>

\* GetFileAttributes: a file, or something that cannot be hashed.
Attributes ==
  /\ At("attributes", "size")
  /\ \E kind \in {"file", "unfit"} : info' = [info EXCEPT ![fidx].is_directory = kind]
  /\ UNCHANGED <<ending, abort, queue, parent, fidx, opened>>

\* CreateFile, which may fail, and GetFileSize, after which a size is shown anyhow.
Size ==
  /\ At("size", "progress")
  /\ \/ info[fidx].is_directory = "file" /\ opened' = TRUE
     \/ UNCHANGED opened
  /\ info' = [info EXCEPT ![fidx].file_size_valid = TRUE]
  /\ UNCHANGED <<ending, abort, queue, parent, fidx>>

\* The first report of progress: posted, or given up because of the abort request.
Progress ==
  /\ At("progress", "seek")
  /\ \/ Post("PROGRESS")
     \/ abort /\ UNCHANGED queue
  /\ UNCHANGED <<shared, parent, fidx, opened>>

\* The handle is looked at, and the file rewound.
Seek ==
  /\ \/ /\ At("seek", "read")
        /\ opened
        /\ UNCHANGED info
     \/ /\ At("seek", "valid")
        /\ info' = [info EXCEPT ![fidx].sha512 = "error"]
  /\ UNCHANGED <<ending, abort, queue, parent, fidx, opened>>

\* Mutant: the read loop does not look at the abort request.
ReadsOn == FALSE
AbortSeen == abort

\* A ReadFile that ends the loop: with an error, or at the end of the file.  One that
\* brings data, with no abort requested, changes nothing here.
Read ==
  /\ \/ /\ At("read", "valid")
        /\ info' = [info EXCEPT ![fidx].sha512 = "error"]
     \/ /\ At("read", "hashed")
        /\ info' = [info EXCEPT ![fidx].sha512 = "hash"]
  /\ UNCHANGED <<ending, abort, queue, parent, fidx, opened>>

\* One that brings data when an abort is requested.
ReadAborted ==
  /\ At("read", "valid")
  /\ AbortSeen
  /\ info' = [info EXCEPT ![fidx].sha512 = "aborted"]
  /\ UNCHANGED <<ending, abort, queue, parent, fidx, opened>>

\* The second report of progress, of a hash that is not yet flagged as valid.
Hashed ==
  /\ At("hashed", "valid")
  /\ Post("PROGRESS")
  /\ UNCHANGED <<shared, parent, fidx, opened>>

Valid ==
  /\ At("valid", IF opened THEN "close" ELSE "top")
  /\ info' = [info EXCEPT ![fidx].sha512_valid = TRUE]
  /\ fidx' = IF opened THEN fidx ELSE fidx + 1
  /\ UNCHANGED <<ending, abort, queue, parent, opened>>

\* CloseHandle, whose failure replaces the hash.
Close ==
  /\ At("close", "top")
  /\ \/ UNCHANGED info
     \/ info' = [info EXCEPT ![fidx].sha512 = "error"]
  /\ fidx' = fidx + 1
  /\ UNCHANGED <<ending, abort, queue, parent, opened>>

\* After the loop.
Outcome ==
  /\ At("outcome", "ending")
  /\ ending' = IF abort THEN "aborted" ELSE "complete"
  /\ UNCHANGED <<info, abort, queue, parent, fidx, opened>>

\* Mutant: the child returns without a message.
EndsSilently == At("ending", "ended") /\ UNCHANGED <<shared, queue, parent, fidx, opened>>
Ending ==
  /\ At("ending", "ended")
  /\ Post("ENDING")
  /\ UNCHANGED <<shared, parent, fidx, opened>>
-----------------------------------------------------------------------------
Work ==
  \/ Top \/ Attributes \/ Size \/ Progress \/ Seek \/ Hashed \/ Valid \/ Close
  \/ Outcome \/ Ending

Handle == Dispatch \/ StageRow \/ Show \/ Stopped \/ NewList \/ Halted \/ Quit

Next ==
  \/ Drop \/ Open \/ Halt \/ Destroy
  \/ Handle
  \/ Work \/ Read \/ ReadAborted

Spec == Init /\ [][Next]_vars

\* Both threads are scheduled, and ReadFile returns.  That a file ever ends is not
\* assumed (another program may be writing it): a child that goes on reading gets data.
FairSpec ==
  /\ Spec
  /\ WF_vars(Handle)
  /\ WF_vars(Work)
  /\ WF_vars(ReadAborted)
-----------------------------------------------------------------------------
TypeOK ==
  /\ info \in [Slot -> Entry]
  /\ ending \in {"none", "complete", "aborted"}
  /\ abort \in BOOLEAN
  /\ active \in BOOLEAN
  /\ halt \in BOOLEAN
  /\ queue \in Seq({"PROGRESS", "ENDING"})
  /\ ui \in {"loop", "wait", "go", "stage", "quit"}
  /\ task \in {"none", "drop", "open", "halt", "destroy", "PROGRESS", "ENDING"}
  /\ chosen \in 0..MaxFiles
  /\ row \in 1..(MaxFiles + 1)
  /\ staged \in [Slot -> SUBSET Printout]
  /\ shown \in [lines : [Slot -> SUBSET Printout],
                ending : {"usage", "none", "complete", "aborted"}]
  /\ child \in {"top", "attributes", "size", "progress", "seek", "read", "hashed",
                "valid", "close", "outcome", "ending", "ended"}
  /\ fidx \in 1..(MaxFiles + 1)
  /\ opened \in BOOLEAN
  /\ commands \in 0..MaxCommands

\* The main thread zeroes and fills the list of files, and starts a child, only
\* when no child runs ("Do a hard sync stop on the child thread", filehash.c:918).
ChildrenApart == ui = "go" => child = "ended"

\* "FILE SIGNATURE COMPLETE" is said of lists in which every file has been dealt
\* with, none of them cut short by an abort request.
CompleteIsComplete ==
  ending = "complete" =>
    \A i \in Slot : info[i].fpath =>
      /\ info[i].is_directory # "none"
      /\ info[i].file_size_valid
      /\ info[i].sha512_valid
      /\ info[i].sha512 \in {"hash", "error"}

\* A list is given up only while the main thread waits for it to be: no request
\* outlives the child it was meant for.
AbortedOnRequest ==
  [][ending' = "aborted" /\ ending # "aborted" => ui = "wait"]_vars

\* What a reader of the final FILEHASH_file_info would print.
Result == [lines |-> [i \in Slot |-> Line(info[i])], ending |-> ending]

\* Once a child has ended and its messages are handled, the edit control shows all
\* it found out, though its last report of progress comes before the last hash is
\* flagged as valid and the list may have been copied while it changed.
QuietMeansShown ==
  child = "ended" /\ ending # "none" /\ queue = <<>> /\ ui = "loop" => shown = Result

\* And the time comes, without any event from outside: the results appear unless the
\* user gives another command.
ResultsAppear ==
  child = "ended" /\ ending # "none" ~> shown = Result \/ ui \in {"wait", "go", "quit"}

\* The menu item to halt the operation is never enabled without one to halt.
HaltMeansActive == halt => active

\* How many messages the child still posts once it is asked to stop.
Owed ==
  CASE child \in {"attributes", "size", "progress"} -> 3
    [] child \in {"seek", "read", "hashed"} -> 2
    [] child = "ended" -> 0
    [] OTHER -> 1

\* The main thread never waits for ever for its child, however long the file it
\* reads, provided that the queue, which nobody empties meanwhile, has room for the
\* child's last messages: the loop that posts ENDING has no other way out.
StopServed ==
  ui = "wait" /\ Len(queue) + Owed <= QueueLimit ~> ui # "wait"

-----------------------------------------------------------------------------
\* Strengthening of the invariants that every step preserves.

\* What the main thread knows of the child from its own variables.
Handshake ==
  /\ active \/ child = "ended"
  /\ abort => ui = "wait"
  /\ ui = "wait" => active
  /\ ui = "go" => ~active
  /\ ui # "stage" => row = 1

\* The child deals with the files of the list in order.
OnFile == {"attributes", "size", "progress", "seek", "read", "hashed", "valid", "close"}

Finished(i) ==
  /\ info[i].is_directory # "none"
  /\ info[i].file_size_valid
  /\ info[i].sha512_valid
  /\ info[i].sha512 # "none"

InOrder ==
  child # "ended" \/ ending # "none" =>
    /\ \A i \in Slot : i > fidx => info[i].is_directory = "none"
    /\ \A i \in Slot : i < fidx /\ info[i].fpath => Finished(i)

\* How far the child is with the file it has come to.
OneFile ==
  /\ child \in OnFile => fidx \in Slot /\ info[fidx].fpath
  /\ child \in OnFile \ {"attributes"} => info[fidx].is_directory # "none"
  /\ child \in OnFile \ {"attributes", "size"} => info[fidx].file_size_valid
  /\ child \in {"hashed", "valid", "close"} => info[fidx].sha512 # "none"
  /\ child = "close" => info[fidx].sha512_valid
  /\ child = "top" /\ fidx \in Slot => info[fidx].is_directory = "none"

PathsFirst == \A i, j \in Slot : i < j /\ info[j].fpath => info[i].fpath

\* The child leaves its loop when nothing is left, or on request.
Outcomes ==
  /\ ending # "none" => child \in {"ending", "ended"}
  /\ child = "ending" => ending # "none"
  /\ child = "outcome" => \/ abort
                          \/ \A i \in Slot : info[i].fpath => i < fidx
  /\ \A i \in Slot : info[i].sha512 = "aborted" =>
       \/ ending = "aborted"
       \/ abort /\ child \notin {"ending", "ended"}

\* The results of an ended child are on the screen or on their way to it.
Pending ==
  ending # "none" =>
    \/ child = "ending"
    \/ \E j \in 1..Len(queue) : queue[j] = "ENDING"
    \/ ui # "stage" /\ shown = Result
    \/ ui = "stage" /\ \A i \in Slot : i < row => staged[i] = Line(info[i])

RowsLeft == \A i \in Slot : i >= row => staged[i] = {}

FileHashInv ==
  /\ TypeOK
  /\ ChildrenApart
  /\ CompleteIsComplete
  /\ QuietMeansShown
  /\ HaltMeansActive
  /\ Handshake
  /\ InOrder
  /\ OneFile
  /\ PathsFirst
  /\ Outcomes
  /\ Pending
  /\ RowsLeft
=============================================================================
