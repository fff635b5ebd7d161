------------------------------ MODULE Download ------------------------------
(***************************************************************************)
(* filesystem(op="read"): Download of internal/truenas/download.go starts  *)
(* a job on the target that streams the file, reads its output over HTTP   *)
(* up to a limit and looks at how the job ended; readFile of               *)
(* internal/server/read_file.go decides whether that is text. The job may  *)
(* fail at any point, and the response is a success all the same.          *)
(*                                                                         *)
(* A file is its length, where its first NUL is, if it has one, whether it *)
(* is UTF-8 as a whole, and how many bytes have to go from the end of what *)
(* is read of it, if that is not all, for the rest to be UTF-8: the start  *)
(* of a character or bytes that belong to none, UTFMax for that many or    *)
(* more.                                                                   *)
(***************************************************************************)
EXTENDS Naturals

CONSTANTS fileByteLimit, \* 64 KiB in the code
          UTFMax,        \* 4: the longest character, in bytes
          MaxSize        \* bound on the size of a file

ASSUME DownloadAssumption == 
  UTFMax \in Nat \ {0} /\ fileByteLimit \in Nat /\ UTFMax <= fileByteLimit /\ MaxSize \in Nat

VARIABLES
  reading, \* where the call is
  file,    \* the file on the target
  wrote,   \* how much of it the job put into the pipe before it closed it
  dlJob,   \* the state of the job
  doubted, \* the wait ended before the job was seen to end
  content  \* what the caller is told

fileVars == <<reading, file, wrote, dlJob, doubted, content>>

File == [size : 0..MaxSize, nul : 0..MaxSize, whole : BOOLEAN, tail : 0..UTFMax]
NoFile == [size |-> 0, nul |-> 0, whole |-> TRUE, tail |-> 0]

\* A NUL is inside, nothing is no invalid character, and a cut takes less than
\* a character from a file that is UTF-8.
Possible(f) == f.nul <= f.size /\ (f.size = 0 => f.whole) /\ (f.whole => f.tail < UTFMax)
NoContent == [is |-> "nothing", len |-> 0, truncated |-> FALSE]

FileInit ==
  /\ reading = "idle"
  /\ file = NoFile
  /\ wrote = 0
  /\ dlJob = "RUNNING"
  /\ doubted = FALSE
  /\ content = NoContent

-----------------------------------------------------------------------------
Given(c) == content' = c /\ reading' = "answered"
Fails == Given([NoContent EXCEPT !.is = "error"])

\* The bytes to take from the end of the first len of f for UTF-8 to be left:
\* of a whole file only whether there are any is told apart.
dangling(f, len) ==
  LET d == IF len < f.size THEN f.tail ELSE IF f.whole THEN 0 ELSE UTFMax
  IN IF d < len THEN d ELSE len

\* NUL bytes anywhere, and the end, which is forgiven what a cut may do to it:
\* any fewer than UTFMax bytes, whatever they are.
isText(f, len, cut) ==
  /\ f.nul \notin 1..len
  /\ dangling(f, len) = 0 \/ (cut /\ dangling(f, len) < UTFMax)

readFile(len, cut) ==
  Given(IF isText(file, len, cut) THEN [is |-> "text", len |-> len, truncated |-> cut]
        ELSE [NoContent EXCEPT !.is = "binary"])

\* core.download, and the request for the URL it answers with.
StartDownload ==
  /\ reading = "idle"
  /\ file' \in {f \in File : Possible(f)}
  /\ reading' = "download"
  /\ UNCHANGED <<wrote, dlJob, doubted, content>>

DownloadFails ==
  /\ reading \in {"download", "await"}
  /\ Fails
  /\ UNCHANGED <<file, wrote, dlJob, doubted>>

\* A body that is cut off is an error; one that ends is what the job wrote.
\* More than the limit is not read, and how the job ends is not asked.
ReadBody ==
  /\ reading = "download"
  /\ wrote' \in 0..file.size
  /\ IF wrote' > fileByteLimit
     THEN readFile(fileByteLimit, TRUE)
     ELSE reading' = "await" /\ UNCHANGED content
  /\ UNCHANGED <<file, dlJob, doubted>>

\* External: a job that has not written everything does not succeed.
DownloadJobEnds ==
  /\ reading = "await"
  /\ dlJob = "RUNNING"
  /\ dlJob' \in {"FAILED", "ABORTED"} \cup (IF wrote = file.size THEN {"SUCCESS"} ELSE {})
  /\ UNCHANGED <<reading, file, wrote, doubted, content>>

\* Mutant: a body that came through is taken for the file.
awaitNothing ==
  /\ reading = "await"
  /\ readFile(wrote, FALSE)
  /\ UNCHANGED <<file, wrote, dlJob, doubted>>

\* A poll that finds the job running changes nothing. The wait may run out
\* first, before the job has ended or between its end and the next poll.
awaitDownloadJob ==
  /\ reading = "await"
  /\ \/ dlJob \in {"FAILED", "ABORTED"} /\ Fails /\ UNCHANGED doubted
     \/ dlJob = "SUCCESS" /\ readFile(wrote, FALSE) /\ UNCHANGED doubted
     \/ readFile(wrote, FALSE) /\ doubted' = TRUE
  /\ UNCHANGED <<file, wrote, dlJob>>

RespondFile ==
  /\ reading = "answered"
  /\ reading' = "idle"
  /\ file' = NoFile
  /\ wrote' = 0 /\ dlJob' = "RUNNING" /\ doubted' = FALSE /\ content' = NoContent

DownloadStep == DownloadFails \/ ReadBody \/ awaitDownloadJob \/ RespondFile
=============================================================================
