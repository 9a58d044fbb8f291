---------------------------- MODULE JsonFileSink ----------------------------
(***************************************************************************)
(* JsonFileSink: every message is appended as one line to a file, which is *)
(* renamed to a single backup before the append once it has reached its    *)
(* maximal size.  What survives the process is the two files; the process  *)
(* may be killed, or fail to write (a full disk), between any two of the   *)
(* calls it makes and in the middle of a line, and be started again.       *)
(***************************************************************************)
EXTENDS Integers, FiniteSets, SequencesExt

CONSTANTS
    MaxBytes,       \* _max_bytes, in units
    Sizes,          \* the sizes a line may have, in units
    Missing,        \* a file that does not exist
    MaxLines,       \* bound: lines appended over a behaviour
    MaxCrashes      \* bound: crashes over a behaviour

ASSUME JsonBoundsAssumption == MaxLines \in Nat /\ MaxCrashes \in Nat

VARIABLES
    pc,             \* where handle_message is
    file, backup,   \* Missing, or the lines of the file
    appended,       \* history: messages whose line was written, or begun
    crashes

vars == <<pc, file, backup, appended, crashes>>

(* A line is the messages whose text it holds: one, or several that ran    *)
(* into each other, where it ends in its file, and whether its newline was *)
(* written.                                                                *)
Line == [first : 1..MaxLines, last : 1..MaxLines, end : Nat, whole : BOOLEAN]

ASSUME SizesAssumption == MaxBytes \in Nat /\ Sizes \subseteq Nat \ {0} /\ Missing \notin Seq(Line)

Lines(f) == IF f = Missing THEN <<>> ELSE f

(* st_size: where the last line ends.                                      *)
Bytes(lines) == IF lines = <<>> THEN 0 ELSE Last(lines).end

TypeOK ==
    /\ pc \in {"idle", "unlink", "rename", "append"}
    /\ file \in Seq(Line) \union {Missing}
    /\ backup \in Seq(Line) \union {Missing}
    /\ appended \in 0..MaxLines
    /\ crashes \in 0..MaxCrashes
    /\ pc = "unlink" => backup # Missing
    /\ pc = "rename" => backup = Missing /\ file # Missing

Init ==
    /\ pc = "idle"
    /\ file = Missing
    /\ backup = Missing
    /\ appended = 0
    /\ crashes = 0

-----------------------------------------------------------------------------
(* handle_message.                                                         *)

NeedsRoll_TooEarly == file # Missing /\ Bytes(file) >= MaxBytes - 1
NeedsRoll_TooLate == file # Missing /\ Bytes(file) > MaxBytes
NeedsRoll == file # Missing /\ Bytes(file) >= MaxBytes

HandleMessage ==
    /\ pc = "idle"
    /\ appended < MaxLines
    /\ pc' = IF ~NeedsRoll THEN "append" ELSE IF backup # Missing THEN "unlink" ELSE "rename"
    /\ UNCHANGED <<file, backup, appended, crashes>>

Unlink_Skipped == pc = "unlink" /\ pc' = "rename" /\ UNCHANGED <<file, backup, appended, crashes>>
Unlink ==
    /\ pc = "unlink"
    /\ backup' = Missing
    /\ pc' = "rename"
    /\ UNCHANGED <<file, appended, crashes>>

RolledFile_Truncated == <<>>
RolledFile == file

Rename ==
    /\ pc = "rename"
    /\ backup' = RolledFile
    /\ file' = Missing
    /\ pc' = "append"
    /\ UNCHANGED <<appended, crashes>>

(* The text goes where the file ends: behind an unfinished line it makes   *)
(* one line with it.                                                       *)
Begun(end, whole) ==
    [first |-> appended + 1, last |-> appended + 1, end |-> end, whole |-> whole]
Joined(line, size, whole) ==
    [line EXCEPT !.last = appended + 1, !.end = @ + size, !.whole = whole]

Extended_NoNewline(lines, size, whole) ==
    IF lines = <<>>
    THEN <<Begun(size, whole)>>
    ELSE [lines EXCEPT ![Len(lines)] = Joined(@, size, whole)]

Extended(lines, size, whole) ==
    IF lines = <<>> \/ Last(lines).whole
    THEN Append(lines, Begun(Bytes(lines) + size, whole))
    ELSE [lines EXCEPT ![Len(lines)] = Joined(@, size, whole)]

AppendLine(size) ==
    /\ pc = "append"
    /\ file' = Extended(Lines(file), size, TRUE)
    /\ appended' = appended + 1
    /\ pc' = "idle"
    /\ UNCHANGED <<backup, crashes>>

(* The process dies, or the call raises and the aggregator ends; it is     *)
(* started again on the files as they are.                                 *)
Crash ==
    /\ crashes < MaxCrashes
    /\ crashes' = crashes + 1
    /\ pc' = "idle"
    /\ \/ UNCHANGED <<file, appended>>
       \/ /\ pc = "append"
          /\ \E size \in Sizes : file' = Extended(Lines(file), size, FALSE)
          /\ appended' = appended + 1
    /\ UNCHANGED backup

Next == HandleMessage \/ Unlink \/ Rename \/ (\E size \in Sizes : AppendLine(size)) \/ Crash

Spec == Init /\ [][Next]_vars

-----------------------------------------------------------------------------
(* Properties.                                                             *)

OnDisk == Lines(backup) \o Lines(file)

(* The backup followed by the file is the most recent stretch of the log:  *)
(* in order, without a hole, and up to the last message.                   *)
NoHole ==
    /\ appended > 0 => OnDisk # <<>> /\ Last(OnDisk).last = appended
    /\ \A i \in 1..(Len(OnDisk) - 1) : OnDisk[i + 1].first = OnDisk[i].last + 1

(* At every instant, the two calls of a roll included, at least MaxBytes   *)
(* of that log are on the disk, or all of it.                              *)
EnoughKept ==
    OnDisk # <<>> /\ OnDisk[1].first > 1 =>
        Bytes(Lines(backup)) + Bytes(Lines(file)) >= MaxBytes

(* Neither file grows beyond the maximum by more than the line that        *)
(* crossed it.                                                             *)
SizeIsBounded ==
    \A f \in {file, backup} :
        LET lines == Lines(f) IN
        Len(lines) > 1 => Bytes(Front(lines)) < MaxBytes

(* A crash spoils at most two messages: the one being written and the next *)
(* one, whose text is joined to it.                                        *)
Spoilt(line) == line.first # line.last \/ ~line.whole
Spoiled == {m \in 1..appended :
              \E i \in DOMAIN OnDisk :
                  OnDisk[i].first <= m /\ m <= OnDisk[i].last /\ Spoilt(OnDisk[i])}
SpoiledIsBounded == Cardinality(Spoiled) <= 2 * crashes
=============================================================================
