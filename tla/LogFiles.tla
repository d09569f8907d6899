------------------------------ MODULE LogFiles ------------------------------
(* daemon.log and its rotated files (src/logging/sink.rs).  No handle is kept *)
(* between lines, so that the user may delete a file at any time, and another *)
(* program that holds a file open makes a rename or a write fail.             *)
EXTENDS Integers, SequencesExt

CONSTANTS
    Limit,      \* MAX_FILE_BYTES
    KeptFiles   \* KEPT_FILES

FilesAssumption == Limit \in Nat /\ KeptFiles \in Nat \ {0, 1}

Place == 0 .. KeptFiles - 1

(* A file: the numbers of its lines among the lines of the files, the length  *)
(* that Windows tells, and whether one of its lines was written after a       *)
(* rotation that was refused.  One that does not exist has no lines.          *)
File == [lines : Seq(Nat), size : Nat, refused : BOOLEAN]

NoFile == [lines |-> <<>>, size |-> 0, refused |-> FALSE]

NoFiles == [i \in Place |-> NoFile]

Longer(file, n, size, refused) ==
    [lines |-> Append(file.lines, n), size |-> file.size + size,
     refused |-> file.refused \/ refused]

(* What an earlier run may have left: a line in each.                         *)
EarlierFiles == [i \in Place |-> Longer(NoFile, KeptFiles - i, 1, FALSE)]

(* The renames go from the oldest file to daemon.log; `stop` is the place     *)
(* whose rename is refused, or 0.  A file that does not exist is skipped.     *)
Rotate_PastRefused(files, stop) ==
    [i \in Place |->
        IF i > 0 /\ i # stop /\ files[i - 1] # NoFile THEN files[i - 1]
        ELSE IF i + 1 \in Place \ {stop} THEN NoFile ELSE files[i]]
Rotate(files, stop) ==
    [i \in Place |->
        IF i > stop /\ files[i - 1] # NoFile THEN files[i - 1]
        ELSE IF i >= stop /\ i + 1 \in Place THEN NoFile ELSE files[i]]

(* Whether a line is written after a rotation.                                *)
Rotates(files, size) == files[0].size > 0 /\ files[0].size + size > Limit

(* The renames that can be refused, with 0 for none.                          *)
Stops(files, refusals) ==
    {0} \cup {i \in Place \ {0} : refusals /\ files[i - 1] # NoFile}

(* write_line: what may become of the files, and the error.                   *)
Writes(files, n, size, refusals) ==
    LET turned  == IF Rotates(files, size)
                   THEN {[files |-> Rotate(files, i), refused |-> i # 0] : i \in Stops(files, refusals)}
                   ELSE {[files |-> files, refused |-> FALSE]}
        written == {[files |-> [t.files EXCEPT ![0] = Longer(@, n, size, t.refused)],
                     error |-> IF t.refused THEN "rotate" ELSE "none"] : t \in turned}
        failed  == {[files |-> f, error |-> "write"] :
                        f \in {files} \cup {t.files : t \in turned}}
    IN  written \cup IF refusals THEN failed ELSE {}
=============================================================================
