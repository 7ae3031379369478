----------------------------- MODULE LogReader -----------------------------
(***************************************************************************)
(* What the offline reader makes of an event log (events/reader.py).       *)
(*                                                                         *)
(* A file is the sequence of the pieces the writer left in it.  A piece is *)
(* [seq |-> n, whole |-> TRUE] for a line that ends with its newline, and  *)
(* [seq |-> n, whole |-> FALSE] for a line cut short.  A piece that        *)
(* follows a cut one is on the same physical line, so neither parses.      *)
(***************************************************************************)
EXTENDS Integers, Sequences

Piece == [seq : Nat, whole : BOOLEAN]

(* The pieces that are physical lines by themselves.                       *)
Intact(file, i) == file[i].whole /\ (i > 1 => file[i - 1].whole)

(* EventLogReader.events, by sequence number.                              *)
Parsed(file) == {file[i].seq : i \in {j \in DOMAIN file : Intact(file, j)}}

(* Mutant of Gaps: a hole of one number is not noticed.                    *)
GapsOffByOne(seqs) ==
    LET neighbours == {pair \in seqs \X seqs :
                          /\ pair[2] > pair[1] + 2
                          /\ \A n \in seqs : n <= pair[1] \/ n >= pair[2]}
    IN  {<<pair[1] + 1, pair[2] - 1>> : pair \in neighbours}

(* EventLogReader.sequence_gaps: the ranges between neighbours.            *)
Gaps(seqs) ==
    LET neighbours == {pair \in seqs \X seqs :
                          /\ pair[2] > pair[1] + 1
                          /\ \A n \in seqs : n <= pair[1] \/ n >= pair[2]}
    IN  {<<pair[1] + 1, pair[2] - 1>> : pair \in neighbours}

(* The kinds of problem _load records, before validate looks at the order. *)
LoadProblems(file) ==
    LET cutAtEnd == file # <<>> /\ ~file[Len(file)].whole
        merged   == \E i \in DOMAIN file :
                        i > 1 /\ file[i].whole /\ ~file[i - 1].whole
    IN  (IF cutAtEnd THEN {"truncated_final_line"} ELSE {})
            \cup (IF merged THEN {"invalid_json"} ELSE {})

(* EventLogReader.validate: an empty log is reported and nothing else is   *)
(* looked at; otherwise order, duplicates and gaps.                        *)
Problems(file) ==
    LET lines == {j \in DOMAIN file : Intact(file, j)}
        unordered == \E i, j \in lines : i < j /\ file[i].seq > file[j].seq
        duplicate == \E i, j \in lines : i < j /\ file[i].seq = file[j].seq
    IN  LoadProblems(file) \cup
        IF lines = {} THEN {"empty_log"}
        ELSE (IF unordered THEN {"unordered"} ELSE {})
                \cup (IF duplicate THEN {"duplicate_seq"} ELSE {})
                \cup (IF Gaps(Parsed(file)) # {} THEN {"sequence_gap"} ELSE {})
=============================================================================
