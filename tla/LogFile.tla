------------------------------ MODULE LogFile -------------------------------
(***************************************************************************)
(* A log of a LevelDB (db/log_writer.cc, db/log_reader.cc), which holds    *)
(* the write batches of a memtable or the edits of a MANIFEST: records cut *)
(* into fragments, which never cross the end of a block.  The process may  *)
(* die and lose any tail of the file; a write may fail halfway and the     *)
(* writer go on, as DBImpl::Write does.  Then the log is read.             *)
(*                                                                         *)
(* The bytes of the file are <<f, i>>: byte i of fragment f, header first; *)
(* <<0, 0>> is a zero.  Checksums find every fragment that is not whole.   *)
(***************************************************************************)
EXTENDS Integers, Sequences, FiniteSets, SequencesExt

CONSTANTS
    kBlockSize, kHeaderSize,    \* in bytes of the model
    Lengths,                    \* lengths of records
    MaxRecords,
    MaxFailures                 \* writes that fail halfway

LogFileAssumption ==
    /\ {kBlockSize, kHeaderSize, MaxRecords} \subseteq Nat \ {0}
    /\ Lengths \subseteq Nat /\ MaxFailures \in Nat
    /\ kHeaderSize < kBlockSize

VARIABLES
    file,       \* its bytes
    frags,      \* fragments emitted: [type, record, from, length]
    records,    \* the records added: [length, status]
    writer,     \* [block_offset, left, begin]; left is -1 between two records
    failed,     \* the records during which a write failed
    reader      \* [at, buffer, eof, scratch, in_fragmented_record, out, corrupt,
                \* lost, done]; lost after a read that failed; None while the log is written

vars == <<file, frags, records, writer, failed, reader>>

None == [done |-> FALSE, at |-> -1]
Reading == reader.at >= 0
Least(a, b) == IF a < b THEN a ELSE b

Init ==
    /\ file = <<>>
    /\ frags = <<>>
    /\ records = <<>>
    /\ writer = [block_offset |-> 0, left |-> -1, begin |-> TRUE]
    /\ failed = {}
    /\ reader = None

-----------------------------------------------------------------------------
(* The writer *)

AddRecord(length) ==
    /\ ~Reading
    /\ writer.left = -1
    /\ Len(records) < MaxRecords
    /\ records' = Append(records, [length |-> length, status |-> "none"])
    /\ writer' = [writer EXCEPT !.left = length, !.begin = TRUE]
    /\ UNCHANGED <<file, frags, failed, reader>>

\* The end of a block that is too short for a header is filled with zeros.
Leftover == kBlockSize - writer.block_offset
Trailer == IF Leftover < kHeaderSize THEN [i \in 1..Leftover |-> <<0, 0>>] ELSE <<>>
Start == IF Leftover < kHeaderSize THEN 0 ELSE writer.block_offset

Length == Least(writer.left, kBlockSize - Start - kHeaderSize)
Type ==
    IF Length = writer.left THEN IF writer.begin THEN "full" ELSE "last"
    ELSE IF writer.begin THEN "first" ELSE "middle"

Fragment == [type |-> Type, record |-> Len(records), length |-> Length,
             from |-> records[Len(records)].length - writer.left]
Bytes == [i \in 1..(kHeaderSize + Length) |-> <<Len(frags) + 1, i>>]

SetStatus(s) == [records EXCEPT ![Len(records)].status = s]

\* One fragment: written, or cut short by a write that fails.  The result of writing the trailer
\* is not looked at.  Either way the writer takes the bytes to be in the file.
EmitPhysicalRecord ==
    /\ ~Reading
    /\ writer.left >= 0
    /\ frags' = Append(frags, Fragment)
    /\ \/ /\ \/ file' = file \o Trailer \o Bytes /\ UNCHANGED failed
             \/ /\ Cardinality(failed) < MaxFailures /\ Trailer # <<>>
                /\ file' = file \o Bytes
                /\ failed' = failed \cup {Len(records)}
          /\ records' = IF Length = writer.left THEN SetStatus("ok") ELSE records
          /\ writer' = [block_offset |-> Start + kHeaderSize + Length, begin |-> FALSE,
                        left |-> IF Length = writer.left THEN -1 ELSE writer.left - Length]
       \/ /\ Cardinality(failed) < MaxFailures
          /\ failed' = failed \cup {Len(records)}
          /\ \E n \in 0..(kHeaderSize + Length - 1) : file' = file \o Trailer \o SubSeq(Bytes, 1, n)
          /\ records' = SetStatus("error")
          /\ writer' = [block_offset |-> Start + kHeaderSize + Length, begin |-> FALSE, left |-> -1]
    /\ UNCHANGED reader

-----------------------------------------------------------------------------
(* The reader *)

\* The process dies: what it has not flushed is lost, at most from some byte on.
Crash ==
    /\ ~Reading
    /\ \E n \in 0..Len(file) : file' = SubSeq(file, 1, n)
    /\ reader' = [at |-> 0, buffer |-> <<>>, eof |-> FALSE, scratch |-> <<>>,
                  in_fragmented_record |-> FALSE, out |-> <<>>, corrupt |-> FALSE, lost |-> FALSE,
                  done |-> FALSE]
    /\ UNCHANGED <<frags, records, writer, failed>>

\* file_->Read: the next block, shorter at the end of the file, or an error.
ReadBlock ==
    LET block == SubSeq(file, reader.at + 1, Least(reader.at + kBlockSize, Len(file))) IN
    /\ Reading /\ ~reader.done
    /\ Len(reader.buffer) < kHeaderSize
    /\ \/ /\ ~reader.eof
          /\ reader' = [reader EXCEPT !.buffer = block, !.at = @ + Len(block),
                                      !.eof = Len(block) < kBlockSize]
       \/ /\ ~reader.eof
          /\ reader' = [reader EXCEPT !.buffer = <<>>, !.eof = TRUE, !.corrupt = TRUE,
                                      !.lost = TRUE, !.done = TRUE]
       \/ /\ reader.eof
          /\ reader' = [reader EXCEPT !.buffer = <<>>, !.done = TRUE]
    /\ UNCHANGED <<file, frags, records, writer, failed>>

IsHeader(buffer) ==
    LET f == buffer[1][1] IN f # 0 /\ \A i \in 1..kHeaderSize : buffer[i] = <<f, i>>
AllZero(buffer) == \A i \in 1..kHeaderSize : buffer[i] = <<0, 0>>
Fits(buffer, f) == kHeaderSize + frags[f].length <= Len(buffer)
Whole(buffer, f) ==
    /\ Fits(buffer, f)
    /\ \A i \in 1..(kHeaderSize + frags[f].length) : buffer[i] = <<f, i>>

\* ReadRecord, given kBadRecord: the rest of the block is dropped.
Drop(reported) ==
    [reader EXCEPT !.buffer = <<>>, !.in_fragmented_record = FALSE, !.scratch = <<>>,
                   !.corrupt = @ \/ reported \/ reader.in_fragmented_record]
End == [reader EXCEPT !.buffer = <<>>, !.done = TRUE]

\* What a length beyond the buffer means: a record that was being written at the end of the
\* file, or a bad length.
TooLongAlwaysBad == Drop(TRUE)     \* mutant: a record cut off by a crash is a corruption
TooLong == IF reader.eof THEN End ELSE Drop(TRUE)

\* ReadRecord, given a fragment.
Part(f) ==
    [frag |-> f,
     bytes |-> SubSeq(reader.buffer, kHeaderSize + 1, kHeaderSize + frags[f].length)]
Take(f) ==
    LET rest == SubSeq(reader.buffer, kHeaderSize + frags[f].length + 1, Len(reader.buffer))
        partial == /\ reader.in_fragmented_record
                   /\ \E i \in DOMAIN reader.scratch : reader.scratch[i].bytes # <<>>
        scratch == Append(reader.scratch, Part(f))
        inside == reader.in_fragmented_record
    IN
    CASE frags[f].type = "full" ->
            [reader EXCEPT !.buffer = rest, !.out = Append(@, <<Part(f)>>), !.scratch = <<>>,
                           !.in_fragmented_record = FALSE, !.corrupt = @ \/ partial]
      [] frags[f].type = "first" ->
            [reader EXCEPT !.buffer = rest, !.scratch = <<Part(f)>>,
                           !.in_fragmented_record = TRUE, !.corrupt = @ \/ partial]
      [] frags[f].type = "middle" ->
            IF inside THEN [reader EXCEPT !.buffer = rest, !.scratch = scratch]
            ELSE [reader EXCEPT !.buffer = rest, !.corrupt = TRUE]
      [] frags[f].type = "last" ->
            IF inside THEN [reader EXCEPT !.buffer = rest, !.out = Append(@, scratch),
                                          !.scratch = <<>>, !.in_fragmented_record = FALSE]
            ELSE [reader EXCEPT !.buffer = rest, !.corrupt = TRUE]

ReadPhysicalRecord ==
    LET buffer == reader.buffer
        f == buffer[1][1]
    IN
    /\ Reading /\ ~reader.done
    /\ Len(buffer) >= kHeaderSize
    /\ \/ /\ IsHeader(buffer) /\ ~Fits(buffer, f)
          /\ reader' = TooLong
       \/ /\ IsHeader(buffer) /\ Fits(buffer, f)
          /\ reader' = IF Whole(buffer, f) THEN Take(f) ELSE Drop(TRUE)
       \/ /\ AllZero(buffer)
          /\ reader' = Drop(FALSE)
       \/ /\ ~IsHeader(buffer) /\ ~AllZero(buffer)
          /\ reader' \in {TooLong, Drop(TRUE), Drop(FALSE)}
    /\ UNCHANGED <<file, frags, records, writer, failed>>

Next ==
    \/ \E n \in Lengths : AddRecord(n)
    \/ EmitPhysicalRecord \/ Crash \/ ReadBlock \/ ReadPhysicalRecord

Spec == Init /\ [][Next]_vars

-----------------------------------------------------------------------------
(* Properties *)

Record(parts) == frags[parts[1].frag].record

IsRecord(parts) ==
    LET frag(i) == frags[parts[i].frag] IN
    /\ frag(1).from = 0
    /\ frag(Len(parts)).from + frag(Len(parts)).length = records[Record(parts)].length
    /\ \A i \in DOMAIN parts :
          /\ frag(i).record = Record(parts)
          /\ parts[i].bytes = [n \in 1..frag(i).length |-> <<parts[i].frag, kHeaderSize + n>>]
    /\ \A i \in 2..Len(parts) : frag(i).from = frag(i - 1).from + frag(i - 1).length

\* Whatever was lost or cut short, ReadRecord returns records that were added, whole and in their
\* order, and never one put together from pieces of two (db/log_reader.cc:59-164).
RecordsIntact ==
    Reading =>
        /\ \A i \in DOMAIN reader.out : IsRecord(reader.out[i])
        /\ \A i \in 2..Len(reader.out) : Record(reader.out[i - 1]) < Record(reader.out[i])

\* The last byte of a record is in what is left of the file.
InFile(r) ==
    \E f \in DOMAIN frags :
        /\ frags[f].record = r
        /\ frags[f].type \in {"full", "last"}
        /\ \E n \in DOMAIN file : file[n] = <<f, kHeaderSize + frags[f].length>>
Before == {r \in DOMAIN records : InFile(r) /\ \A q \in failed : r < q}

\* The records added before the first failed write are read as far as the file goes, and a file
\* that merely ends early is not reported as corrupt: a MANIFEST must not be
\* (db/log_reader.cc:139, 206, 226).
RecordsKept ==
    Reading /\ reader.done /\ ~reader.lost =>
        /\ Len(reader.out) >= Cardinality(Before)
        /\ \A r \in Before : Record(reader.out[r]) = r
        /\ failed = {} => ~reader.corrupt /\ Len(reader.out) = Cardinality(Before)

=============================================================================
