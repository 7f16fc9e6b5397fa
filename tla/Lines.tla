------------------------------- MODULE Lines -------------------------------
(***************************************************************************)
(* The three ways to cut a file into lines with SimpleBuffer: main maps    *)
(* the whole file; a test reads it in chunks into a buffer that may be     *)
(* smaller; and the tests push texts as they come.                         *)
(***************************************************************************)
EXTENDS SimpleBuffer

CONSTANTS
  MaxFile,      \* bound on the length of the file
  Capacities,   \* of the buffer: 1024000 in the code
  LowSpace      \* below this free space the buffer is moved left: 1024

ASSUME LinesAssumption ==
  /\ MaxFile \in Nat
  /\ Capacities \subseteq Nat
  /\ LowSpace \in Nat \ {0}

VARIABLES
  file,     \* what is in the file
  way,      \* "mapped", "chunked" or "pushed"
  buffer,
  at,       \* "fill", "cut" or "end"
  unread,   \* what of the file has not come into the buffer
  good,     \* may there be more to come?
  lines     \* the lines that were processed

vars == <<file, way, buffer, at, unread, good, lines>>

EndOfLine == 0

\* Files in which each other character is its place.
Files ==
  UNION {{[k \in 1 .. n |-> IF k \in ends THEN EndOfLine ELSE k] :
            ends \in SUBSET (1 .. n)} : n \in 0 .. MaxFile}

\* main: an empty file is not mapped (mmap refuses length 0), and the program
\* ends there.
Init ==
  /\ file \in Files
  /\ lines = << >>
  /\ \/ /\ way = "mapped" /\ file # << >>
        /\ buffer = seekEnd(BufferOn(file), Len(file))
        /\ unread = << >> /\ good = FALSE
        /\ at = "cut"
     \/ /\ way \in {"chunked", "pushed"}
        /\ \E capacity \in Capacities : buffer = NewBuffer(capacity)
        /\ unread = file /\ good = TRUE
        /\ at = "fill"

-----------------------------------------------------------------------------

First(n) == SubSeq(unread, 1, n)
After(n) == SubSeq(unread, n + 1, Len(unread))

\* Mutant: the buffer is moved left only when it is used up.
readChunk_NeverLeft ==
  LET n    == Min({freeSpace(buffer), Len(unread)})
      read == seekEnd([buffer EXCEPT
                         !.str_ = WrittenAt(buffer, buffer.end_, First(n))], n)
  IN  /\ way = "chunked" /\ at = "fill"
      /\ unread' = After(n)
      /\ good' = (n = freeSpace(buffer))
      /\ buffer' = IF available(read) = 0 THEN pushOnLeft(read) ELSE read
      /\ at' = "cut"
      /\ UNCHANGED <<file, way, lines>>

\* infile.read(dataEnd(), freeSpace()): the stream is good until a read comes
\* out short.
readChunk ==
  LET n    == Min({freeSpace(buffer), Len(unread)})
      read == seekEnd([buffer EXCEPT
                         !.str_ = WrittenAt(buffer, buffer.end_, First(n))], n)
  IN  /\ way = "chunked" /\ at = "fill"
      /\ unread' = After(n)
      /\ good' = (n = freeSpace(buffer))
      /\ buffer' = IF freeSpace(read) < LowSpace THEN pushOnLeft(read) ELSE read
      /\ at' = "cut"
      /\ UNCHANGED <<file, way, lines>>

\* Mutant: the room is taken for that of an empty buffer.
pushText_Unchecked ==
  /\ way = "pushed" /\ at = "fill"
  /\ \/ \E n \in 1 .. Min({buffer.capacity_, Len(unread)}) :
          /\ buffer' = push(buffer, First(n))
          /\ unread' = After(n)
     \/ /\ freeSpace(buffer) = 0
        /\ buffer' = IF available(buffer) = 0 THEN reset(buffer)
                                              ELSE pushOnLeft(buffer)
        /\ UNCHANGED unread
     \/ unread = << >> /\ UNCHANGED <<buffer, unread>>
  /\ good' = (unread' # << >>)
  /\ at' = "cut"
  /\ UNCHANGED <<file, way, lines>>

\* A text that fits is pushed; a full buffer is emptied, or moved left.  The
\* test pushes texts of its own choice; this client pushes any that fits, and
\* so more than the test does.
pushText ==
  /\ way = "pushed" /\ at = "fill"
  /\ \/ \E n \in 1 .. Min({freeSpace(buffer), Len(unread)}) :
          /\ buffer' = push(buffer, First(n))
          /\ unread' = After(n)
     \/ /\ freeSpace(buffer) = 0
        /\ buffer' = IF available(buffer) = 0 THEN reset(buffer)
                                              ELSE pushOnLeft(buffer)
        /\ UNCHANGED unread
     \/ unread = << >> /\ UNCHANGED <<buffer, unread>>
  /\ good' = (unread' # << >>)
  /\ at' = "cut"
  /\ UNCHANGED <<file, way, lines>>

\* One turn of the loop that cuts lines.
cutLine ==
  /\ at = "cut"
  /\ getPosition(buffer, EndOfLine) >= 0
  /\ LET pos == getPosition(buffer, EndOfLine) IN
       /\ lines' = Append(lines, SubSeq(data(buffer), 1, pos))
       /\ buffer' = seek(buffer, pos + 1)
  /\ UNCHANGED <<file, way, at, unread, good>>

\* Mutant: a blank line is taken for none.
noLine_Blank ==
  /\ at = "cut"
  /\ available(buffer) = 0 \/ getPosition(buffer, EndOfLine) <= 0
  /\ at' = IF good THEN "fill" ELSE "end"
  /\ UNCHANGED <<file, way, buffer, unread, good, lines>>

\* Its end: nothing is left, or no end of line.
noLine ==
  /\ at = "cut"
  /\ available(buffer) = 0 \/ getPosition(buffer, EndOfLine) < 0
  /\ at' = IF good THEN "fill" ELSE "end"
  /\ UNCHANGED <<file, way, buffer, unread, good, lines>>

Done == at = "end" /\ UNCHANGED vars

Next == readChunk \/ pushText \/ cutLine \/ noLine \/ Done

\* One thread, which is scheduled.
Spec == Init /\ [][Next]_vars /\ WF_vars(Next)

-----------------------------------------------------------------------------

TypeOK ==
  /\ at \in {"fill", "cut", "end"}
  /\ good \in BOOLEAN
  /\ 0 <= buffer.begin_ /\ buffer.begin_ <= buffer.end_
  /\ buffer.end_ <= buffer.capacity_
  /\ Len(buffer.str_) = buffer.capacity_

\* The lines processed, what is in the window and what is unread make up the
\* file, at any time: no character is lost, repeated or taken from a stale
\* part of the buffer, wherever a line lies across two chunks.
NothingLostOrRepeated ==
  FlattenSeq([n \in DOMAIN lines |-> Append(lines[n], EndOfLine)])
    \o data(buffer) \o unread = file

\* At the end every line that has an end has been processed.  What is left is
\* the last line of a file that does not end with an end of line: it is never
\* processed.
OnlyUnendedLineLeft ==
  at = "end" =>
    LET ends == {k \in DOMAIN file : file[k] = EndOfLine}
        left == SubSeq(file, Max(ends \cup {0}) + 1, Len(file))
    IN  /\ Len(lines) = Cardinality(ends)
        /\ data(buffer) = left /\ unread = << >>

\* No line is longer than the buffer.  A chunk that fills the buffer is taken
\* for one of many, so that an unended last line must leave room.
LinesFit ==
  LET ends     == {k \in DOMAIN file : file[k] = EndOfLine}
      start(k) == Max({m \in ends : m < k} \cup {0})
  IN  /\ \A k \in ends : k - start(k) <= buffer.capacity_
      /\ Len(file) - start(Len(file) + 1) <=
           buffer.capacity_ - (IF way = "chunked" THEN 1 ELSE 0)

\* The buffer is never made larger ("We assume we never need this"): reading
\* comes to its end if the lines fit, and only then; else the reader goes on
\* for ever without a new character.
ReadsToTheEnd ==
  /\ LinesFit ~> (at = "end")
  /\ ~LinesFit ~> [](at # "end")
=============================================================================
