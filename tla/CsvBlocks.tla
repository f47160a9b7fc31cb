----------------------------- MODULE CsvBlocks -----------------------------
(***************************************************************************)
(* A CSV stream scanned in one piece, and cut into blocks that are parsed  *)
(* at once (internal/source/csv/scanner.go, split.go, parallel.go).        *)
(*                                                                         *)
(* A stream is first cut speculatively, after a line ending, wherever it   *)
(* falls.  A block that does not end cleanly is taken back with every      *)
(* block cut after it, and from there on the stream is cut exactly, by a   *)
(* second reading of the scanner's own rules; what the splitter will not   *)
(* cut is the scanner's again.  How the blocks' goroutines run makes no    *)
(* difference: a block's parse reads its own bytes, and the oldest is      *)
(* waited for.  A stream is a sequence of characters; a q is a record:     *)
(*   stream, and fault: it ends in a failure to read, and not at its end   *)
(*   width   the fields of a record, known from the header                 *)
(*   size, slack   splitBlockSize, splitSlack                              *)
(*   ahead   the blocks in the window                                      *)
(*   maxRec  MaxRecordSize                                                 *)
(***************************************************************************)
EXTENDS Integers, Sequences, FiniteSets, SequencesExt

CONSTANTS
  Sep, Quote, Newline, Return,   \* the characters with a meaning,
  Comment,                       \* the one a comment line starts with,
  BadValue                       \* and one that no field converts with

Least(m, n) == IF m < n THEN m ELSE n

(* bytes.IndexByte: the first place from i on of one of chars, or the end. *)
Find(b, i, chars) ==
  LET at == {k \in i..Len(b) : b[k] \in chars} IN
  IF at = {} THEN Len(b) + 1 ELSE CHOOSE k \in at : \A l \in at : k <= l

Lines(b) == Cardinality({k \in DOMAIN b : b[k] = Newline})

Blank(b) == CASE b[1] = Newline -> 1
              [] b[1] = Return /\ Len(b) > 1 -> IF b[2] = Newline THEN 2 ELSE 0
              [] OTHER -> 0

(* The quote that closes a quoted field, a doubled one being data, or 0.   *)
RECURSIVE Closing(_, _)
Closing(b, i) ==
  LET k == Find(b, i, {Quote}) IN
  IF k > Len(b) THEN 0
  ELSE IF k < Len(b) /\ b[k + 1] = Quote THEN Closing(b, k + 2) ELSE k

(* What comes after the closing quote at k: a field, the record's end (and *)
(* how much of b it has), something else, or what is not read yet.         *)
After(b, k, atEOF) ==
  LET end(n)  == [is |-> "end", n |-> n]
      unknown == [is |-> "short", n |-> 0]
      odd     == [is |-> "odd", n |-> 0]
  IN CASE k = 0                                -> IF atEOF THEN odd ELSE unknown
       [] k > 0 /\ k = Len(b)                  -> IF atEOF THEN end(k) ELSE unknown
       [] 0 < k /\ k < Len(b) /\ b[k + 1] = Sep     -> [is |-> "field", n |-> k + 1]
       [] 0 < k /\ k < Len(b) /\ b[k + 1] = Newline -> end(k + 1)
       [] 0 < k /\ k < Len(b) /\ b[k + 1] = Return  ->
            IF k + 1 = Len(b) THEN (IF atEOF THEN odd ELSE unknown)
            ELSE IF b[k + 2] = Newline THEN end(k + 2) ELSE odd
       [] OTHER -> odd

-----------------------------------------------------------------------------
(* The scanner.                                                            *)

(* parse, from the field at i on: what the record is, how much of b it     *)
(* has, its fields, and the place of the field it fails in.                *)
RECURSIVE Fields(_, _, _, _)
Found(is, n, i, fields) == [is |-> is, n |-> n, fields |-> fields + 1, at |-> i]

(* The field at i is quoted, and a comes after its closing quote.          *)
QuotedField(b, i, atEOF, fields, a) ==
  CASE a.is = "field" -> Fields(b, a.n + 1, atEOF, fields + 1)
    [] a.is = "end"   -> Found("row", a.n, i, fields)
    [] OTHER          -> Found(a.is, 0, i, fields)

(* The field at i is not, and e is where it ends.                          *)
PlainField(b, i, atEOF, fields, e) ==
  CASE e > Len(b) -> IF atEOF THEN Found("row", Len(b), i, fields)
                     ELSE Found("short", 0, i, fields)
    [] e <= Len(b) /\ b[e] = Newline -> Found("row", e, i, fields)
    [] OTHER -> Fields(b, e + 1, atEOF, fields + 1)

Fields(b, i, atEOF, fields) ==
  IF i <= Len(b) /\ b[i] = Quote
  THEN QuotedField(b, i, atEOF, fields, After(b, Closing(b, i + 1), atEOF))
  ELSE PlainField(b, i, atEOF, fields, Find(b, i, {Sep, Newline}))

Parse(b, atEOF) ==
  LET nl     == Find(b, 1, {Newline})
      whole(is, n) == [is |-> is, n |-> n, fields |-> 1, at |-> 1]
  IN CASE b[1] = Comment -> IF nl <= Len(b) THEN whole("skip", nl)
                            ELSE IF atEOF THEN whole("skip", Len(b)) ELSE whole("short", 0)
       [] b[1] # Comment /\ Blank(b) > 0 -> whole("row", Blank(b))
       [] OTHER -> Fields(b, 1, atEOF, 0)

(* readRecord: over a block held whole the record is measured, and through *)
(* a buffer no more of it is ever held than the limit.                     *)
ReadRecord(q, b, over) ==
  LET measured(p) ==
        IF p.n > q.maxRec \/ (p.n = q.maxRec /\ b[p.n] # Newline)
        THEN [p EXCEPT !.is = "long"] ELSE p
      buffered(p) ==
        IF p.is # "short" THEN p
        ELSE [p EXCEPT !.is = IF Len(b) >= q.maxRec THEN "long" ELSE "read"]
  IN IF over THEN measured(Parse(b, TRUE))
     ELSE buffered(Parse(SubSeq(b, 1, Least(Len(b), q.maxRec)), ~q.fault /\ Len(b) < q.maxRec))

(* The rows of b, after row rows and line lines of the stream, up to an    *)
(* error, in a sequence of one, or none.                                   *)
RECURSIVE Scan(_, _, _, _, _)
Stop(what, row, line) ==
  [rows |-> <<>>, error |-> <<[what |-> what, row |-> row, line |-> line]>>]

(* The record rec of b, found by p, ends after line lines.                 *)
Record(q, b, over, p, rec, row, line) ==
  LET rest(n) == Scan(q, SubSeq(b, p.n + 1, Len(b)), over, row + n, line)
  IN CASE p.is = "skip" -> rest(0)
       [] p.is = "row"  ->
            IF p.fields > q.width THEN Stop("ragged", row + 1, line)
            ELSE IF Find(rec, 1, {BadValue}) <= p.n THEN Stop("value", row + 1, line)
            ELSE [rest(1) EXCEPT !.rows = <<rec>> \o @]

Scan(q, b, over, row, line) ==
  LET end(rec, n) == line + Lines(rec) + (IF rec[n] = Newline THEN 0 ELSE 1)
      found(p, rec) == Record(q, b, over, p, rec, row, end(rec, p.n))
      read(p) ==
        CASE p.is \in {"skip", "row"} -> found(p, SubSeq(b, 1, p.n))
          [] p.is = "odd"  -> Stop("quote", 0, line + Lines(SubSeq(b, 1, p.at - 1)) + 1)
          [] p.is = "long" -> Stop("long", 0, line + 1)
          [] OTHER         -> Stop("read", 0, 0)
  IN CASE b # <<>>          -> read(ReadRecord(q, b, over))
       [] q.fault /\ b = <<>> /\ ~over -> Stop("read", 0, 0)
       [] OTHER             -> [rows |-> <<>>, error |-> <<>>]

Serial(q) == Scan(q, q.stream, FALSE, 0, 0)

-----------------------------------------------------------------------------
(* The splitter: the scanner's rules again, with the fields not looked at. *)

RECURSIVE RecordEnd(_, _, _)
RecordEnd(b, i, atEOF) ==
  LET quoted(a) == IF a.is = "field" THEN RecordEnd(b, a.n + 1, atEOF) ELSE a
      plain(nl, opens) ==
        CASE opens # {} -> RecordEnd(b, CHOOSE k \in opens : \A l \in opens : k <= l, atEOF)
          [] opens = {} /\ nl <= Len(b) -> [is |-> "end", n |-> nl]
          [] OTHER -> [is |-> IF atEOF THEN "end" ELSE "short", n |-> Len(b)]
      line(nl) == plain(nl, {k \in (i + 1)..(nl - 1) : b[k] = Quote /\ b[k - 1] = Sep})
  IN IF i <= Len(b) /\ b[i] = Quote THEN quoted(After(b, Closing(b, i + 1), atEOF))
     ELSE line(Find(b, i, {Newline}))

(* boundary, from cut on: whole records up to the block's size.            *)
RECURSIVE Boundary(_, _, _, _, _)
Boundary(q, b, atEOF, cut, rows) ==
  LET c == SubSeq(b, cut + 1, Len(b))
      here(n, odd) == [cut |-> n, rows |-> rows, odd |-> odd]
      commented(nl) == IF nl <= Len(c) THEN Boundary(q, b, atEOF, cut + nl, rows)
                       ELSE here(IF atEOF THEN Len(b) ELSE cut, FALSE)
      record(e) == IF e.is = "end" THEN Boundary(q, b, atEOF, cut + e.n, rows + 1)
                   ELSE here(cut, e.is = "odd")
  IN CASE c = <<>> \/ cut >= q.size -> here(cut, FALSE)
       [] c # <<>> /\ cut < q.size /\ c[1] = Comment -> commented(Find(c, 1, {Newline}))
       [] c # <<>> /\ cut < q.size /\ c[1] # Comment /\ Blank(c) > 0 ->
            Boundary(q, b, atEOF, cut + Blank(c), rows + 1)
       [] OTHER -> record(RecordEnd(c, 1, atEOF))

(* read: the carry made want long, or the stream at its end, or failed.    *)
ReadTo(q, sp, want) ==
  LET k    == Least(want - Len(sp.carry), Len(sp.todo))
      ends == Len(sp.carry) + Len(sp.todo) < want
  IN IF sp.eof \/ Len(sp.carry) >= want THEN sp
     ELSE [sp EXCEPT !.carry = IF ends /\ q.fault THEN <<>> ELSE @ \o SubSeq(sp.todo, 1, k),
                     !.todo = SubSeq(@, k + 1, Len(@)),
                     !.eof = ends /\ ~q.fault, !.failed = ends /\ q.fault]

(* A block of the first n characters held.                                 *)
CutAt(sp, n, rows) ==
  LET data == SubSeq(sp.carry, 1, n) IN
  [sp |-> [sp EXCEPT !.carry = SubSeq(@, n + 1, Len(@)),
                     !.line = IF sp.spec THEN @ ELSE @ + Lines(data),
                     !.row = IF sp.spec THEN @ ELSE @ + rows],
   block |-> <<[data |-> data, spec |-> sp.spec,
                firstLine |-> IF sp.spec THEN 0 ELSE sp.line,
                firstRow |-> IF sp.spec THEN 0 ELSE sp.row]>>]

NoBlock(sp) == [sp |-> sp, block |-> <<>>]

RECURSIVE ExactNext(_, _)
ExactNext(q, sp) ==
  LET bounded(c) ==
        CASE c.cut > 0 -> CutAt([sp EXCEPT !.stopped = c.odd], c.cut, c.rows)
          [] c.cut = 0 /\ (c.odd \/ sp.eof \/ Len(sp.carry) >= q.maxRec) ->
               NoBlock([sp EXCEPT !.stopped = sp.carry # <<>>])
          [] OTHER -> ExactNext(q, ReadTo(q, sp, 2 * Len(sp.carry)))
  IN IF sp.failed THEN NoBlock(sp) ELSE bounded(Boundary(q, sp.carry, sp.eof, 0, 0))

RECURSIVE SpecNext(_, _, _)
SpecNext(q, sp, from) ==
  LET nl   == Find(sp.carry, from, {Newline})
      past == Len(sp.carry) + 1
  IN CASE sp.failed -> NoBlock(sp)
       [] ~sp.failed /\ nl < past -> CutAt(sp, nl, 0)
       [] ~sp.failed /\ nl = past /\ sp.eof ->
            IF sp.carry = <<>> THEN NoBlock(sp) ELSE CutAt(sp, Len(sp.carry), 0)
       [] ~sp.failed /\ nl = past /\ ~sp.eof /\ Len(sp.carry) >= q.maxRec ->
            ExactNext(q, ReadTo(q, [sp EXCEPT !.spec = FALSE], q.size))
       [] OTHER -> SpecNext(q, ReadTo(q, sp, 2 * Len(sp.carry)),
                            IF from > past THEN from ELSE past)

NextBlock(q, sp) ==
  CASE sp.stopped -> NoBlock(sp)
    [] ~sp.stopped /\ sp.spec -> SpecNext(q, ReadTo(q, sp, q.size + q.slack), q.size)
    [] OTHER -> ExactNext(q, ReadTo(q, sp, q.size))

(* Mutant of Resume: the blocks cut after the one taken back are dropped.  *)
ResumeOne(sp, window) ==
  [sp EXCEPT !.carry = Head(window).data \o @, !.spec = FALSE]

(* resume: a block and all cut after it, before what is held.              *)
Resume(sp, window) ==
  [sp EXCEPT !.carry = FlattenSeq([i \in DOMAIN window |-> window[i].data]) \o @,
             !.spec = FALSE]

-----------------------------------------------------------------------------
(* nextParallel, to the stream's end.                                      *)

RECURSIVE FillWindow(_, _)
FillWindow(q, r) ==
  LET add(x) == [r EXCEPT !.split = x.sp, !.window = @ \o x.block,
                          !.ended = x.block = <<>> /\ ~x.sp.failed]
  IN IF r.split.failed \/ r.ended \/ Len(r.window) >= q.ahead THEN r
     ELSE FillWindow(q, add(NextBlock(q, r.split)))

RECURSIVE Deliver(_, _)

(* p, of the oldest block, is delivered; or its error is the stream's; or, *)
(* cut speculatively, it is taken back.                                    *)
Parsed(q, r, blk, p) ==
  CASE p.error = <<>> ->
         Deliver(q, [r EXCEPT !.rows = @ \o p.rows, !.window = Tail(@),
                       !.split.row = IF blk.spec THEN @ + Len(p.rows) ELSE @,
                       !.split.line = IF blk.spec THEN @ + Lines(blk.data) ELSE @])
    [] p.error # <<>> /\ blk.spec ->
         Deliver(q, [r EXCEPT !.split = Resume(@, r.window), !.window = <<>>, !.ended = FALSE])
    [] OTHER -> [rows |-> r.rows, error |-> p.error]

(* The window is empty: the stream is at its end, or the scanner's.        *)
Drained(q, r) ==
  LET sp == r.split
      after(rest) == [rows |-> r.rows \o rest.rows, error |-> rest.error]
  IN CASE sp.failed -> after(Stop("read", 0, 0))
       [] ~sp.failed /\ sp.stopped ->
            after(Scan(q, sp.carry \o sp.todo, FALSE, sp.row, sp.line))
       [] OTHER -> [rows |-> r.rows, error |-> <<>>]

Deliver(q, before) ==
  LET oldest(r, blk) == Parsed(q, r, blk, Scan(q, blk.data, TRUE, blk.firstRow, blk.firstLine))
      filled(r) == IF r.window # <<>> THEN oldest(r, Head(r.window)) ELSE Drained(q, r)
  IN filled(FillWindow(q, before))

Parallel(q) ==
  Deliver(q, [rows |-> <<>>, window |-> <<>>, ended |-> FALSE,
              split |-> [todo |-> q.stream, carry |-> <<>>, eof |-> FALSE, failed |-> FALSE,
                         line |-> 0, row |-> 0, stopped |-> FALSE, spec |-> TRUE]])
=============================================================================
