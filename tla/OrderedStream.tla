--------------------------- MODULE OrderedStream ---------------------------
(***************************************************************************)
(* What a parallel operator promises whoever pulls from it: the answers of *)
(* the serial pipeline, in input order.                                    *)
(*                                                                         *)
(* The input is a stream of pulls.  Every pull but the last gives a batch, *)
(* and the last one ends the stream:                                       *)
(*   "rows"   a batch some of whose rows survive the operator              *)
(*   "empty"  a batch the operator filters away to nothing                 *)
(*   "fail"   a batch the operator answers with an error, or a panic       *)
(*   "exit"   a batch whose processing ends its goroutine (runtime.Goexit) *)
(*   "eof"    the end of the input                                         *)
(*   "err"    an error, or a panic, of the source                          *)
(*   "quit"   a source that ends its goroutine with runtime.Goexit         *)
(***************************************************************************)
EXTENDS Integers, Sequences

CONSTANT Streams            \* the input streams considered

Batches == {"rows", "empty", "fail", "exit"}
Ends    == {"eof", "err", "quit"}
Pulls   == Batches \union Ends

(* The pulls that must reach the caller as an error.                       *)
Errors == {"fail", "exit", "err", "quit"}

ASSUME StreamsAssumption ==
  \A s \in Streams : /\ s \in Seq(Pulls)
                     /\ Len(s) > 0
                     /\ \A k \in 1..Len(s) : s[k] \in Ends <=> k = Len(s)

VARIABLES
  stream,      \* the input
  cancelled,   \* the caller's context has ended
  read,        \* how many pulls of the input have been accounted for
  out,         \* the positions of the batches given to the caller, in order
  answer       \* how the stream ended for the caller, "none" while it has not

abstractVars == <<stream, cancelled, read, out, answer>>

Init ==
  /\ stream \in Streams
  /\ cancelled = FALSE
  /\ read = 0
  /\ out = <<>>
  /\ answer = "none"

(* The next pull of the input that has not been accounted for.             *)
Pending == stream[read + 1]

Deliver ==
  /\ answer = "none"
  /\ Pending = "rows"
  /\ out' = Append(out, read + 1)
  /\ read' = read + 1
  /\ UNCHANGED <<stream, cancelled, answer>>

Skip ==
  /\ answer = "none"
  /\ Pending = "empty"
  /\ read' = read + 1
  /\ UNCHANGED <<stream, cancelled, out, answer>>

(* An error takes its place in the order: after every batch before it, and *)
(* instead of everything from it on.                                       *)
Fail ==
  /\ answer = "none"
  /\ Pending \in Errors
  /\ answer' = "err"
  /\ read' = read + 1
  /\ UNCHANGED <<stream, cancelled, out>>

(* Only a stream read to its end has ended, and never one cancelled.       *)
End ==
  /\ answer = "none"
  /\ Pending = "eof"
  /\ ~cancelled
  /\ answer' = "eof"
  /\ UNCHANGED <<stream, cancelled, read, out>>

(* The context's error, met with or without a pull of its own.             *)
GiveUp ==
  /\ answer = "none"
  /\ cancelled
  /\ answer' = "ctx"
  /\ read' \in {read, read + 1}
  /\ UNCHANGED <<stream, cancelled, out>>

Cancel ==
  /\ ~cancelled
  /\ cancelled' = TRUE
  /\ UNCHANGED <<stream, read, out, answer>>

Next == Deliver \/ Skip \/ Fail \/ End \/ GiveUp \/ Cancel

Spec == Init /\ [][Next]_abstractVars
=============================================================================
