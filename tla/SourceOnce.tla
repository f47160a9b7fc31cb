----------------------------- MODULE SourceOnce -----------------------------
(***************************************************************************)
(* Once: a source's first read, its schema's, by the queries that share    *)
(* the source (internal/source/once.go).                                   *)
(*                                                                         *)
(* A step is what a caller does between two accesses to what callers       *)
(* share.  A caller is a query's goroutine; its context may end whenever   *)
(* it likes.  The channel a run closes as it ends is known by the caller   *)
(* that runs it, and a waiter on a closed one waits on no one.             *)
(***************************************************************************)
EXTENDS Integers, FiniteSets

CONSTANTS
  Callers,    \* the goroutines that call Do
  NoCaller,   \* stands for no caller
  MaxCalls    \* bound: the calls each makes, with a context of its own each

ASSUME OnceAssumption ==
  /\ NoCaller \notin Callers
  /\ MaxCalls \in Nat

VARIABLES
  done, err,  \* whether an answer is kept, and which
  runner,     \* o.running: who has the run in progress
  source,     \* what f writes: "none", "partly" as a run goes on, "whole"
  at,         \* where each caller is
  ended,      \* whether its context has ended
  waits,      \* whose run it waits on, NoCaller once that is closed
  answer,     \* what f returned to it
  keep,       \* whether it is kept
  returned,   \* what its last Do returned
  calls       \* the calls it has made

once     == <<done, err, runner>>
onceVars == <<once, source, at, ended, waits, answer, keep, returned, calls>>

OnceInit ==
  /\ done = FALSE /\ err = "none" /\ runner = NoCaller
  /\ source = "none"
  /\ at = [c \in Callers |-> "out"]
  /\ ended = [c \in Callers |-> FALSE]
  /\ waits = [c \in Callers |-> NoCaller]
  /\ answer = [c \in Callers |-> "none"]
  /\ keep = [c \in Callers |-> FALSE]
  /\ returned = [c \in Callers |-> "none"]
  /\ calls = [c \in Callers |-> 0]

Goes(c, from, to) == at[c] = from /\ at' = [at EXCEPT ![c] = to]

-----------------------------------------------------------------------------

(* A query calls Do, under a context of its own.                           *)
Call(c) ==
  /\ Goes(c, "out", "enter")
  /\ calls[c] < MaxCalls
  /\ calls' = [calls EXCEPT ![c] = @ + 1]
  /\ ended' = [ended EXCEPT ![c] = FALSE]
  /\ answer' = [answer EXCEPT ![c] = "none"]
  /\ keep' = [keep EXCEPT ![c] = FALSE]
  /\ returned' = [returned EXCEPT ![c] = "none"]
  /\ UNCHANGED <<once, source, waits>>

(* The query is cancelled, or its deadline passes.                         *)
ContextEnds(c) ==
  /\ at[c] # "out" /\ ~ended[c]
  /\ ended' = [ended EXCEPT ![c] = TRUE]
  /\ UNCHANGED <<once, source, at, waits, answer, keep, returned, calls>>

(* Do under the lock: the kept answer, a wait, or a run of its own.        *)
Kept(c) ==
  /\ Goes(c, "enter", "out")
  /\ done
  /\ returned' = [returned EXCEPT ![c] = err]
  /\ UNCHANGED <<once, source, ended, waits, answer, keep, calls>>

Wait(c) ==
  /\ Goes(c, "enter", "wait")
  /\ ~done /\ runner # NoCaller
  /\ waits' = [waits EXCEPT ![c] = runner]
  /\ UNCHANGED <<once, source, ended, answer, keep, returned, calls>>

(* Mutant of Begin: a run goes on beside another.                          *)
BeginBeside(c) ==
  /\ Goes(c, "enter", "run")
  /\ ~done
  /\ runner' = c
  /\ source' = "partly"
  /\ UNCHANGED <<done, err, ended, waits, answer, keep, returned, calls>>

Begin(c) ==
  /\ Goes(c, "enter", "run")
  /\ ~done /\ runner = NoCaller
  /\ runner' = c
  /\ source' = "partly"
  /\ UNCHANGED <<done, err, ended, waits, answer, keep, returned, calls>>

(* Mutant of Wake: a waiter takes the run's answer for its own.            *)
WakeWithIt(c) ==
  /\ Goes(c, "wait", "out")
  /\ waits[c] = NoCaller
  /\ \E r \in Callers : returned' = [returned EXCEPT ![c] = answer[r]] /\ answer[r] # "none"
  /\ UNCHANGED <<once, source, ended, waits, answer, keep, calls>>

(* The select of a waiter: the run it waits on ended, or its own context.  *)
Wake(c) ==
  /\ Goes(c, "wait", "enter")
  /\ waits[c] = NoCaller
  /\ UNCHANGED <<once, source, ended, waits, answer, keep, returned, calls>>

GiveUp(c) ==
  /\ Goes(c, "wait", "out")
  /\ ended[c]
  /\ waits' = [waits EXCEPT ![c] = NoCaller]
  /\ returned' = [returned EXCEPT ![c] = "ctx"]
  /\ UNCHANGED <<once, source, ended, answer, keep, calls>>

-----------------------------------------------------------------------------
(* run.                                                                    *)

(* f returns: its answer, the context's error where that ended, or not at  *)
(* all, with a panic.                                                      *)
Runs(c, a) ==
  /\ Goes(c, "run", IF a = "panic" THEN "end" ELSE "ran")
  /\ a = "ctx" => ended[c]
  /\ answer' = [answer EXCEPT ![c] = a]
  /\ source' = IF a = "ok" THEN "whole" ELSE source
  /\ UNCHANGED <<once, ended, waits, keep, returned, calls>>

(* An answer is kept where it is no error or the context has not ended.    *)
Keeps(c) ==
  /\ Goes(c, "ran", "end")
  /\ keep' = [keep EXCEPT ![c] = answer[c] = "ok" \/ ~ended[c]]
  /\ UNCHANGED <<once, source, ended, waits, answer, returned, calls>>

(* Mutant of Ends: the run ends first and its answer is not kept.          *)
EndsUnkept(c) ==
  /\ Goes(c, "end", "close")
  /\ runner' = NoCaller
  /\ UNCHANGED <<done, err, source, ended, waits, answer, keep, returned, calls>>

(* The deferred function, under the lock.                                  *)
Ends(c) ==
  /\ Goes(c, "end", "close")
  /\ runner' = NoCaller
  /\ IF keep[c] THEN done' = TRUE /\ err' = answer[c] ELSE UNCHANGED <<done, err>>
  /\ UNCHANGED <<source, ended, waits, answer, keep, returned, calls>>

(* Mutant of Closes: a run that keeps nothing wakes no one.                *)
ClosesKept(c) ==
  /\ Goes(c, "close", "out")
  /\ waits' = [w \in Callers |-> IF waits[w] = c /\ keep[c] THEN NoCaller ELSE waits[w]]
  /\ returned' = [returned EXCEPT ![c] = answer[c]]
  /\ UNCHANGED <<once, source, ended, answer, keep, calls>>

(* And then, outside it, the waiters are let go.                           *)
Closes(c) ==
  /\ Goes(c, "close", "out")
  /\ waits' = [w \in Callers |-> IF waits[w] = c THEN NoCaller ELSE waits[w]]
  /\ returned' = [returned EXCEPT ![c] = answer[c]]
  /\ UNCHANGED <<once, source, ended, answer, keep, calls>>

Returns(c) ==
  \/ Kept(c) \/ Wait(c) \/ Begin(c) \/ Wake(c) \/ GiveUp(c)
  \/ \E a \in {"ok", "err", "ctx", "panic"} : Runs(c, a)
  \/ Keeps(c) \/ Ends(c) \/ Closes(c)

OnceNext == \E c \in Callers : Call(c) \/ ContextEnds(c) \/ Returns(c)

OnceSafe == OnceInit /\ [][OnceNext]_onceVars

(* A caller in Do goes on, and f returns: its reads end or its context     *)
(* ends them.  Whether a query is made or cancelled is its caller's.       *)
OnceSpec == OnceSafe /\ \A c \in Callers : WF_onceVars(Returns(c))

-----------------------------------------------------------------------------
(* What holds of it.                                                       *)

Answers == {"none", "ok", "err", "ctx", "panic"}

(* Every variable has its type, and a kept answer is f's: never a panic,   *)
(* and never the end of a context, which is the caller's alone.            *)
OnceTypeOK ==
  /\ done \in BOOLEAN /\ err \in {"none", "ok", "err"}
  /\ runner \in Callers \union {NoCaller}
  /\ source \in {"none", "partly", "whole"}
  /\ at \in [Callers -> {"out", "enter", "wait", "run", "ran", "end", "close"}]
  /\ ended \in [Callers -> BOOLEAN] /\ keep \in [Callers -> BOOLEAN]
  /\ waits \in [Callers -> Callers \union {NoCaller}]
  /\ answer \in [Callers -> Answers] /\ returned \in [Callers -> Answers]
  /\ calls \in [Callers -> 0..MaxCalls]

(* A query gets the end of its own context or none: one cancelled query    *)
(* never fails another that shares its source.                             *)
OwnContext ==
  \A c \in Callers : returned[c] = "ctx" => ended[c]

(* One run writes the source at a time, and none once a query was told it  *)
(* is whole: what that query reads of it no longer moves.                  *)
OneRun ==
  /\ \A c, d \in Callers : at[c] = "run" /\ at[d] = "run" => c = d
  /\ (\E c \in Callers : returned[c] = "ok") => source = "whole"

(* The queries are told one thing of the source: where one is told it      *)
(* fails and another that it does not, the first one's context had ended,  *)
(* and the failure was not kept.                                           *)
OneAnswer ==
  \A c, d \in Callers : returned[c] = "err" /\ returned[d] = "ok" => ended[c]

(* Every call of Do returns: no waiter is left on a run that is over.      *)
EveryCallReturns ==
  \A c \in Callers : at[c] # "out" ~> at[c] = "out"
=============================================================================
