----------------------------- MODULE AsyncErrs -----------------------------
(***************************************************************************)
(* AsyncErrs (network/wgerr.go) runs `each` for 1 .. Num at once, waits    *)
(* for all of them and returns the errors.  AddNodes and ShutdownAll call  *)
(* it.  The channel of the results is buffered for all of them.            *)
(***************************************************************************)
EXTENDS Naturals, Sequences

CONSTANT Num  \* how many calls

ASSUME NumAssumption == Num \in Nat

VARIABLES
  pc,       \* where AsyncErrs is
  gpc,      \* [Calls -> where the goroutine is]
  outcome,  \* [Calls -> what `each` returned]
  wg,       \* the wait group's counter
  errc,     \* the results sent, by call
  closed,   \* errc is closed
  errs      \* the result, by call

vars == <<pc, gpc, outcome, wg, errc, closed, errs>>

Calls == 1 .. Num

Init ==
  /\ pc = 1
  /\ gpc = [j \in Calls |-> "none"]
  /\ outcome = [j \in Calls |-> "none"]
  /\ wg = 0
  /\ errc = <<>>
  /\ closed = FALSE
  /\ errs = <<>>

\* Mutant of Go: wg.Add(1) is forgotten for the last call.
GoWithoutAdd ==
  /\ pc \in Calls
  /\ wg' = IF pc = Num THEN wg ELSE wg + 1
  /\ gpc' = [gpc EXCEPT ![pc] = "call"]
  /\ pc' = pc + 1
  /\ UNCHANGED <<outcome, errc, closed, errs>>

\* The loop: wg.Add(1) and go, for call pc.
Go ==
  /\ pc \in Calls
  /\ wg' = wg + 1
  /\ gpc' = [gpc EXCEPT ![pc] = "call"]
  /\ pc' = pc + 1
  /\ UNCHANGED <<outcome, errc, closed, errs>>

Each(j) ==
  /\ gpc[j] = "call"
  /\ \E r \in {"nil", "err"} : outcome' = [outcome EXCEPT ![j] = r]
  /\ gpc' = [gpc EXCEPT ![j] = "send"]
  /\ UNCHANGED <<pc, wg, errc, closed, errs>>

\* Mutant of Send: the channel has room for one result less.
SendShort(j) ==
  /\ gpc[j] = "send"
  /\ Len(errc) < Num - 1
  /\ errc' = Append(errc, j)
  /\ gpc' = [gpc EXCEPT ![j] = "done"]
  /\ UNCHANGED <<pc, outcome, wg, closed, errs>>

\* errc <- ..., which blocks while the buffer is full.
Send(j) ==
  /\ gpc[j] = "send"
  /\ Len(errc) < Num
  /\ errc' = Append(errc, j)
  /\ gpc' = [gpc EXCEPT ![j] = "done"]
  /\ UNCHANGED <<pc, outcome, wg, closed, errs>>

\* The deferred wg.Done
Done(j) ==
  /\ gpc[j] = "done"
  /\ wg' = wg - 1
  /\ gpc' = [gpc EXCEPT ![j] = "returned"]
  /\ UNCHANGED <<pc, outcome, errc, closed, errs>>

\* wg.Wait, then close(errc)
WaitAndClose ==
  /\ pc = Num + 1
  /\ wg = 0
  /\ closed' = TRUE
  /\ pc' = Num + 2
  /\ UNCHANGED <<gpc, outcome, wg, errc, errs>>

\* for _, e := range errs: the slice it appends to, not the channel.
Collect ==
  /\ pc = Num + 2
  /\ errs' = errs \o errs
  /\ pc' = Num + 3
  /\ UNCHANGED <<gpc, outcome, wg, errc, closed>>

Goroutine(j) == Each(j) \/ Send(j) \/ Done(j)

Next == Go \/ WaitAndClose \/ Collect \/ \E j \in Calls : Goroutine(j)

Spec == Init /\ [][Next]_vars

\* Goroutines run, and every call of `each` returns.
Fairness ==
  /\ WF_vars(Go \/ WaitAndClose \/ Collect)
  /\ \A j \in Calls : WF_vars(Goroutine(j))

FairSpec == Spec /\ Fairness

-----------------------------------------------------------------------------
(* Properties *)

\* Every variable has its type.
TypeOK ==
  /\ pc \in 1 .. Num + 3
  /\ gpc \in [Calls -> {"none", "call", "send", "done", "returned"}]
  /\ outcome \in [Calls -> {"none", "nil", "err"}]
  /\ wg \in 0 .. Num
  /\ errc \in Seq(Calls) /\ errs \in Seq(Calls)
  /\ closed \in BOOLEAN

\* No goroutine sends on the closed channel, which would panic: the wait group
\* covers the send of every call, also of those not started yet.
NoSendOnClosed ==
  closed => \A j \in Calls : gpc[j] \in {"done", "returned"}

\* AsyncErrs returns once every call has: no send and no wait blocks for ever.
Returns == <>(pc = Num + 3)

\* network.go:246, "adding %d/%d failed": the callers count the errors in the
\* result, so that every call that failed has to be there.
ErrorsReported ==
  pc = Num + 3 => \A j \in Calls : outcome[j] = "err" => \E i \in 1 .. Len(errs) : errs[i] = j
=============================================================================
