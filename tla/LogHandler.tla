----------------------------- MODULE LogHandler -----------------------------
(***************************************************************************)
(* The /logs endpoint (filnetsim/logs.go, filnetsim/writebuf.go): one      *)
(* goroutine per client (HandleHttp) hands its response writer to one      *)
(* pump goroutine (PipeLogsToWriters) over the buffered channel wch, and   *)
(* then waits for the context.  The pump reads the merged log chunk by     *)
(* chunk, admits the writers that queued up meanwhile, catches them up     *)
(* from a ring of old chunks, and writes the new chunk to every writer.    *)
(*                                                                         *)
(* A chunk is the number of the Read that returned it.  Slices of writers  *)
(* are sets: ranging over one is a choice of any writer not visited yet,   *)
(* and a nil entry is a writer that left the set.                          *)
(***************************************************************************)
EXTENDS Integers, Sequences

CONSTANTS
  Clients,        \* the HTTP requests for /logs, each with its writer
  Nil,            \* no writer
  LogBufferSize,  \* slots in the ring of old chunks
  WchCap,         \* capacity of wch
  MaxReads        \* bound: chunks the log stream holds

ASSUME NilAssumption == Nil \notin Clients
ASSUME SizeAssumption == /\ LogBufferSize \in Nat \ {0}
                         /\ WchCap \in Nat \ {0}
                         /\ MaxReads \in Nat

VARIABLES
  ctxDone,  \* the context is cancelled
  hs,       \* [Clients -> where HandleHttp is]
  conn,     \* [Clients -> what a write to the client meets]
  got,      \* [Clients -> chunks written to the client]
  since,    \* history: [Clients -> the chunk in buf when wch took the writer]
  wch,      \* queue of writers not admitted yet
  pc,       \* where PipeLogsToWriters is
  ws,       \* the admitted writers
  newWs,    \* the writers taken from wch in this round
  todo,     \* writers the current range loop has not visited
  cur,      \* the writer being caught up
  p,        \* the slot ring.Do visits
  ring,     \* [Slots -> chunk, 0 where unused]
  at,       \* the slot RingWriter.ring points to
  last      \* the chunk in buf, which is the number of Reads so far

clientVars == <<hs, conn>>
seen == <<got, since>>
ringVars == <<ring, at>>
loopVars == <<ws, newWs, todo, cur, p>>
vars == <<ctxDone, hs, conn, got, since, wch, pc, ws, newWs, todo, cur, p,
          ring, at, last>>

Slots == 0 .. LogBufferSize - 1

\* Mutant of NextSlot: the ring does not close.
NextSlotOpen(i) == i + 1

\* container/ring's Next.
NextSlot(i) == IF i = LogBufferSize - 1 THEN 0 ELSE i + 1

HandlerStates == {"idle", "sending", "waiting", "returned"}
ConnStates == {"up", "stalled", "down"}
PumpStates == {"first", "read", "select", "drain", "catchup", "deliver", "done"}

Init ==
  /\ ctxDone = FALSE
  /\ hs = [c \in Clients |-> "idle"]
  /\ conn = [c \in Clients |-> "up"]
  /\ got = [c \in Clients |-> <<>>]
  /\ since = [c \in Clients |-> 0]
  /\ wch = <<>>
  /\ pc = "first"
  /\ ws = {} /\ newWs = {} /\ todo = {}
  /\ cur = Nil
  /\ p = 0
  /\ ring = [i \in Slots |-> 0]
  /\ at = 0
  /\ last = 0

-----------------------------------------------------------------------------
(* The context and the HTTP side. *)

Cancel ==
  /\ ~ctxDone
  /\ ctxDone' = TRUE
  /\ UNCHANGED <<clientVars, seen, wch, pc, loopVars, ringVars, last>>

\* HandleHttp up to the send in AddWriter.
HandleHttp(c) ==
  /\ hs[c] = "idle"
  /\ hs' = [hs EXCEPT ![c] = "sending"]
  /\ UNCHANGED <<ctxDone, conn, seen, wch, pc, loopVars, ringVars, last>>

\* The send on wch, which blocks while wch is full.
AddWriter(c) ==
  /\ hs[c] = "sending"
  /\ Len(wch) < WchCap
  /\ wch' = Append(wch, c)
  /\ hs' = [hs EXCEPT ![c] = "waiting"]
  /\ since' = [since EXCEPT ![c] = last]
  /\ UNCHANGED <<ctxDone, conn, got, pc, loopVars, ringVars, last>>

\* Wait returns, HandleHttp with it, and the server ends the response: the
\* pump may still hold its writer.
Wait(c) ==
  /\ hs[c] = "waiting"
  /\ ctxDone
  /\ hs' = [hs EXCEPT ![c] = "returned"]
  /\ conn' = [conn EXCEPT ![c] = "down"]
  /\ UNCHANGED <<ctxDone, seen, wch, pc, loopVars, ringVars, last>>

\* The client stops reading (its buffers fill up), reads again, goes away.
SetConn(c, from, to) ==
  /\ hs[c] \in {"sending", "waiting"}
  /\ conn[c] \in from
  /\ conn' = [conn EXCEPT ![c] = to]
  /\ UNCHANGED <<ctxDone, hs, seen, wch, pc, loopVars, ringVars, last>>

Stall(c)  == SetConn(c, {"up"}, "stalled")
Resume(c) == SetConn(c, {"stalled"}, "up")
Drop(c)   == SetConn(c, {"up", "stalled"}, "down")

-----------------------------------------------------------------------------
(* PipeLogsToWriters *)

\* Mutant of FirstWriter: the pump does not wait for a writer.
FirstWriterOptional ==
  /\ pc = "first"
  /\ pc' = "read"
  /\ UNCHANGED <<ctxDone, clientVars, seen, wch, loopVars, ringVars, last>>

\* w := <-l.wch; the context is not consulted here.
FirstWriter ==
  /\ pc = "first"
  /\ wch # <<>>
  /\ ws' = {Head(wch)}
  /\ wch' = Tail(wch)
  /\ pc' = "read"
  /\ UNCHANGED <<ctxDone, clientVars, seen, newWs, todo, cur, p, ringVars, last>>

Read ==
  /\ pc = "read"
  /\ last < MaxReads
  /\ last' = last + 1
  /\ pc' = "select"
  /\ UNCHANGED <<ctxDone, clientVars, seen, wch, loopVars, ringVars>>

ReadError ==
  /\ pc = "read"
  /\ pc' = "done"
  /\ UNCHANGED <<ctxDone, clientVars, seen, wch, loopVars, ringVars, last>>

\* The three cases of the select; a ready wch and a done context compete.
SelectWriter ==
  /\ pc = "select"
  /\ wch # <<>>
  /\ newWs' = {Head(wch)}
  /\ wch' = Tail(wch)
  /\ pc' = "drain"
  /\ UNCHANGED <<ctxDone, clientVars, seen, ws, todo, cur, p, ringVars, last>>

SelectDone ==
  /\ pc = "select"
  /\ ctxDone
  /\ pc' = "done"
  /\ UNCHANGED <<ctxDone, clientVars, seen, wch, loopVars, ringVars, last>>

\* Mutant of SelectDefault: it is taken although a writer is waiting.
SelectDefaultAlways ==
  /\ pc = "select"
  /\ ~ctxDone
  /\ todo' = ws
  /\ pc' = "deliver"
  /\ UNCHANGED <<ctxDone, clientVars, seen, wch, ws, newWs, cur, p, ringVars, last>>

SelectDefault ==
  /\ pc = "select"
  /\ wch = <<>> /\ ~ctxDone
  /\ todo' = ws
  /\ pc' = "deliver"
  /\ UNCHANGED <<ctxDone, clientVars, seen, wch, ws, newWs, cur, p, ringVars, last>>

DrainWriterCh ==
  /\ pc = "drain"
  /\ IF wch # <<>>
       THEN /\ newWs' = newWs \cup {Head(wch)}
            /\ wch' = Tail(wch)
            /\ UNCHANGED <<todo, pc>>
       ELSE /\ todo' = newWs
            /\ pc' = "catchup"
            /\ UNCHANGED <<newWs, wch>>
  /\ UNCHANGED <<ctxDone, clientVars, seen, ws, cur, p, ringVars, last>>

\* Mutant of StartCatchUp: the catch-up begins at the first slot of the ring,
\* not at the handle.
StartAtZero(w) ==
  /\ pc = "catchup"
  /\ cur = Nil
  /\ w \in todo
  /\ cur' = w
  /\ p' = 0
  /\ todo' = todo \ {w}
  /\ UNCHANGED <<ctxDone, clientVars, seen, wch, pc, ws, newWs, ringVars, last>>

\* lastLogs.WriteTo(w) begins at the slot the ring points to.
StartCatchUp(w) ==
  /\ pc = "catchup"
  /\ cur = Nil
  /\ w \in todo
  /\ cur' = w
  /\ p' = at
  /\ todo' = todo \ {w}
  /\ UNCHANGED <<ctxDone, clientVars, seen, wch, pc, ws, newWs, ringVars, last>>

\* ring.Do goes on to the next slot, until it is back where it began.
Advance ==
  /\ p' = NextSlot(p)
  /\ cur' = IF NextSlot(p) = at THEN Nil ELSE cur

\* A write that succeeds without reaching anybody: net/http buffers it, and a
\* Flush that fails reports nothing.
SkipSlot ==
  /\ pc = "catchup"
  /\ cur # Nil
  /\ ring[p] = 0 \/ conn[cur] = "down"
  /\ Advance
  /\ UNCHANGED <<ctxDone, clientVars, seen, wch, pc, ws, newWs, todo, ringVars, last>>

WriteSlot ==
  /\ pc = "catchup"
  /\ cur # Nil
  /\ ring[p] # 0
  /\ conn[cur] = "up"
  /\ got' = [got EXCEPT ![cur] = Append(@, ring[p])]
  /\ Advance
  /\ UNCHANGED <<ctxDone, clientVars, since, wch, pc, ws, newWs, todo, ringVars, last>>

\* The short circuit of WriteTo and newWs[i] = nil.
FailSlot ==
  /\ pc = "catchup"
  /\ cur # Nil
  /\ ring[p] # 0
  /\ conn[cur] = "down"
  /\ newWs' = newWs \ {cur}
  /\ cur' = Nil
  /\ UNCHANGED <<ctxDone, clientVars, seen, wch, pc, ws, todo, p, ringVars, last>>

\* Mutant of EndCatchUp: the new writers are not appended to ws.
EndCatchUpForgets ==
  /\ pc = "catchup"
  /\ cur = Nil
  /\ todo = {}
  /\ todo' = ws
  /\ newWs' = {}
  /\ pc' = "deliver"
  /\ UNCHANGED <<ctxDone, clientVars, seen, wch, ws, cur, p, ringVars, last>>

\* Mutant of EndCatchUp: the chunk goes to the new writers only.
EndCatchUpNewOnly ==
  /\ pc = "catchup"
  /\ cur = Nil
  /\ todo = {}
  /\ ws' = ws \cup newWs
  /\ todo' = newWs
  /\ newWs' = {}
  /\ pc' = "deliver"
  /\ UNCHANGED <<ctxDone, clientVars, seen, wch, cur, p, ringVars, last>>

\* ws = pruneNils(append(ws, newWs...)), and the range over it begins.
EndCatchUp ==
  /\ pc = "catchup"
  /\ cur = Nil
  /\ todo = {}
  /\ ws' = ws \cup newWs
  /\ todo' = ws \cup newWs
  /\ newWs' = {}
  /\ pc' = "deliver"
  /\ UNCHANGED <<ctxDone, clientVars, seen, wch, cur, p, ringVars, last>>

\* w.Write(bytesRead) reaches the client, or vanishes in a dead connection.
Deliver(w) ==
  /\ pc = "deliver"
  /\ w \in todo
  /\ conn[w] # "stalled"
  /\ got' = IF conn[w] = "up" THEN [got EXCEPT ![w] = Append(@, last)] ELSE got
  /\ todo' = todo \ {w}
  /\ UNCHANGED <<ctxDone, clientVars, since, wch, pc, ws, newWs, cur, p, ringVars, last>>

\* Mutant of DeliverError: a write deadline drops writers that are only slow.
DeliverDeadline(w) ==
  /\ pc = "deliver"
  /\ w \in todo
  /\ conn[w] # "up"
  /\ ws' = ws \ {w}
  /\ todo' = todo \ {w}
  /\ UNCHANGED <<ctxDone, clientVars, seen, wch, pc, newWs, cur, p, ringVars, last>>

\* ws[i] = nil
DeliverError(w) ==
  /\ pc = "deliver"
  /\ w \in todo
  /\ conn[w] = "down"
  /\ ws' = ws \ {w}
  /\ todo' = todo \ {w}
  /\ UNCHANGED <<ctxDone, clientVars, seen, wch, pc, newWs, cur, p, ringVars, last>>

\* lastLogs.Write(bytesRead)
Store ==
  /\ pc = "deliver"
  /\ todo = {}
  /\ ring' = [ring EXCEPT ![at] = last]
  /\ at' = NextSlot(at)
  /\ pc' = "read"
  /\ UNCHANGED <<ctxDone, clientVars, seen, wch, loopVars, last>>

-----------------------------------------------------------------------------
Handler(c) == HandleHttp(c) \/ AddWriter(c) \/ Wait(c)

Client(c) == Stall(c) \/ Resume(c) \/ Drop(c)

\* The steps of the pump that no client and no log source can hold up.
Control ==
  \/ FirstWriter \/ SelectWriter \/ SelectDone \/ SelectDefault
  \/ DrainWriterCh \/ SkipSlot \/ FailSlot \/ EndCatchUp \/ Store
  \/ \E w \in Clients : StartCatchUp(w) \/ DeliverError(w)

Next ==
  \/ Cancel
  \/ Read
  \/ ReadError
  \/ Control
  \/ WriteSlot
  \/ \E c \in Clients : Handler(c) \/ Client(c) \/ Deliver(c)

Spec == Init /\ [][Next]_vars

(* Goroutines that can run do run; the log source owes nothing, so Read has
   no fairness; a client that stopped reading reads again or goes away. *)
Fairness ==
  /\ WF_vars(Control)
  /\ SF_vars(WriteSlot)
  /\ \A c \in Clients : /\ SF_vars(Deliver(c))
                        /\ WF_vars(AddWriter(c))
                        /\ WF_vars(Wait(c))
                        /\ WF_vars(Resume(c))

FairSpec == Spec /\ Fairness

-----------------------------------------------------------------------------
(* Properties *)

Members(q) == {q[i] : i \in 1 .. Len(q)}

Distinct(q) == \A i, j \in 1 .. Len(q) : q[i] = q[j] => i = j

Queued == Members(wch)

Newest(c) == got[c][Len(got[c])]

\* Every variable has its type.
TypeOK ==
  /\ ctxDone \in BOOLEAN
  /\ hs \in [Clients -> HandlerStates]
  /\ conn \in [Clients -> ConnStates]
  /\ got \in [Clients -> Seq(Nat)]
  /\ since \in [Clients -> Nat]
  /\ wch \in Seq(Clients)
  /\ pc \in PumpStates
  /\ ws \subseteq Clients /\ newWs \subseteq Clients /\ todo \subseteq Clients
  /\ cur \in Clients \cup {Nil}
  /\ p \in Slots
  /\ ring \in [Slots -> Nat]
  /\ at \in Slots
  /\ last \in Nat

\* A client that queued for the log while chunk k was the newest receives
\* every chunk after k: however many rounds other clients' stalls and the
\* full channel cost it, its catch-up still reaches back to k + 1.  (The
\* drain of wch in each round and the size of the ring together.)
NothingMissed ==
  \A c \in Clients : got[c] # <<>> => got[c][1] <= since[c] + 1

\* The endpoint implements the abstract fan-out: catch-up, live delivery and
\* the ring join without a gap, a repetition or a reordering, and the pump
\* never reads on while a living viewer lags.
Fanout ==
  INSTANCE LogFanout WITH
    Viewers <- Clients,
    Depth <- LogBufferSize,
    published <- last,
    feed <- got,
    gone <- {c \in Clients : conn[c] = "down"}

RefinesFanout == Fanout!Spec

\* A client in the channel when the pump has read a chunk is served, unless
\* its connection breaks or the pump ends.
NewcomersServed ==
  \A c \in Clients :
    (pc = "select" /\ c \in Queued) ~>
      (got[c] # <<>> \/ conn[c] = "down" \/ pc = "done")

Behind(c) == got[c] # <<>> /\ Newest(c) < last

\* A viewer that has begun to receive gets every chunk read, unless its
\* connection breaks or the context is done: a stalled neighbour delays it
\* but does not cost it the chunk.
LaggardsCatchUp ==
  \A c \in Clients : Behind(c) ~> (~Behind(c) \/ conn[c] = "down" \/ ctxDone)
-----------------------------------------------------------------------------
(* The inductive invariant behind TypeOK, NothingMissed and RefinesFanout. *)

\* A writer is in one place at a time, and the range loops visit what they
\* range over.
Places ==
  /\ \A c \in Clients : hs[c] \in {"idle", "sending"} =>
       got[c] = <<>> /\ c \notin Queued \cup ws \cup newWs
  /\ Distinct(wch)
  /\ Queued \cap (ws \cup newWs) = {}
  /\ ws \cap newWs = {}
  /\ pc \notin {"drain", "catchup"} => newWs = {}
  /\ pc \notin {"catchup", "deliver"} => todo = {}
  /\ pc = "catchup" => todo \subseteq newWs
  /\ pc = "deliver" => todo \subseteq ws
  /\ cur # Nil => pc = "catchup" /\ cur \in newWs \ todo
  /\ pc = "first" => last = 0 /\ ws = {}
  /\ pc \in {"select", "drain", "catchup", "deliver"} => last > 0

\* How many chunks are newer than the one in slot i, counted from the oldest.
Age(i) == IF i >= at THEN i - at ELSE i - at + LogBufferSize

Stored == IF pc \in {"first", "read"} THEN last ELSE last - 1

\* The newest chunk a client has seen once ring.Do has left slots of age < a.
SeenAt(a) == IF Stored - LogBufferSize + a > 0 THEN Stored - LogBufferSize + a ELSE 0

\* The ring holds the last LogBufferSize chunks, oldest at the handle.
RingInv == pc # "done" => \A i \in Slots : ring[i] = SeenAt(Age(i) + 1)

UpTo(c, n) == IF got[c] = <<>> THEN n = 0 ELSE Newest(c) = n

\* How far each living client has got, by where its writer is.
Windows ==
  pc # "done" => \A c \in Clients : conn[c] # "down" =>
    /\ c \notin ws \cup newWs => got[c] = <<>>
    /\ c \in ws =>
         UpTo(c, IF pc = "read" \/ (pc = "deliver" /\ c \notin todo)
                   THEN last ELSE last - 1)
    /\ c \in newWs =>
         IF pc = "drain" \/ c \in todo \/ (c = cur /\ p = at)
           THEN got[c] = <<>>
           ELSE UpTo(c, IF c = cur THEN SeenAt(Age(p)) ELSE last - 1)

\* No writer waits in wch, or to be caught up, for more than one Read.
SinceInv ==
  pc # "done" =>
    /\ \A c \in Queued :
         since[c] >= IF pc \in {"select", "drain"} THEN last - 1 ELSE last
    /\ \A c \in newWs : since[c] >= last - 1

\* Together they are inductive.
IInv ==
  /\ TypeOK
  /\ Places
  /\ RingInv
  /\ Windows
  /\ SinceInv
  /\ NothingMissed
=============================================================================
