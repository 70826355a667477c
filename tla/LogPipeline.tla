----------------------------- MODULE LogPipeline -----------------------------
(***************************************************************************)
(* The log from the nodes to the browsers: LogMixer composed with          *)
(* LogHandler (filnetsim/main.go, runService, gives the one's reader to    *)
(* the other).  The pump's Read is the only step they have in common; it   *)
(* takes a piece of the aggregator's pipe, which is the chunk that the     *)
(* handler numbers.  The aggregator's pipe is never closed, so that the    *)
(* Read does not fail, and the context is done only when runService        *)
(* returns, with which the process ends: the pump reads for ever.          *)
(***************************************************************************)
EXTENDS LogMixer

CONSTANTS Clients, LogBufferSize, WchCap, MaxReads \* see LogHandler

VARIABLES
  ctxDone, hs, conn, got, since, wch, pc, ws, newWs, todo, cur, p, ring, at, last,
  log  \* [chunk number -> the units that its Read returned]

Handler == INSTANCE LogHandler

ASSUME PipeAssumption == Handler!NilAssumption /\ Handler!SizeAssumption

mixVars == vars
pumpVars ==
  <<ctxDone, hs, conn, got, since, wch, pc, ws, newWs, todo, cur, p, ring, at, last>>
pipeVars == <<mixVars, pumpVars, log>>

PipeInit == Init /\ Handler!Init /\ log = <<>>

-----------------------------------------------------------------------------
PumpRests == UNCHANGED <<pumpVars, log>>

\* The nodes' side goes on without the pump as far as the pipes let it.
NodeLogs(n) ==
  /\ MixReader(n) \/ Transform(n) \/ Announce(n) \/ MixScanner(n)
  /\ PumpRests

MixerRests == UNCHANGED <<mixVars, log>>

\* Requests and clients.
Outside ==
  /\ \E c \in Clients : Handler!Handler(c) \/ Handler!Client(c)
  /\ MixerRests

\* Mutant of ReadChunk: the pump pauses while it has no writers.
ReadChunkForSomebody ==
  /\ ws # {}
  /\ Handler!Read
  /\ ReadMerged
  /\ log' = Append(log, Chunk(apipe, ReadBuf))

\* n, err := logs.Read(buf)
ReadChunk ==
  /\ Handler!Read
  /\ ReadMerged
  /\ log' = Append(log, Chunk(apipe, ReadBuf))

\* What the pump does between two Reads.
PumpStep ==
  /\ Handler!Control \/ Handler!WriteSlot \/ \E c \in Clients : Handler!Deliver(c)
  /\ MixerRests

PipeNext == Outside \/ ReadChunk \/ PumpStep \/ \E n \in Nodes : NodeLogs(n)

\* What goroutines do when they can; the rest is up to daemons and clients.
Goroutines ==
  \/ ReadChunk
  \/ (Handler!Control \/ \E c \in Clients : Handler!AddWriter(c)) /\ MixerRests
  \/ \E n \in Nodes : (Encode(n) \/ Announce(n) \/ MixScanner(n)) /\ PumpRests

(* Goroutines run.  It is enough that some goroutine does, because within    *)
(* the bounds each has finitely many steps.  Clients are as in LogHandler.   *)
PipeFairness ==
  /\ WF_pipeVars(Goroutines)
  /\ SF_pipeVars(Handler!WriteSlot /\ MixerRests)
  /\ \A c \in Clients : /\ SF_pipeVars(Handler!Deliver(c) /\ MixerRests)
                        /\ WF_pipeVars(Handler!Resume(c) /\ MixerRests)

PipeSpec == PipeInit /\ [][PipeNext]_pipeVars /\ PipeFairness

-----------------------------------------------------------------------------
(* Properties *)

\* The unit v may come after u: it goes on with the line, or begins one after
\* its newline.
Follows(u, v) == IF u.at < u.len THEN v = [u EXCEPT !.at = @ + 1] ELSE v.at = 1

Joined(s) == \A i \in 1 .. Len(s) - 1 : Follows(s[i], s[i + 1])

\* The units of the viewer's chunks go on from each other and from chunk to
\* chunk.  Only the ring can begin in the middle of a line (logs.go:46).
ReadsOn(c) ==
  /\ got[c] # <<>> /\ last <= LogBufferSize => log[got[c][1]][1].at = 1
  /\ \A i \in 1 .. Len(got[c]) :
       LET chunk == log[got[c][i]] IN
       /\ chunk # <<>> /\ Joined(chunk)
       /\ i < Len(got[c]) => Follows(chunk[Len(chunk)], log[got[c][i + 1]][1])

\* The line num of the source begins in the chunk.
Begins(chunk, n, src, num) ==
  \E i \in 1 .. Len(chunk) :
    chunk[i].at = 1 /\ chunk[i].node = n /\ chunk[i].src = src /\ chunk[i].num = num

\* Of the lines that begin in the viewer's chunks, those of one source come in
\* order, each once, and none between them is left out.
NoneLeftOut(c, n, src) ==
  \A i, k \in 1 .. Len(got[c]), a, b \in 1 .. MaxLines :
    Begins(log[got[c][i]], n, src, a) /\ Begins(log[got[c][k]], n, src, b) =>
      /\ (i < k) <=> (a < b)
      /\ \A num \in a .. b : \E j \in i .. k : Begins(log[got[c][j]], n, src, num)

\* However Reads cut the lines, the ring forgets, and viewers join, stall and
\* drop: what a viewer reads is lines, whole but for the first and last of them,
\* with nothing left out of any node's log.
ViewersReadLines ==
  \A c \in Clients :
    ReadsOn(c) /\ \A n \in Nodes, src \in Sources : NoneLeftOut(c, n, src)

\* Nothing is read before a first viewer (logs.go:42), and the pipes hold nothing:
\* until a viewer has queued, a node gets rid of one line, so that AddNode waits
\* behind it if that was an event.
OneLineBeforeViewer ==
  (\A c \in Clients : hs[c] \in {"idle", "sending"}) =>
    \A n \in Nodes : accepted[n]["transform"] + accepted[n]["announce"] <= 1

\* Once a viewer has queued, no line waits for ever in the aggregator's pipe, with
\* all scanners behind it: the pump comes back to its Read whatever becomes of its
\* viewers, as LogMixer assumes, unless a client stops reading for good.
LinesAreTaken ==
  \A n \in Nodes :
    []<>(spc[n] # "writing" \/ \A c \in Clients : hs[c] \in {"idle", "sending"})

\* The chunk ends the announcement of the node.
Announces(chunk, n) ==
  \E u \in Range(chunk) : u.node = n /\ u.src = "announce" /\ u.at = u.len

Sees(c, n) == \E i \in DOMAIN got[c] : Announces(log[got[c][i]], n)

\* The announcement of the node is to come, or has been read since wch took c.
Due(c, n) ==
  /\ hs[c] = "waiting"
  /\ apc[n] \in {"announce", "writing", "announced"}
  /\ \A k \in 1 .. since[c] : ~Announces(log[k], n)

\* Who waits for the log when a node is announced gets to see it, even if it
\* stalls or the node's events come first, and however far its catch-up is.
AnnouncementSeen ==
  []<>(\A c \in Clients, n \in Nodes : Due(c, n) => Sees(c, n) \/ conn[c] = "down")
=============================================================================
